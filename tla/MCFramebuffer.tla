---------------------------- MODULE MCFramebuffer ----------------------------
(***************************************************************************)
(* A screen of a few pixels: a mode of the same width, one of the same     *)
(* height, one smaller both ways, one that differs by less than a place    *)
(* of the larger font, and one that cannot be used.                        *)
(***************************************************************************)
EXTENDS Framebuffer

VideoMode(x, y, ok) == [x |-> x, y |-> y, bpp |-> 32, pitch |-> 4 * x, ok |-> ok]
MCVideoModes ==
    <<VideoMode(4, 4, TRUE), VideoMode(2, 4, FALSE), VideoMode(2, 4, TRUE), VideoMode(4, 2, TRUE),
      VideoMode(2, 2, TRUE), VideoMode(5, 4, TRUE), VideoMode(3, 3, FALSE)>>

MCRequests ==
    {[x |-> m.x, y |-> m.y, bpp |-> b] : m \in ToSet(MCVideoModes), b \in {24, 32}}

MCCherry == [w |-> 1, h |-> 1]
MCFonts == {MCCherry, [w |-> 2, h |-> 1], [w |-> 2, h |-> 2]}
==============================================================================
