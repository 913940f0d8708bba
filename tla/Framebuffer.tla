----------------------------- MODULE Framebuffer -----------------------------
(***************************************************************************)
(* The framebuffer and the console on it, while resolution and font        *)
(* change: setres and setfnt of kern/main.c, the VESA driver of            *)
(* kern/io/vesa.c, and what of kern/io/fbcon.c and kern/io/console.c       *)
(* depends on the sizes.  What is drawn is left to Console: here a drawing *)
(* is the last byte it writes in the driver's back buffer.                 *)
(***************************************************************************)
EXTENDS Integers, SequencesExt

CONSTANTS
    VideoModes,     \* the modes of the BIOS: sizes, bits, linear pitch, and whether usable
    Requests,       \* what setres is called with
    Cherry,         \* the built-in font: width and height of its places
    Fonts           \* what setfnt loads

\* A font larger than the screen would leave no place on it.
ASSUME FontsFit ==
    \A f \in Fonts \cup {Cherry}, m \in ToSet(VideoModes) : f.w \in 1 .. m.x /\ f.h \in 1 .. m.y

\* vesa_probe finds at least the mode it sets; sizes are 16-bit numbers.
ASSUME ModesAssumption ==
    /\ VideoModes \in Seq([x : Nat, y : Nat, bpp : Nat, pitch : Nat, ok : BOOLEAN])
    /\ VideoModes # <<>>

VARIABLES
    mode,           \* the mode the BIOS has set
    vesa,           \* struct vesa_priv: width, height, bytes_per_pixel, pitch
    back,           \* the size of its back buffer
    fbdev,          \* struct framebuffer_device: width and height
    fbcon           \* console_t and fbcon_priv_t, with `reach', the end of what was drawn

fbvars == <<mode, vesa, back, fbdev, fbcon>>

Untracked == <<-1, -1>>
Screen == [vesa |-> vesa, back |-> back, fbdev |-> fbdev, fbcon |-> fbcon]

\* A state of the drivers becomes theirs.
Become(d) == vesa' = d.vesa /\ back' = d.back /\ fbdev' = d.fbdev /\ fbcon' = d.fbcon
------------------------------------------------------------------------------
(* Drawing. *)

Larger(m, n) == IF m >= n THEN m ELSE n

\* vesa_put_pixel, of which the end counts: four bytes, whatever a pixel has.
vesa_put_pixel(d, x, y) ==
    [d EXCEPT !.fbcon.reach = Larger(@, x * d.vesa.bytes + d.vesa.pitch * y + 4)]

\* fb_put_bitmap of a place ends with its last pixel.
fb_put_bitmap(d, x, y) ==
    vesa_put_pixel(d, (x + 1) * d.fbcon.font.w - 1, (y + 1) * d.fbcon.font.h - 1)

\* fb_putxy: "stop tracking the old cursor position"
fb_putxy(d, x, y) ==
    fb_put_bitmap([d EXCEPT !.fbcon.tracked = IF @ = <<x, y>> THEN Untracked ELSE @], x, y)

fb_set_cursor(d) ==
    LET erased == IF d.fbcon.tracked = Untracked THEN d
                  ELSE fb_putxy(d, d.fbcon.tracked[1], d.fbcon.tracked[2])
    IN  [fb_put_bitmap(erased, d.fbcon.x, d.fbcon.y) EXCEPT !.fbcon.tracked = <<d.fbcon.x, d.fbcon.y>>]

\* Spaces in all places of rows from .. to: of a row, or of the screen.
Spaced(d, from, to) ==
    fb_putxy([d EXCEPT !.fbcon.tracked =
                  IF @[2] \in from .. to /\ @[1] < d.fbcon.width THEN Untracked ELSE @],
             d.fbcon.width - 1, to)

\* vesa_shift fills all but the last rows of pixels; console_clear_row does the last places.
fb_scroll(d) ==
    Spaced([d EXCEPT !.fbcon.reach =
                Larger(@, d.vesa.pitch * Larger(d.vesa.height - d.fbcon.font.h, 0))],
           d.fbcon.y, d.fbcon.y)

\* console_clear; fb_clear draws every pixel the framebuffer device has.
console_clear(d) ==
    LET cleared == vesa_put_pixel(Spaced(d, 0, d.fbcon.height - 1), d.fbdev.width - 1, d.fbdev.height - 1)
    IN  [cleared EXCEPT !.fbcon.x = 0, !.fbcon.y = 0]
------------------------------------------------------------------------------
(* Output. *)

NextRow(d) ==
    IF d.fbcon.y + 1 >= d.fbcon.height THEN fb_scroll(d) ELSE [d EXCEPT !.fbcon.y = @ + 1]

\* console_erase behind the origin, where an ASSERT would stop the system.
console_erase(d) ==
    LET x == IF d.fbcon.x > 0 THEN d.fbcon.x - 1 ELSE d.fbcon.width - 1
        y == IF d.fbcon.x > 0 THEN d.fbcon.y ELSE d.fbcon.y - 1
    IN  fb_putxy([d EXCEPT !.fbcon.x = x, !.fbcon.y = y], x, y)

\* console_putc; "erase" is a backspace.
console_putc(c) ==
    LET put   == [fb_putxy(Screen, fbcon.x, fbcon.y) EXCEPT !.fbcon.x = @ + 1]
        start == [Screen EXCEPT !.fbcon.x = 0]
    IN  /\ c = "erase" => fbcon.x > 0 \/ fbcon.y > 0
        /\ Become(fb_set_cursor(
               CASE c = "\n" -> NextRow(start)
                 [] c = "\r" -> start
                 [] c = "erase" -> console_erase(Screen)
                 [] OTHER -> IF put.fbcon.x >= fbcon.width THEN NextRow([put EXCEPT !.fbcon.x = 0])
                             ELSE put))
        /\ UNCHANGED mode

\* The command clear.
clear == Become(console_clear(Screen)) /\ UNCHANGED mode
------------------------------------------------------------------------------
(* Changes of the resolution and of the font. *)

\* The modes vesa_find_mode accepts, of which it takes the first.
Suitable(r) ==
    {m \in DOMAIN VideoModes : LET v == VideoModes[m] IN v.ok /\ v.x = r.x /\ v.y = r.y /\ v.bpp = r.bpp}

vesa_find_mode(r) == CHOOSE m \in Suitable(r) : \A n \in Suitable(r) : m <= n

\* vesa_set_res of a mode the BIOS has set: the new back buffer is empty.
vesa_set_res(d, m) ==
    LET v == VideoModes[m]
    IN  [d EXCEPT !.vesa = [width |-> v.x, height |-> v.y, bytes |-> v.bpp \div 8, pitch |-> v.pitch],
                  !.back = v.x * v.y * (v.bpp \div 8), !.fbcon.reach = 0]

Fitted(d) == [d EXCEPT !.fbcon.width = d.fbdev.width \div d.fbcon.font.w,
                       !.fbcon.height = d.fbdev.height \div d.fbcon.font.h]

\* Mutation: one side that did not change is enough.
SameSize_OneSide(c, k) == c.width = k.width \/ c.height = k.height

\* "nothing to do here, the dimensions didn't actually change"
SameSize(c, k) == c.width = k.width /\ c.height = k.height

fbcon_resize(d) ==
    IF SameSize(d.fbcon, Fitted(d).fbcon) THEN Fitted(d) ELSE console_clear(Fitted(d))

\* vesa_setparam behind vesa_set_res; device_inform_subdevices reaches fbcon_inform.
Informed(d) == fbcon_resize([d EXCEPT !.fbdev = [width |-> d.vesa.width, height |-> d.vesa.height]])

\* setres: without such a mode, or when the BIOS does not set it, nothing changes.
setres(r) ==
    \/ Suitable(r) # {} /\ mode' = vesa_find_mode(r) /\ Become(Informed(vesa_set_res(Screen, mode')))
    \/ UNCHANGED fbvars

\* setfnt of a file that is a font: FBCON_SETPARAM_FONT.
setfnt(f) ==
    /\ Become(console_clear(Fitted([Screen EXCEPT !.fbcon.font = f])))
    /\ UNCHANGED mode
------------------------------------------------------------------------------
\* vesa_probe sets the first mode and fbcon_create makes the console.
FbInit ==
    /\ mode = 1
    /\ LET none == [vesa |-> <<>>, back |-> 0, fbdev |-> [width |-> 0, height |-> 0],
                     fbcon |-> [width |-> 0, height |-> 0, x |-> 0, y |-> 0, font |-> Cherry,
                                tracked |-> Untracked, reach |-> 0]]
           set  == vesa_set_res(none, 1)
           made == console_clear(Fitted([set EXCEPT !.fbdev = [width |-> set.vesa.width,
                                                               height |-> set.vesa.height]]))
       IN  vesa = made.vesa /\ back = made.back /\ fbdev = made.fbdev /\ fbcon = made.fbcon

FbNext ==
    \/ \E c \in {"a", "\n", "\r", "erase"} : console_putc(c)
    \/ clear
    \/ \E r \in Requests : setres(r)
    \/ \E f \in Fonts : setfnt(f)

FbSpec == FbInit /\ [][FbNext]_fbvars
------------------------------------------------------------------------------
(***************************************************************************)
(* Properties.                                                             *)
(***************************************************************************)

\* After any mix of output, requests that succeed and that fail, and fonts, the BIOS, the
\* driver, its device and the console agree on the size of the screen, and the next
\* character goes to a place on it.
ScreenAgrees ==
    /\ vesa.width = VideoModes[mode].x /\ vesa.height = VideoModes[mode].y
    /\ fbdev = [width |-> vesa.width, height |-> vesa.height]
    /\ fbcon.width = fbdev.width \div fbcon.font.w /\ fbcon.height = fbdev.height \div fbcon.font.h
    /\ fbcon.x < fbcon.width /\ fbcon.y < fbcon.height

\* "No bounds checking is done as this would slow down execution, this means that care
\* should be taken when calling this function" (vesa_put_pixel): no pixel is written behind
\* the back buffer.
DrawsInBuffer == fbcon.reach <= back
==============================================================================
