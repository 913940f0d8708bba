---------------------------- MODULE DriverProofs ----------------------------
(***************************************************************************)
(* Proofs about the driver manager under the kernel's drivers, for every   *)
(* link order, any disks and partitions, and any fields of the driver a    *)
(* loaded module brings.  Most of the invariant is about the stack of      *)
(* activations: what can be under way above what, and so which devices can *)
(* come and go while a loop stands in the middle of a list.                *)
(***************************************************************************)
EXTENDS Drivers, NumberLemmas, SequenceTheorems, TLAPS

Listed == ToSet(devices)
Known == 1 .. Len(dev)
Loops(d) == ~Attr[d].hasProbe /\ Attr[d].dependsOn # None

\* Where x stands in a list, y stands behind it.
Before(s, x, y) == \E a, b \in 1 .. Len(s) : a < b /\ s[a] = x /\ s[b] = y

\* The names of the devices of each type.
Part == {"sp", "vga", "fbcon", "vesafb", "hd", "p"} \cup Nat
NamesOf(t) ==
    CASE t = "char"        -> {<<"sp", k>> : k \in 0 .. 3}
      [] t = "con"         -> {<<"vga", 0>>} \cup {<<"fbcon", k>> : k \in Nat}
      [] t = "framebuffer" -> {<<"vesafb", k>> : k \in Nat}
      [] t = "block"       -> {<<"hd", k>> : k \in Nat}
      [] t = "fs"          -> {<<"hd", k, "p", m>> : k \in Nat, m \in Nat}

\* What the kernel's own drivers make; a module's makes nothing.
Makes(d) ==
    CASE d = "serial" -> "char" [] d = "vga" -> "con" [] d = "vesa" -> "framebuffer"
      [] d = "bdrive" -> "block" [] d = "fat" -> "fs" [] d = "fbcon" -> "con"

Machines == [name : UNION {NamesOf(t) : t \in Types}, type : Types, unit : Nat, subdevices : Seq(Nat)]

DevicesTyped ==
    /\ dev \in Seq(Machines)
    /\ \A i \in Known :
          /\ dev[i].name \in NamesOf(dev[i].type)
          /\ dev[i].type # "framebuffer" => dev[i].subdevices = <<>>

ListsTyped ==
    /\ devices \in Seq(Nat) /\ Listed \subseteq Known
    /\ \A a, b \in 1 .. Len(devices) : devices[a] = devices[b] => a = b
    /\ drivers \in Seq(Drivers)
    /\ \A a, b \in 1 .. Len(drivers) : drivers[a] = drivers[b] => a = b
    /\ disabled \in [Drivers -> BOOLEAN] /\ firstProbe \in [Drivers -> BOOLEAN]

Activations ==
    [fn : {"first", "register", "probe", "probeFor", "deregister"},
     drv : Drivers \cup Types \cup {None}, dev : Nat, at : Nat, new : Nat]

\* fbcon has a new console, and the old one may still be there.
Takes(f) == f.fn = "probe" /\ f.drv = "fbcon" /\ f.new # NoDevice

\* An activation by itself; the loop of a first probe and that of fbcon stand on devices
\* that are in the list.
FirstTyped(f) ==
    /\ f.drv \in ToSet(drivers) /\ ~disabled[f.drv] /\ firstProbe[f.drv] /\ f.at \in {0, 1}
    /\ f.dev \in Listed \cup {NoDevice}
    /\ ~Loops(f.drv) => f.dev = NoDevice
ProbeTyped(f) ==
    /\ f.drv \in ToSet(drivers)
    /\ f.dev \in Known \cup {NoDevice}
    /\ f.drv = "fbcon" => f.at \in Listed \cup {NoDevice}
    /\ Takes(f) => /\ f.at # NoDevice /\ dev[f.at].type = "framebuffer"
                   /\ f.new \in Listed /\ dev[f.new].type = "con"
                   /\ dev[f.new].name # <<"vga", 0>>
FrameTyped(f) ==
    /\ f.fn = "first" => FirstTyped(f)
    /\ f.fn = "register" => f.dev \in Known /\ f.at <= Len(drivers)
    /\ f.fn = "probeFor" => f.at <= Len(drivers)
    /\ f.fn = "probe" => ProbeTyped(f)

\* What one activation may have called.
Follows(f, g) ==
    \/ /\ f.fn = "first" /\ g.fn = "probe" /\ g.drv = f.drv /\ g.dev = f.dev
       /\ IF Loops(f.drv) THEN f.dev # NoDevice /\ DependsOn(f.drv, f.dev) ELSE f.at = 1
    \/ f.fn = "probeFor" /\ g.fn = "probe" /\ g.dev = NoDevice
    \/ f.fn = "register" /\ g.fn = "probe" /\ g.dev = f.dev /\ DependsOn(g.drv, f.dev)
    \/ /\ f.fn = "probe" /\ g.fn = "register" /\ f.drv \in TreeDrivers
       /\ dev[g.dev].type = Makes(f.drv)
       /\ f.drv = "fbcon" => Takes(f)
    \/ /\ Takes(f) /\ g.fn = "deregister"
       /\ g.dev \in Known /\ dev[g.dev].name = <<"vga", 0>>
    \/ f.fn = "deregister" /\ g.fn = "deregister" /\ f.dev \in Known /\ dev[f.dev].type = "framebuffer"

StackTyped ==
    /\ stack \in Seq(Activations)
    /\ \A k \in 1 .. Len(stack) : FrameTyped(stack[k])
    /\ \A k \in 1 .. Len(stack) : stack[k].fn \in {"first", "probeFor"} => k = 1
    /\ Len(stack) > 0 => stack[1].fn \in {"first", "probeFor", "deregister"}
    /\ \A k \in 1 .. Len(stack) - 1 : Follows(stack[k], stack[k + 1])

\* Devices are deregistered by a module, or by fbcon the one that is called vga0.
Removals ==
    \/ \A k \in 1 .. Len(stack) : stack[k].fn = "deregister"
    \/ \A k \in 1 .. Len(stack) :
          stack[k].fn = "deregister" => k = Len(stack) /\ k > 1 /\ Takes(stack[k - 1])

\* first_probe is set exactly during the first probe, which nothing else calls.
FirstOnly ==
    \A d \in Drivers : firstProbe[d] => Len(stack) > 0 /\ stack[1].fn = "first" /\ stack[1].drv = d

\* Two drivers number their devices themselves: those registered have numbers below
\* the one that comes next.
Numbered(d, w, i) ==
    dev[i].name[1] = w =>
        /\ d \in ToSet(drivers)
        /\ firstProbe[d] /\ Len(stack) = 1 => stack[1].at = 1
        /\ firstProbe[d] /\ Len(stack) > 1 => dev[i].name[2] < stack[2].at
FixedName(d, w) == \A i \in Listed : Numbered(d, w, i)

StackInv == DevicesTyped /\ ListsTyped /\ StackTyped /\ Removals /\ FirstOnly
NamesInv == UniqueNames /\ FixedName("serial", "sp") /\ FixedName("vga", "vga")

\* What a probe will still count: a device is being registered and the loop over the
\* drivers has not come to d, or the first probe of d has not come to the device.
Behind(x, i) == Before(devices, x, i)
Registering(d, i) ==
    \E k \in 1 .. Len(stack) :
        /\ stack[k].fn = "register" /\ stack[k].dev = i
        /\ \E j \in 1 .. Len(drivers) : j > stack[k].at /\ drivers[j] = d
Exploring(d, i) ==
    /\ Len(stack) > 0 /\ stack[1].fn = "first" /\ stack[1].drv = d
    /\ stack[1].dev = NoDevice \/ Behind(stack[1].dev, i)
Pending(d, i) == Registering(d, i) \/ Exploring(d, i)

\* Each device that there is room for has been counted once, or will be.
CountsTyped ==
    /\ probed \in [Drivers -> [Ids -> Nat]]
    /\ \A d \in Drivers, i \in Ids : i \notin Known => probed[d][i] = 0
OneRegister ==
    \A k, l \in 1 .. Len(stack) :
        stack[k].fn = "register" /\ stack[l].fn = "register" /\ stack[k].dev = stack[l].dev => k = l
Counts ==
    Known \subseteq Ids =>
        \A d \in ToSet(drivers), i \in Listed :
            ~disabled[d] /\ DependsOn(d, i) => probed[d][i] = IF Pending(d, i) THEN 0 ELSE 1
CountsInv == CountsTyped /\ OneRegister /\ Counts
----------------------------------------------------------------------------
(* Lists and names. *)

(* What ToSet is of a sequence of numbers. *)
LEMMA ElementsOf ==
    ASSUME NEW S, NEW s \in Seq(S)
    PROVE  /\ Len(s) \in Nat /\ DOMAIN s = 1 .. Len(s)
           /\ ToSet(s) = {s[k] : k \in 1 .. Len(s)} /\ ToSet(s) \subseteq S
           /\ \A x \in ToSet(s) : \E k \in 1 .. Len(s) : s[k] = x
           /\ \A k \in 1 .. Len(s) : s[k] \in ToSet(s)
           /\ \A x \in S : /\ Append(s, x) \in Seq(S) /\ ToSet(Append(s, x)) = ToSet(s) \cup {x}
                           /\ Len(Append(s, x)) = Len(s) + 1 /\ Append(s, x)[Len(s) + 1] = x
                           /\ \A k \in 1 .. Len(s) : Append(s, x)[k] = s[k]
<1>1. Len(s) \in Nat /\ DOMAIN s = 1 .. Len(s) /\ ToSet(s) = {s[k] : k \in 1 .. Len(s)}
  BY DEF ToSet
<1>2. \A k \in 1 .. Len(s) : s[k] \in S
  OBVIOUS
<1>3. ASSUME NEW x \in S
      PROVE  /\ Append(s, x) \in Seq(S) /\ ToSet(Append(s, x)) = ToSet(s) \cup {x}
             /\ Len(Append(s, x)) = Len(s) + 1 /\ Append(s, x)[Len(s) + 1] = x
             /\ \A k \in 1 .. Len(s) : Append(s, x)[k] = s[k]
  <2>1. /\ Append(s, x) \in Seq(S) /\ Len(Append(s, x)) = Len(s) + 1
        /\ Append(s, x)[Len(s) + 1] = x /\ \A k \in 1 .. Len(s) : Append(s, x)[k] = s[k]
    BY <1>3
  <2>2. ToSet(Append(s, x)) = {Append(s, x)[k] : k \in 1 .. Len(s) + 1}
    BY <2>1 DEF ToSet
  <2>3. 1 .. Len(s) + 1 = 1 .. Len(s) \cup {Len(s) + 1}
    BY <1>1
  <2> QED BY <1>1, <2>1, <2>2, <2>3
<1> QED BY <1>1, <1>2, <1>3

(* RemoveFirst takes one element out of a sequence that has it once, and leaves the
   order of the others. *)
LEMMA Removed ==
    ASSUME NEW S, NEW s \in Seq(S), NEW x \in ToSet(s),
           \A a, b \in 1 .. Len(s) : s[a] = s[b] => a = b
    PROVE  /\ RemoveFirst(s, x) \in Seq(S)
           /\ ToSet(RemoveFirst(s, x)) = ToSet(s) \ {x}
           /\ \A a, b \in 1 .. Len(RemoveFirst(s, x)) :
                 RemoveFirst(s, x)[a] = RemoveFirst(s, x)[b] => a = b
           /\ \A y, z \in ToSet(s) \ {x} : Before(RemoveFirst(s, x), y, z) <=> Before(s, y, z)
<1>1. PICK m \in 1 .. Len(s) : s[m] = x
  BY ElementsOf
<1>2. SelectInSeq(s, LAMBDA v : v = x) = m
  <2> DEFINE I == {i \in 1 .. Len(s) : s[i] = x}
  <2>1. I = {m}
    BY <1>1
  <2>2. Min(I) = m
    BY <2>1, <1>1 DEF Min
  <2> HIDE DEF I
  <2>3. I # {}
    BY <2>1
  <2> QED BY <2>2, <2>3 DEF SelectInSeq, I
<1> DEFINE r == SubSeq(s, 1, m - 1) \o SubSeq(s, m + 1, Len(s))
<1>3. RemoveFirst(s, x) = r
  BY <1>1, <1>2 DEF RemoveFirst, RemoveAt
<1>4. /\ r \in Seq(S) /\ Len(s) \in Nat \ {0} /\ Len(r) = Len(s) - 1
      /\ \A k \in 1 .. Len(s) - 1 : r[k] = IF k < m THEN s[k] ELSE s[k + 1]
  <2> DEFINE u == SubSeq(s, 1, m - 1)
             v == SubSeq(s, m + 1, Len(s))
  <2>1. Len(s) \in Nat \ {0} /\ m \in Nat \ {0} /\ m <= Len(s)
    BY <1>1
  <2>2. u \in Seq(S) /\ Len(u) = m - 1 /\ \A k \in 1 .. m - 1 : u[k] = s[k]
    BY <2>1
  <2>3. v \in Seq(S) /\ Len(v) = Len(s) - m /\ \A k \in 1 .. Len(s) - m : v[k] = s[m + k]
    <3>1. \A k \in m + 1 .. Len(s) : s[k] \in S
      BY <2>1
    <3>2. m < Len(s) => v \in Seq(S) /\ Len(v) = Len(s) - m /\ \A k \in 1 .. Len(s) - m : v[k] = s[m + 1 + k - 1]
      BY <2>1, <3>1, SubSeqProperties
    <3>3. \A k \in 1 .. Len(s) - m : m + 1 + k - 1 = m + k
      BY <2>1
    <3>4. ~ (m < Len(s)) => v = <<>> /\ Len(s) - m = 0
      BY <2>1
    <3> QED BY <2>1, <3>2, <3>3, <3>4
  <2> HIDE DEF u, v
  <2>4. u \o v \in Seq(S) /\ Len(u \o v) = Len(s) - 1
    <3>0. u \in Seq(S) /\ v \in Seq(S)
      BY <2>2, <2>3
    <3>1. Len(u \o v) = Len(u) + Len(v) /\ u \o v \in Seq(S)
      BY <3>0, ConcatProperties
    <3> QED BY <2>1, <2>2, <2>3, <3>1
  <2>5. \A k \in 1 .. Len(s) - 1 : (u \o v)[k] = IF k < m THEN s[k] ELSE s[k + 1]
    <3> TAKE k \in 1 .. Len(s) - 1
    <3>1. CASE k < m
      BY <2>1, <2>2, <2>3, <3>1
    <3>2. CASE ~ (k < m)
      <4>1. (u \o v)[k] = v[k - (m - 1)] /\ k - (m - 1) \in 1 .. Len(s) - m /\ m + (k - (m - 1)) = k + 1
        BY <2>1, <2>2, <2>3, <3>2
      <4> QED BY <2>3, <3>2, <4>1
    <3> QED BY <3>1, <3>2
  <2> QED BY <2>1, <2>4, <2>5 DEF u, v
<1> HIDE DEF r
<1>5. ToSet(r) = {r[k] : k \in 1 .. Len(r)} /\ ToSet(s) = {s[k] : k \in 1 .. Len(s)}
  BY <1>4, ElementsOf
<1>6. \A k \in 1 .. Len(s) - 1 : (IF k < m THEN k ELSE k + 1) \in 1 .. Len(s) \ {m}
  BY <1>1, <1>4
<1>7. \A j \in 1 .. Len(s) \ {m} : /\ (IF j < m THEN j ELSE j - 1) \in 1 .. Len(s) - 1
                                   /\ r[IF j < m THEN j ELSE j - 1] = s[j]
  BY <1>1, <1>4
<1>8. ToSet(r) = ToSet(s) \ {x}
  <2>1. ASSUME NEW k \in 1 .. Len(r) PROVE r[k] \in ToSet(s) \ {x}
    BY <1>1, <1>4, <1>5, <1>6, <2>1
  <2>2. ASSUME NEW j \in 1 .. Len(s), s[j] # x PROVE s[j] \in ToSet(r)
    BY <1>1, <1>4, <1>5, <1>7, <2>2
  <2>3. \A y \in ToSet(r) : y \in ToSet(s) \ {x}
    BY <1>5, <2>1
  <2>4. \A y \in ToSet(s) : y # x => y \in ToSet(r)
    BY <1>5, <2>2
  <2> QED BY <2>3, <2>4
<1>9. ASSUME NEW a \in 1 .. Len(r), NEW b \in 1 .. Len(r), r[a] = r[b]
      PROVE  a = b
  <2> DEFINE J(k) == IF k < m THEN k ELSE k + 1
  <2>1. r[a] = s[J(a)] /\ r[b] = s[J(b)] /\ J(a) \in 1 .. Len(s) /\ J(b) \in 1 .. Len(s)
    BY <1>4, <1>6
  <2>2. J(a) = J(b)
    BY <1>1, <1>9, <2>1
  <2>3. m \in Nat
    BY <1>1
  <2> QED BY <1>4, <2>2, <2>3
<1>10. ASSUME NEW y \in ToSet(s) \ {x}, NEW z \in ToSet(s) \ {x}
       PROVE  Before(r, y, z) <=> Before(s, y, z)
  <2>1. ASSUME NEW a \in 1 .. Len(r), NEW b \in 1 .. Len(r), a < b, r[a] = y, r[b] = z
        PROVE  \E c, e \in 1 .. Len(s) : c < e /\ s[c] = y /\ s[e] = z
    <3> DEFINE c == IF a < m THEN a ELSE a + 1
               e == IF b < m THEN b ELSE b + 1
    <3>1. c \in 1 .. Len(s) /\ e \in 1 .. Len(s) /\ c < e /\ s[c] = y /\ s[e] = z
      BY <1>1, <1>4, <2>1
    <3> QED BY <3>1
  <2>2. ASSUME NEW a \in 1 .. Len(s), NEW b \in 1 .. Len(s), a < b, s[a] = y, s[b] = z
        PROVE  \E c, e \in 1 .. Len(r) : c < e /\ r[c] = y /\ r[e] = z
    <3> DEFINE c == IF a < m THEN a ELSE a - 1
               e == IF b < m THEN b ELSE b - 1
    <3>1. a # m /\ b # m
      BY <1>1, <1>10, <2>2
    <3>2. c \in 1 .. Len(s) - 1 /\ e \in 1 .. Len(s) - 1 /\ c < e
      BY <1>1, <1>4, <2>2, <3>1
    <3>3. r[c] = y /\ r[e] = z
      BY <1>7, <2>2, <3>1
    <3> HIDE DEF c, e
    <3> QED BY <1>4, <3>2, <3>3
  <2> QED BY <2>1, <2>2 DEF Before
<1> QED BY <1>3, <1>4, <1>8, <1>9, <1>10

(* The suffix of a name that a number was appended to is that number. *)
LEMMA SuffixOf ==
    ASSUME NEW S, NEW prefix \in Seq(S), NEW n \in S
    PROVE  /\ IsPrefix(prefix, Append(prefix, n))
           /\ Atoi(SubSeq(Append(prefix, n), Len(prefix) + 1, Len(Append(prefix, n)))) = n
<1> DEFINE s == Append(prefix, n)
<1>1. s \in Seq(S) /\ Len(s) = Len(prefix) + 1 /\ Len(prefix) \in Nat /\ s[Len(prefix) + 1] = n
  OBVIOUS
<1>2. SubSeq(s, 1, Len(prefix)) = SubSeq(prefix, 1, Len(prefix))
  <2>1. \A k \in 1 .. Len(prefix) : s[k] = prefix[k]
    OBVIOUS
  <2> HIDE DEF s
  <2>2. /\ SubSeq(s, 1, Len(prefix)) \in Seq(S) /\ SubSeq(prefix, 1, Len(prefix)) \in Seq(S)
        /\ Len(SubSeq(s, 1, Len(prefix))) = Len(prefix) /\ Len(SubSeq(prefix, 1, Len(prefix))) = Len(prefix)
        /\ \A k \in 1 .. Len(prefix) : SubSeq(s, 1, Len(prefix))[k] = s[k]
        /\ \A k \in 1 .. Len(prefix) : SubSeq(prefix, 1, Len(prefix))[k] = prefix[k]
    <3>1. \A w \in Seq(S) : Len(prefix) <= Len(w) =>
              /\ SubSeq(w, 1, Len(prefix)) \in Seq(S) /\ Len(SubSeq(w, 1, Len(prefix))) = Len(prefix)
              /\ \A k \in 1 .. Len(prefix) : SubSeq(w, 1, Len(prefix))[k] = w[k]
      <4> TAKE w \in Seq(S)
      <4> HAVE Len(prefix) <= Len(w)
      <4> DEFINE l == Len(prefix)
      <4>1. l \in Nat /\ \A k \in 1 .. l : w[k] \in S
        BY <1>1
      <4> HIDE DEF l
      <4>2. /\ SubSeq(w, 1, l) \in Seq(S) /\ Len(SubSeq(w, 1, l)) = IF 1 <= l THEN l - 1 + 1 ELSE 0
            /\ \A k \in 1 .. l - 1 + 1 : SubSeq(w, 1, l)[k] = w[1 + k - 1]
        BY <4>1, SubSeqProperties
      <4>3. \A k \in 1 .. l : k \in 1 .. l - 1 + 1 /\ 1 + k - 1 = k
        BY <4>1
      <4>4. Len(SubSeq(w, 1, l)) = l
        BY <4>1, <4>2
      <4> QED BY <4>2, <4>3, <4>4 DEF l
    <3>2. Len(prefix) <= Len(prefix) /\ Len(prefix) <= Len(s)
      BY <1>1
    <3> QED BY <1>1, <3>1, <3>2
  <2> QED BY <1>1, <2>1, <2>2, SeqEqual
<1>3. /\ Len(SubSeq(s, Len(prefix) + 1, Len(s))) = 1
      /\ SubSeq(s, Len(prefix) + 1, Len(s))[1] = n
  <2> HIDE DEF s
  <2> QED BY <1>1
<1> HIDE DEF s
<1> QED BY <1>1, <1>2, <1>3 DEF IsPrefix, Atoi, s

(* The suffix that is chosen makes a name that no listed device has. *)
LEMMA FreshSuffix ==
    ASSUME NEW prefix \in Seq(Part), ~SuffixFails(prefix)
    PROVE  /\ FirstAvailableSuffix(prefix) \in Nat
           /\ \A i \in Listed : dev[i].name # Append(prefix, FirstAvailableSuffix(prefix))
<1> DEFINE C == {n \in 0 .. 512 : n \notin MatchingSuffixes(prefix)}
           f == FirstAvailableSuffix(prefix)
<1>1. 512 \in C
  BY DEF SuffixFails
<1>2. PICK m \in C : \A n \in C : m <= n
  <2>1. C \subseteq 0 .. 512 /\ 0 .. 512 \subseteq Nat
    OBVIOUS
  <2> HIDE DEF C
  <2>2. C \in SUBSET Nat /\ C # {}
    BY <1>1, <2>1
  <2> QED BY <2>2, LeastNumber
<1>3. m \in 0 .. 512 /\ m \notin MatchingSuffixes(prefix)
      /\ \A k \in 0 .. m - 1 : k \in MatchingSuffixes(prefix)
  BY <1>2
<1>4. f \in 0 .. 512 /\ f \notin MatchingSuffixes(prefix)
  <2> HIDE DEF C
  <2> QED BY <1>3 DEF FirstAvailableSuffix
<1>5. ASSUME NEW i \in Listed, dev[i].name = Append(prefix, f) PROVE FALSE
  <2> HIDE DEF f
  <2>1. f \in Nat
    BY <1>4
  <2>3. f \in Part
    BY <2>1 DEF Part
  <2>2. /\ IsPrefix(prefix, dev[i].name)
        /\ Atoi(SubSeq(dev[i].name, Len(prefix) + 1, Len(dev[i].name))) = f
    BY <1>5, <2>3, SuffixOf
  <2> QED BY <1>4, <2>2 DEF MatchingSuffixes, Listed
<1>6. f \in Nat
  <2> HIDE DEF f
  <2> QED BY <1>4
<1> QED BY <1>5, <1>6
----------------------------------------------------------------------------
(* The stack. *)

(* The drivers of the kernel, and which of them can be probed with a new device. *)
LEMMA TreeFacts ==
    /\ TreeDrivers \subseteq Drivers
    /\ \A d \in {"serial", "vga", "vesa", "bdrive"} :
          d \in TreeDrivers /\ Attr[d].hasProbe /\ ~Loops(d) /\ Attr[d].dependsOn = None
    /\ "fbcon" \in TreeDrivers /\ Attr["fbcon"].dependsOn = "framebuffer" /\ Loops("fbcon")
    /\ "fat" \in TreeDrivers /\ Attr["fat"].dependsOn = "block" /\ Loops("fat")
    /\ Attr["vesa"].disabled
    /\ \A d \in Drivers : Attr[d].dependsOn # None => Loops(d)
    /\ None \notin Types
<1>1. TreeDrivers \subseteq Drivers /\ \A d \in TreeDrivers : Attr[d] = TreeAttr[d]
  BY TreeAssumption
<1>2. /\ TreeAttr["serial"] = SerialDriver /\ TreeAttr["vga"] = VgaDriver
      /\ TreeAttr["vesa"] = VesaDriver /\ TreeAttr["fbcon"] = FbconDriver
      /\ TreeAttr["bdrive"] = BdriveDriver /\ TreeAttr["fat"] = FatDriver
  BY DEF TreeAttr, TreeDrivers
<1>3. /\ Attr["serial"] = SerialDriver /\ Attr["vga"] = VgaDriver /\ Attr["vesa"] = VesaDriver
      /\ Attr["fbcon"] = FbconDriver /\ Attr["bdrive"] = BdriveDriver /\ Attr["fat"] = FatDriver
  BY <1>1, <1>2 DEF TreeDrivers
<1>4. \A d \in Drivers : Attr[d].dependsOn # None => ~Attr[d].hasProbe
  BY AttrAssumption
<1>5. None \notin Types
  BY DEF None, Types
<1> QED BY <1>1, <1>3, <1>4, <1>5 DEF Loops, TreeDrivers, Fields, SerialDriver, VgaDriver, VesaDriver,
           FbconDriver, BdriveDriver, FatDriver, None

(* What the operations on the stack leave. *)
LEMMA StackOps ==
    ASSUME NEW s \in Seq(Activations), s # <<>>, NEW f \in Activations
    PROVE  /\ Len(s) \in Nat \ {0} /\ Last(s) = s[Len(s)] /\ Last(s) \in Activations
           /\ \A k \in 1 .. Len(s) : s[k] \in Activations
           /\ Front(s) \in Seq(Activations) /\ Len(Front(s)) = Len(s) - 1
           /\ \A k \in 1 .. Len(s) - 1 : Front(s)[k] = s[k]
           /\ Front(s) \o <<f>> \in Seq(Activations) /\ Len(Front(s) \o <<f>>) = Len(s)
           /\ \A k \in 1 .. Len(s) - 1 : (Front(s) \o <<f>>)[k] = s[k]
           /\ (Front(s) \o <<f>>)[Len(s)] = f
<1>1. PICK A : A = Activations
  OBVIOUS
<1>2. s \in Seq(A) /\ f \in A
  BY <1>1
<1>3. Len(s) \in Nat \ {0} /\ Last(s) = s[Len(s)] /\ \A k \in 1 .. Len(s) : s[k] \in A
  BY <1>2 DEF Last
<1>4. PICK r : r = Front(s)
  OBVIOUS
<1>5. r \in Seq(A) /\ Len(r) = Len(s) - 1 /\ \A k \in 1 .. Len(s) - 1 : r[k] = s[k]
  <2>1. Len(s) - 1 \in Nat /\ 1 \in Int /\ \A k \in 1 .. Len(s) - 1 : s[k] \in A /\ 1 + k - 1 = k
    BY <1>3
  <2>2. /\ r \in Seq(A) /\ Len(r) = IF 1 <= Len(s) - 1 THEN Len(s) - 1 - 1 + 1 ELSE 0
        /\ \A k \in 1 .. Len(s) - 1 - 1 + 1 : r[k] = s[1 + k - 1]
    BY <1>4, <2>1, SubSeqProperties DEF Front
  <2>4. \A n \in Nat : n - 1 + 1 = n /\ (1 <= n \/ n = 0)
    OBVIOUS
  <2>5. Len(s) - 1 - 1 + 1 = Len(s) - 1 /\ (1 <= Len(s) - 1 \/ Len(s) - 1 = 0)
    BY <2>1, <2>4
  <2>3. Len(r) = Len(s) - 1 /\ Len(s) - 1 - 1 + 1 = Len(s) - 1
    BY <2>2, <2>5
  <2> QED BY <2>1, <2>2, <2>3
<1>6. /\ r \o <<f>> \in Seq(A) /\ Len(r \o <<f>>) = Len(s)
      /\ \A k \in 1 .. Len(s) - 1 : (r \o <<f>>)[k] = s[k]
      /\ (r \o <<f>>)[Len(s)] = f
  <2>1. <<f>> \in Seq(A) /\ Len(<<f>>) = 1 /\ <<f>>[1] = f
    BY <1>2
  <2> QED BY <1>2, <1>3, <1>5, <2>1
<1> QED BY <1>1, <1>3, <1>4, <1>5, <1>6

\* Devices keep names and types, and come only to the end of the list.
SameWorld ==
    /\ drivers' = drivers /\ disabled' = disabled
    /\ Len(dev) \in Nat /\ Len(dev') \in Nat /\ Len(dev) <= Len(dev')
    /\ \A i \in Known : dev'[i].name = dev[i].name /\ dev'[i].type = dev[i].type

(* An activation by itself is what it was, as long as no device leaves. *)
LEMMA FrameStays ==
    ASSUME SameWorld, Listed \subseteq Known, Listed \subseteq Listed',
           NEW f \in Activations, FrameTyped(f), f.fn = "first" => firstProbe'[f.drv]
    PROVE  FrameTyped(f)'
<1>1. Known \subseteq Known'
  BY DEF SameWorld, Known
<1>2. \A i \in Known : dev'[i].name = dev[i].name /\ dev'[i].type = dev[i].type
  BY DEF SameWorld
<1>3. drivers' = drivers /\ disabled' = disabled
  BY DEF SameWorld
<1>4. FirstTyped(f) /\ f.fn = "first" => FirstTyped(f)'
  BY <1>3 DEF FirstTyped
<1>5. ProbeTyped(f) => ProbeTyped(f)'
  <2> SUFFICES ASSUME ProbeTyped(f) PROVE ProbeTyped(f)'
    OBVIOUS
  <2>1. f.drv \in ToSet(drivers)' /\ f.dev \in Known' \cup {NoDevice}
    BY <1>1, <1>3 DEF ProbeTyped
  <2>2. f.drv = "fbcon" => f.at \in Listed' \cup {NoDevice}
    BY DEF ProbeTyped
  <2>3. ASSUME Takes(f)
        PROVE  /\ f.at # NoDevice /\ dev'[f.at].type = "framebuffer"
               /\ f.new \in Listed' /\ dev'[f.new].type = "con"
               /\ dev'[f.new].name # <<"vga", 0>>
    <3>1. f.drv = "fbcon" /\ f.at # NoDevice /\ f.at \in Listed /\ f.new \in Listed
      BY <2>3 DEF ProbeTyped, Takes
    <3>2. f.at \in Known /\ f.new \in Known
      BY <3>1
    <3> QED BY <1>2, <2>3, <3>1, <3>2 DEF ProbeTyped
  <2> QED BY <2>1, <2>2, <2>3 DEF ProbeTyped, Takes
<1> QED BY <1>1, <1>3, <1>4, <1>5 DEF FrameTyped

(* So is what one has called. *)
LEMMA FollowsStays ==
    ASSUME SameWorld, Listed \subseteq Known, NEW f \in Activations, NEW g \in Activations,
           FrameTyped(f), FrameTyped(g), Follows(f, g)
    PROVE  Follows(f, g)'
<1>1. Known \subseteq Known' /\ \A i \in Known : dev'[i].name = dev[i].name /\ dev'[i].type = dev[i].type
  BY DEF SameWorld, Known
<1>2. f.fn = "first" => f.dev \in Known \cup {NoDevice}
  BY DEF FrameTyped, FirstTyped
<1>3. g.fn = "register" => g.dev \in Known
  BY DEF FrameTyped
<1>4. f.fn = "register" => f.dev \in Known
  BY DEF FrameTyped
<1> QED BY <1>1, <1>2, <1>3, <1>4 DEF Follows, DependsOn, Takes

(* An activation returns. *)
LEMMA Popped ==
    ASSUME StackInv, SameWorld, Listed \subseteq Listed', stack # <<>>, Return,
           firstProbe' = firstProbe, Top.fn # "first"
    PROVE  StackTyped' /\ Removals' /\ FirstOnly'
<1>1. /\ stack \in Seq(Activations) /\ Listed \subseteq Known
      /\ Top = stack[Len(stack)]
  BY DEF StackInv, StackTyped, ListsTyped, Top, Last
<1>2. /\ Len(stack) \in Nat \ {0} /\ stack' \in Seq(Activations) /\ Len(stack') = Len(stack) - 1
      /\ \A k \in 1 .. Len(stack) - 1 : stack'[k] = stack[k]
      /\ \A k \in 1 .. Len(stack) : stack[k] \in Activations
  <2>1. stack[Len(stack)] \in Activations
    BY <1>1
  <2> QED BY <1>1, <2>1, StackOps DEF Return
<1>3. ASSUME NEW k \in 1 .. Len(stack')
      PROVE  FrameTyped(stack[k])'
  <2>1. PICK f \in Activations : f = stack[k]
    BY <1>2, <1>3
  <2>2. k \in 1 .. Len(stack) /\ k \in 1 .. Len(stack) - 1
    BY <1>2, <1>3
  <2>3. FrameTyped(f) /\ (f.fn = "first" => firstProbe[f.drv])
    BY <2>1, <2>2 DEF StackInv, StackTyped, FrameTyped, FirstTyped
  <2>4. FrameTyped(f)'
    BY <1>1, <2>3, FrameStays
  <2> QED BY <1>2, <2>1, <2>2, <2>4 DEF FrameTyped, FirstTyped, ProbeTyped, Takes
<1>4. ASSUME NEW k \in 1 .. Len(stack') - 1
      PROVE  Follows(stack[k], stack[k + 1])'
  <2>1. k \in 1 .. Len(stack) - 1 /\ k + 1 \in 1 .. Len(stack) - 1 /\ k \in 1 .. Len(stack) /\ k + 1 \in 1 .. Len(stack)
    BY <1>2, <1>4
  <2>2. PICK f \in Activations : f = stack[k]
    BY <1>2, <2>1
  <2>3. PICK g \in Activations : g = stack[k + 1]
    BY <1>2, <2>1
  <2>4. FrameTyped(f) /\ FrameTyped(g) /\ Follows(f, g)
    BY <2>1, <2>2, <2>3 DEF StackInv, StackTyped
  <2>5. Follows(f, g)'
    BY <1>1, <2>4, FollowsStays
  <2> QED BY <1>2, <2>1, <2>2, <2>3, <2>5 DEF Follows, DependsOn, Takes
<1>5. StackTyped'
  <2>1. \A k \in 1 .. Len(stack') : k \in 1 .. Len(stack) /\ stack'[k] = stack[k]
    BY <1>2
  <2>2. Len(stack') > 0 => 1 \in 1 .. Len(stack')
    BY <1>2
  <2>3. \A k \in 1 .. Len(stack') : stack'[k].fn \in {"first", "probeFor"} => k = 1
    BY <2>1 DEF StackInv, StackTyped
  <2>4. Len(stack') > 0 => stack'[1].fn \in {"first", "probeFor", "deregister"}
    BY <1>2, <2>1, <2>2 DEF StackInv, StackTyped
  <2> QED BY <1>2, <1>3, <1>4, <2>3, <2>4 DEF StackTyped
<1>6. Removals'
  <2>1. CASE \A k \in 1 .. Len(stack) : stack[k].fn = "deregister"
    BY <1>2, <2>1 DEF Removals
  <2>2. CASE \A k \in 1 .. Len(stack) :
               stack[k].fn = "deregister" => k = Len(stack) /\ k > 1 /\ Takes(stack[k - 1])
    <3>1. \A k \in 1 .. Len(stack') : k \in 1 .. Len(stack) /\ k # Len(stack) /\ stack'[k] = stack[k]
      BY <1>2
    <3>2. \A k \in 1 .. Len(stack') : stack'[k].fn # "deregister"
      BY <2>2, <3>1
    <3> QED BY <3>2 DEF Removals
  <2> QED BY <2>1, <2>2 DEF StackInv, Removals
<1>7. FirstOnly'
  <2> SUFFICES ASSUME NEW d \in Drivers, firstProbe[d]
               PROVE  Len(stack') > 0 /\ stack'[1].fn = "first" /\ stack'[1].drv = d
    BY DEF FirstOnly
  <2>1. stack[1].fn = "first" /\ stack[1].drv = d
    BY DEF StackInv, FirstOnly
  <2>2. Len(stack) # 1
    BY <1>1, <2>1
  <2> QED BY <1>2, <2>1, <2>2
<1> QED BY <1>5, <1>6, <1>7

(* An activation goes on. *)
LEMMA WentOn ==
    ASSUME StackInv, SameWorld, Listed \subseteq Listed', stack # <<>>,
           NEW fr \in Activations, Continue(fr), FrameTyped(fr)', fr.fn = Top.fn, fr.drv = Top.drv,
           Len(stack) > 1 => fr.dev = Top.dev,
           firstProbe' = firstProbe
    PROVE  StackTyped' /\ Removals' /\ FirstOnly'
<1>1. /\ stack \in Seq(Activations) /\ Listed \subseteq Known
      /\ Top = stack[Len(stack)]
  BY DEF StackInv, StackTyped, ListsTyped, Top, Last
<1>2. /\ Len(stack) \in Nat \ {0} /\ stack' \in Seq(Activations) /\ Len(stack') = Len(stack)
      /\ \A k \in 1 .. Len(stack) - 1 : stack'[k] = stack[k]
      /\ stack'[Len(stack)] = fr
      /\ \A k \in 1 .. Len(stack) : stack[k] \in Activations
  BY <1>1, StackOps DEF Continue
<1>3. ASSUME NEW k \in 1 .. Len(stack')
      PROVE  FrameTyped(stack[k])'
  <2>0. CASE k = Len(stack)
    BY <1>2, <2>0 DEF FrameTyped, FirstTyped, ProbeTyped, Takes
  <2>5. CASE k # Len(stack)
    <3>1. PICK f \in Activations : f = stack[k]
      BY <1>2, <1>3
    <3>2. k \in 1 .. Len(stack) /\ k \in 1 .. Len(stack) - 1
      BY <1>2, <1>3, <2>5
    <3>3. FrameTyped(f) /\ (f.fn = "first" => firstProbe[f.drv])
      BY <3>1, <3>2 DEF StackInv, StackTyped, FrameTyped, FirstTyped
    <3>4. FrameTyped(f)'
      BY <1>1, <3>3, FrameStays
    <3> QED BY <1>2, <3>1, <3>2, <3>4 DEF FrameTyped, FirstTyped, ProbeTyped, Takes
  <2> QED BY <2>0, <2>5
<1>4. ASSUME NEW k \in 1 .. Len(stack') - 1
      PROVE  Follows(stack[k], stack[k + 1])'
  <2>1. k \in 1 .. Len(stack) - 1 /\ k \in 1 .. Len(stack) /\ k + 1 \in 1 .. Len(stack)
    BY <1>2, <1>4
  <2>2. PICK f \in Activations : f = stack[k]
    BY <1>2, <2>1
  <2>3. PICK g \in Activations : g = stack[k + 1]
    BY <1>2, <2>1
  <2>4. FrameTyped(f) /\ FrameTyped(g) /\ Follows(f, g)
    BY <2>1, <2>2, <2>3 DEF StackInv, StackTyped
  <2>5. Follows(f, g)'
    BY <1>1, <2>4, FollowsStays
  <2>6. CASE k + 1 # Len(stack)
    <3>1. k + 1 \in 1 .. Len(stack) - 1
      BY <1>2, <2>1, <2>6
    <3> QED BY <1>2, <2>1, <2>2, <2>3, <2>5, <3>1 DEF Follows, DependsOn, Takes
  <2>7. CASE k + 1 = Len(stack)
    <3>1. g = Top /\ Len(stack) > 1
      BY <1>1, <1>2, <2>1, <2>3, <2>7
    <3>2. stack'[k] = f /\ stack'[k + 1] = fr
      BY <1>2, <2>1, <2>2, <2>7
    <3>3. fr.fn = g.fn /\ fr.drv = g.drv /\ fr.dev = g.dev
      BY <3>1
    <3>4. Follows(f, fr)'
      BY <2>5, <3>3 DEF Follows
    <3> QED BY <3>2, <3>4 DEF Follows, DependsOn, Takes
  <2> QED BY <2>6, <2>7
<1>5. \A k \in 1 .. Len(stack) : stack'[k].fn = stack[k].fn /\ stack'[k].drv = stack[k].drv
  BY <1>1, <1>2
<1>6. StackTyped'
  <2>1. 1 \in 1 .. Len(stack)
    BY <1>2
  <2>3. \A k \in 1 .. Len(stack') : stack'[k].fn \in {"first", "probeFor"} => k = 1
    BY <1>2, <1>5 DEF StackInv, StackTyped
  <2>4. Len(stack') > 0 => stack'[1].fn \in {"first", "probeFor", "deregister"}
    BY <1>2, <1>5, <2>1 DEF StackInv, StackTyped
  <2> QED BY <1>2, <1>3, <1>4, <2>3, <2>4 DEF StackTyped
<1>7. Removals'
  <2>1. CASE \A k \in 1 .. Len(stack) : stack[k].fn = "deregister"
    BY <1>2, <1>5, <2>1 DEF Removals
  <2>2. CASE \A k \in 1 .. Len(stack) :
               stack[k].fn = "deregister" => k = Len(stack) /\ k > 1 /\ Takes(stack[k - 1])
    <3>1. \A k \in 1 .. Len(stack') : k > 1 => k - 1 \in 1 .. Len(stack) - 1 /\ stack'[k - 1] = stack[k - 1]
      BY <1>2
    <3>2. \A k \in 1 .. Len(stack') : stack'[k].fn = "deregister" => k = Len(stack') /\ k > 1 /\ Takes(stack'[k - 1])
      BY <1>2, <1>5, <2>2, <3>1
    <3> QED BY <3>2 DEF Removals, Takes
  <2> QED BY <2>1, <2>2 DEF StackInv, Removals
<1>8. FirstOnly'
  <2>1. 1 \in 1 .. Len(stack)
    BY <1>2
  <2> QED BY <1>2, <1>5, <2>1 DEF StackInv, FirstOnly
<1> QED BY <1>6, <1>7, <1>8

(* What a call leaves on the stack. *)
LEMMA CallLeaves ==
    ASSUME stack \in Seq(Activations), stack # <<>>, NEW fr \in Activations, NEW g \in Activations,
           Call(fr, g)
    PROVE  /\ Len(stack) \in Nat \ {0} /\ stack' \in Seq(Activations) /\ Len(stack') = Len(stack) + 1
           /\ \A k \in 1 .. Len(stack) - 1 : stack'[k] = stack[k]
           /\ stack'[Len(stack)] = fr /\ stack'[Len(stack) + 1] = g
           /\ \A k \in 1 .. Len(stack) : stack[k] \in Activations
<1>1. stack' = Front(stack) \o <<fr, g>>
  BY DEF Call
<1>2. /\ Len(stack) \in Nat \ {0} /\ \A k \in 1 .. Len(stack) : stack[k] \in Activations
      /\ Front(stack) \in Seq(Activations) /\ Len(Front(stack)) = Len(stack) - 1
      /\ \A k \in 1 .. Len(stack) - 1 : Front(stack)[k] = stack[k]
  BY StackOps
<1>3. PICK r : r = Front(stack)
  OBVIOUS
<1>4. <<fr, g>> \in Seq(Activations) /\ Len(<<fr, g>>) = 2 /\ <<fr, g>>[1] = fr /\ <<fr, g>>[2] = g
  OBVIOUS
<1>5. /\ r \o <<fr, g>> \in Seq(Activations) /\ Len(r \o <<fr, g>>) = Len(stack) + 1
      /\ \A k \in 1 .. Len(stack) - 1 : (r \o <<fr, g>>)[k] = stack[k]
      /\ (r \o <<fr, g>>)[Len(stack)] = fr /\ (r \o <<fr, g>>)[Len(stack) + 1] = g
  <2>1. PICK q : q = <<fr, g>>
    OBVIOUS
  <2>2. q \in Seq(Activations) /\ Len(q) = 2 /\ q[1] = fr /\ q[2] = g
    BY <1>4, <2>1
  <2>3. /\ r \in Seq(Activations) /\ Len(r) \in Nat /\ Len(stack) = Len(r) + 1
        /\ \A k \in 1 .. Len(r) : r[k] = stack[k]
    BY <1>2, <1>3
  <2>4. /\ r \o q \in Seq(Activations) /\ Len(r \o q) = Len(r) + 2
        /\ \A k \in 1 .. Len(r) + 2 : (r \o q)[k] = IF k <= Len(r) THEN r[k] ELSE q[k - Len(r)]
    <3>1. q \in Seq(Activations) /\ r \in Seq(Activations)
      BY <2>2, <2>3
    <3>2. /\ r \o q \in Seq(Activations) /\ Len(r \o q) = Len(r) + Len(q)
          /\ \A k \in 1 .. Len(r) + Len(q) : (r \o q)[k] = IF k <= Len(r) THEN r[k] ELSE q[k - Len(r)]
      BY <3>1, ConcatProperties
    <3>3. Len(q) = 2
      BY <2>2
    <3> QED BY <3>2, <3>3
  <2>5. PICK t : t = r \o q
    OBVIOUS
  <2>6. PICK n \in Nat : n = Len(r)
    BY <2>3
  <2>7. t[n + 1] = q[n + 1 - n] /\ t[n + 2] = q[n + 2 - n] /\ n + 1 - n = 1 /\ n + 2 - n = 2
    BY <2>4, <2>5, <2>6
  <2>8. Len(t) = Len(stack) + 1 /\ Len(stack) - 1 = n /\ Len(stack) = n + 1
    BY <2>3, <2>4, <2>5, <2>6
  <2>9. \A k \in 1 .. n : t[k] = stack[k]
    BY <2>3, <2>4, <2>5, <2>6
  <2>10. t \in Seq(Activations)
    BY <2>4, <2>5
  <2> QED BY <2>1, <2>2, <2>5, <2>7, <2>8, <2>9, <2>10
<1> QED BY <1>1, <1>2, <1>3, <1>5

(* An activation goes on and calls another. *)
LEMMA Called ==
    ASSUME StackInv, SameWorld, Listed \subseteq Listed', stack # <<>>,
           NEW fr \in Activations, NEW g \in Activations, Call(fr, g),
           FrameTyped(fr)', fr.fn = Top.fn, fr.drv = Top.drv,
           Len(stack) > 1 => fr.dev = Top.dev,
           FrameTyped(g)', Follows(fr, g)', g.fn \in {"register", "probe", "deregister"},
           firstProbe' = firstProbe
    PROVE  StackTyped' /\ Removals' /\ FirstOnly'
<1>1. /\ stack \in Seq(Activations) /\ Listed \subseteq Known
      /\ Top = stack[Len(stack)]
  BY DEF StackInv, StackTyped, ListsTyped, Top, Last
<1>2. /\ Len(stack) \in Nat \ {0} /\ stack' \in Seq(Activations) /\ Len(stack') = Len(stack) + 1
      /\ \A k \in 1 .. Len(stack) - 1 : stack'[k] = stack[k]
      /\ stack'[Len(stack)] = fr /\ stack'[Len(stack) + 1] = g
      /\ \A k \in 1 .. Len(stack) : stack[k] \in Activations
  BY <1>1, CallLeaves
<1>3. ASSUME NEW k \in 1 .. Len(stack')
      PROVE  FrameTyped(stack[k])'
  <2>1. CASE k = Len(stack)
    BY <1>2, <2>1 DEF FrameTyped, FirstTyped, ProbeTyped, Takes
  <2>2. CASE k = Len(stack) + 1
    BY <1>2, <2>2 DEF FrameTyped, FirstTyped, ProbeTyped, Takes
  <2>3. CASE k # Len(stack) /\ k # Len(stack) + 1
    <3>1. PICK f \in Activations : f = stack[k]
      BY <1>2, <1>3, <2>3
    <3>2. k \in 1 .. Len(stack) /\ k \in 1 .. Len(stack) - 1
      BY <1>2, <1>3, <2>3
    <3>3. FrameTyped(f) /\ (f.fn = "first" => firstProbe[f.drv])
      BY <3>1, <3>2 DEF StackInv, StackTyped, FrameTyped, FirstTyped
    <3>4. FrameTyped(f)'
      BY <1>1, <3>3, FrameStays
    <3> QED BY <1>2, <3>1, <3>2, <3>4 DEF FrameTyped, FirstTyped, ProbeTyped, Takes
  <2> QED BY <2>1, <2>2, <2>3
<1>4. ASSUME NEW k \in 1 .. Len(stack') - 1
      PROVE  Follows(stack[k], stack[k + 1])'
  <2>1. CASE k = Len(stack)
    BY <1>2, <2>1 DEF Follows, DependsOn, Takes
  <2>2. CASE k # Len(stack)
    <3>1. k \in 1 .. Len(stack) - 1 /\ k \in 1 .. Len(stack) /\ k + 1 \in 1 .. Len(stack)
      BY <1>2, <1>4, <2>2
    <3>2. PICK f \in Activations : f = stack[k]
      BY <1>2, <3>1
    <3>3. PICK h \in Activations : h = stack[k + 1]
      BY <1>2, <3>1
    <3>4. FrameTyped(f) /\ FrameTyped(h) /\ Follows(f, h)
      BY <3>1, <3>2, <3>3 DEF StackInv, StackTyped
    <3>5. Follows(f, h)'
      BY <1>1, <3>4, FollowsStays
    <3>6. CASE k + 1 # Len(stack)
      <4>1. k + 1 \in 1 .. Len(stack) - 1
        BY <1>2, <3>1, <3>6
      <4> QED BY <1>2, <3>1, <3>2, <3>3, <3>5, <4>1 DEF Follows, DependsOn, Takes
    <3>7. CASE k + 1 = Len(stack)
      <4>1. h = Top /\ Len(stack) > 1
        BY <1>1, <1>2, <3>1, <3>3, <3>7
      <4>2. stack'[k] = f /\ stack'[k + 1] = fr
        BY <1>2, <3>1, <3>2, <3>7
      <4>3. fr.fn = h.fn /\ fr.drv = h.drv /\ fr.dev = h.dev
        BY <4>1
      <4>4. Follows(f, fr)'
        BY <3>5, <4>3 DEF Follows
      <4> QED BY <4>2, <4>4 DEF Follows, DependsOn, Takes
    <3> QED BY <3>6, <3>7
  <2> QED BY <2>1, <2>2
<1>5. \A k \in 1 .. Len(stack) : stack'[k].fn = stack[k].fn /\ stack'[k].drv = stack[k].drv
  BY <1>1, <1>2
<1>6. StackTyped'
  <2>1. 1 \in 1 .. Len(stack)
    BY <1>2
  <2>2. \A k \in 1 .. Len(stack') : k \in 1 .. Len(stack) \/ k = Len(stack) + 1
    BY <1>2
  <2>3. \A k \in 1 .. Len(stack') : stack'[k].fn \in {"first", "probeFor"} => k = 1
    BY <1>2, <1>5, <2>2 DEF StackInv, StackTyped
  <2>4. Len(stack') > 0 => stack'[1].fn \in {"first", "probeFor", "deregister"}
    BY <1>2, <1>5, <2>1 DEF StackInv, StackTyped
  <2> QED BY <1>2, <1>3, <1>4, <2>3, <2>4 DEF StackTyped
<1>7. Removals'
  <2>1. \A k \in 1 .. Len(stack') : k \in 1 .. Len(stack) \/ k = Len(stack) + 1
    BY <1>2
  <2>2. CASE \A k \in 1 .. Len(stack) : stack[k].fn = "deregister"
    <3>1. fr.fn = "deregister"
      BY <1>1, <1>2, <2>2
    <3>2. g.fn = "deregister"
      BY <3>1 DEF Follows, Takes
    <3> QED BY <1>2, <1>5, <2>1, <2>2, <3>2 DEF Removals
  <2>3. CASE \A k \in 1 .. Len(stack) :
               stack[k].fn = "deregister" => k = Len(stack) /\ k > 1 /\ Takes(stack[k - 1])
    <3>1. ASSUME Top.fn = "deregister" PROVE FALSE
      <4>1. /\ Len(stack) > 1 /\ Takes(stack[Len(stack) - 1]) /\ Len(stack) \in 1 .. Len(stack)
            /\ Len(stack) - 1 \in 1 .. Len(stack) - 1 /\ Len(stack) - 1 + 1 = Len(stack)
        BY <1>1, <1>2, <2>3, <3>1
      <4>2. Follows(stack[Len(stack) - 1], Top)
        <5>1. Follows(stack[Len(stack) - 1], stack[Len(stack) - 1 + 1])
          BY <4>1 DEF StackInv, StackTyped
        <5> QED BY <1>1, <4>1, <5>1
      <4>3. Top.dev \in Known /\ dev[Top.dev].name = <<"vga", 0>>
        BY <3>1, <4>1, <4>2 DEF Follows, Takes
      <4>4. dev[Top.dev].type \in Types /\ dev[Top.dev].name \in NamesOf(dev[Top.dev].type)
        <5>1. dev[Top.dev] \in Machines
          BY <4>3 DEF StackInv, DevicesTyped, Known
        <5> QED BY <4>3, <5>1 DEF StackInv, DevicesTyped, Machines
      <4>5. dev[Top.dev].type # "framebuffer"
        BY <4>3, <4>4 DEF NamesOf
      <4>6. fr.dev = Top.dev /\ dev'[fr.dev].type # "framebuffer"
        BY <4>1, <4>3, <4>5 DEF SameWorld
      <4> QED BY <3>1, <4>6 DEF Follows, Takes
    <3>2. \A k \in 1 .. Len(stack) : stack'[k].fn # "deregister"
      BY <1>1, <1>2, <1>5, <2>3, <3>1
    <3>3. g.fn = "deregister" => Takes(fr)
      BY <3>1 DEF Follows, Takes
    <3>4. Len(stack') - 1 = Len(stack) /\ stack'[Len(stack)] = fr
      BY <1>2
    <3>5. stack'[Len(stack) + 1] = g /\ Len(stack) + 1 > 1 /\ Len(stack) + 1 - 1 = Len(stack)
      BY <1>2
    <3> QED BY <1>2, <2>1, <3>2, <3>3, <3>4, <3>5 DEF Removals, Takes
  <2> QED BY <2>2, <2>3 DEF StackInv, Removals
<1>8. FirstOnly'
  <2>1. 1 \in 1 .. Len(stack)
    BY <1>2
  <2> QED BY <1>2, <1>5, <2>1 DEF StackInv, FirstOnly
<1> QED BY <1>6, <1>7, <1>8

(* A call from outside any activation. *)
LEMMA Began ==
    ASSUME StackInv, stack = <<>>, NEW f \in Activations, stack' = <<f>>,
           f.fn \in {"first", "probeFor", "deregister"}, FrameTyped(f)',
           \A d \in Drivers : firstProbe'[d] => f.fn = "first" /\ f.drv = d
    PROVE  StackTyped' /\ Removals' /\ FirstOnly'
<1>1. stack' \in Seq(Activations) /\ Len(stack') = 1 /\ stack'[1] = f
  OBVIOUS
<1>2. \A k \in 1 .. Len(stack') : k = 1
  BY <1>1
<1>3. ~ \E k \in 1 .. Len(stack') - 1 : TRUE
  BY <1>1
<1>4. FrameTyped(stack[1])'
  BY <1>1 DEF FrameTyped, FirstTyped, ProbeTyped, Takes
<1>5. StackTyped'
  BY <1>1, <1>2, <1>3, <1>4 DEF StackTyped
<1>6. Removals'
  <2>1. CASE f.fn = "deregister"
    BY <1>1, <1>2, <2>1 DEF Removals
  <2>2. CASE f.fn # "deregister"
    BY <1>1, <1>2, <2>2 DEF Removals
  <2> QED BY <2>1, <2>2
<1>7. FirstOnly'
  BY <1>1 DEF FirstOnly
<1> QED BY <1>5, <1>6, <1>7
----------------------------------------------------------------------------
(* Steps that neither make nor remove a device. *)

(* What is known of a device. *)
LEMMA DeviceFacts ==
    ASSUME DevicesTyped
    PROVE  /\ Len(dev) \in Nat /\ DOMAIN dev = Known
           /\ \A i \in Known :
                 /\ dev[i] \in Machines /\ dev[i].type \in Types /\ dev[i].name \in NamesOf(dev[i].type)
                 /\ dev[i].subdevices \in Seq(Nat)
                 /\ dev[i].name[2] \in Nat
                 /\ dev[i].name[1] = "sp" => dev[i].type = "char"
                 /\ dev[i].name = <<"vga", 0>> => dev[i].type = "con"
                 /\ dev[i].name[1] = "vga" => dev[i].name = <<"vga", 0>>
<1>1. dev \in Seq(Machines)
  BY DEF DevicesTyped
<1>2. Len(dev) \in Nat /\ DOMAIN dev = Known /\ \A i \in Known : dev[i] \in Machines
  <2> QED BY <1>1 DEF Known
<1>3. ASSUME NEW i \in Known
      PROVE  dev[i].type \in Types /\ dev[i].name \in NamesOf(dev[i].type) /\ dev[i].subdevices \in Seq(Nat)
  BY <1>2, <1>3 DEF Machines, DevicesTyped
<1>4. \A t \in Types : \A n \in NamesOf(t) :
         /\ n[2] \in Nat
         /\ n[1] = "sp" => t = "char"
         /\ n = <<"vga", 0>> => t = "con"
         /\ n[1] = "vga" => n = <<"vga", 0>>
  BY DEF Types, NamesOf
<1> QED BY <1>2, <1>3, <1>4

(* Numbers stay below the next one, as long as the loops only go on. *)
LEMMA FixedStays ==
    ASSUME StackInv, StackTyped', FirstOnly', firstProbe' = firstProbe, SameWorld,
           NEW d \in {"serial", "vga"}, NEW w, FixedName(d, w),
           stack # <<>>, Len(stack') \in Len(stack) - 1 .. Len(stack) + 1,
           \A k \in 1 .. Len(stack) - 1 : stack'[k] = stack[k],
           Len(stack') >= Len(stack) /\ Top.drv \in {"serial", "vga"} => stack'[Len(stack)].at >= Top.at,
           Len(stack') > Len(stack) => Top.fn # "first" \/ Top.at = 0 \/ Loops(Top.drv)
    PROVE  \A i \in Listed : Numbered(d, w, i)'
<1>1. SUFFICES ASSUME NEW i \in Listed, dev'[i].name[1] = w
               PROVE  /\ d \in ToSet(drivers')
                      /\ firstProbe'[d] /\ Len(stack') = 1 => stack'[1].at = 1
                      /\ firstProbe'[d] /\ Len(stack') > 1 => dev'[i].name[2] < stack'[2].at
  BY DEF Numbered
<1>2. /\ i \in Known /\ dev'[i].name = dev[i].name /\ dev[i].name[2] \in Nat
      /\ drivers' = drivers
  BY DeviceFacts DEF StackInv, ListsTyped, SameWorld
<1>3. /\ d \in ToSet(drivers)
      /\ firstProbe[d] /\ Len(stack) = 1 => stack[1].at = 1
      /\ firstProbe[d] /\ Len(stack) > 1 => dev[i].name[2] < stack[2].at
  BY <1>1, <1>2 DEF FixedName, Numbered
<1>4. d \in Drivers /\ ~Loops(d)
  BY TreeFacts
<1>5. /\ Len(stack) \in Nat \ {0} /\ Top = stack[Len(stack)]
      /\ \A k \in 1 .. Len(stack) : stack[k] \in Activations /\ stack[k].at \in Nat
  <2>1. stack \in Seq(Activations)
    BY DEF StackInv, StackTyped
  <2>2. Len(stack) \in Nat \ {0} /\ \A k \in 1 .. Len(stack) : stack[k] \in Activations
    BY <2>1
  <2> QED BY <2>2 DEF Activations, Top, Last
<1>6. \A k \in 1 .. Len(stack') : stack'[k].at \in Nat
  <2>1. stack' \in Seq(Activations)
    BY DEF StackTyped
  <2>2. \A k \in 1 .. Len(stack') : stack'[k] \in Activations
    BY <2>1
  <2> QED BY <2>2 DEF Activations
<1>7. Len(stack') = Len(stack) - 1 \/ Len(stack') = Len(stack) \/ Len(stack') = Len(stack) + 1
  BY <1>5
<1>8. ASSUME firstProbe[d] PROVE stack[1].fn = "first" /\ stack[1].drv = d
  BY <1>4, <1>8 DEF StackInv, FirstOnly
<1>9. ASSUME firstProbe[d], Len(stack) > 1 PROVE stack[1].at = 1 /\ stack[2].drv = d
  <2>1. 1 \in 1 .. Len(stack) - 1 /\ 1 + 1 = 2
    BY <1>5, <1>9
  <2>2. Follows(stack[1], stack[2])
    BY <2>1 DEF StackInv, StackTyped
  <2> QED BY <1>4, <1>8, <1>9, <2>2 DEF Follows, Takes
<1>10. ASSUME firstProbe[d], Len(stack') = 1 PROVE stack'[1].at = 1
  <2>1. CASE Len(stack) = 1
    <3>1. stack'[1].at >= 1
      BY <1>3, <1>5, <1>8, <1>10, <2>1
    <3>2. stack'[1].fn = "first" => stack'[1].at \in {0, 1}
      <4>1. FrameTyped(stack[1])'
        BY <1>10 DEF StackTyped
      <4> QED BY <4>1 DEF FrameTyped, FirstTyped
    <3>3. stack'[1].fn = "first"
      BY <1>4, <1>10 DEF FirstOnly
    <3> QED BY <3>1, <3>2, <3>3
  <2>2. CASE Len(stack) > 1
    BY <1>5, <1>9, <1>10, <2>2
  <2>3. Len(stack) = 1 \/ Len(stack) > 1
    <3>1. \A n \in Nat \ {0} : n = 1 \/ n > 1
      OBVIOUS
    <3> QED BY <1>5, <3>1
  <2> QED BY <2>1, <2>2, <2>3
<1>11. ASSUME firstProbe[d], Len(stack') > 1 PROVE dev[i].name[2] < stack'[2].at
  <2>1. CASE Len(stack) = 1
    <3>1. Top.at = 1 /\ Top.fn = "first" /\ Top.drv = d
      BY <1>3, <1>5, <1>8, <1>11, <2>1
    <3> QED BY <1>4, <1>11, <2>1, <3>1
  <2>2. CASE Len(stack) = 2
    <3>1. stack'[2].at >= stack[2].at /\ stack'[2].at \in Nat /\ stack[2].at \in Nat
      BY <1>5, <1>6, <1>9, <1>11, <2>2
    <3> QED BY <1>2, <1>3, <1>11, <2>2, <3>1
  <2>3. CASE Len(stack) > 2
    <3>1. stack'[2] = stack[2]
      BY <1>5, <2>3
    <3> QED BY <1>3, <1>11, <2>3, <3>1
  <2>4. Len(stack) = 1 \/ Len(stack) = 2 \/ Len(stack) > 2
    <3>1. \A n \in Nat \ {0} : n = 1 \/ n = 2 \/ n > 2
      OBVIOUS
    <3> QED BY <1>5, <3>1
  <2> QED BY <2>1, <2>2, <2>3, <2>4
<1> QED BY <1>2, <1>3, <1>10, <1>11

\* What a step leaves alone that neither makes nor removes a device.
SameDevices == UNCHANGED <<drivers, devices, dev, disabled, firstProbe>>

(* Such a step keeps what is known of the devices. *)
LEMMA DevicesStay ==
    ASSUME StackInv, SameDevices
    PROVE  /\ DevicesTyped' /\ ListsTyped' /\ SameWorld /\ Listed' = Listed
           /\ UniqueNames => UniqueNames'
<1>1. /\ drivers' = drivers /\ devices' = devices /\ dev' = dev
      /\ disabled' = disabled /\ firstProbe' = firstProbe
  BY DEF SameDevices
<1>2. Len(dev) \in Nat /\ Len(dev) <= Len(dev)
  BY DeviceFacts DEF StackInv
<1>3. Listed' = Listed /\ Known' = Known
  BY <1>1 DEF Listed, Known
<1>4. DevicesTyped'
  BY <1>1, <1>3 DEF StackInv, DevicesTyped
<1>5. ListsTyped'
  BY <1>1, <1>3 DEF StackInv, ListsTyped
<1>6. UniqueNames => UniqueNames'
  BY <1>1 DEF UniqueNames
<1> QED BY <1>1, <1>2, <1>3, <1>4, <1>5, <1>6 DEF SameWorld

(* An activation returns. *)
LEMMA QuietReturn ==
    ASSUME StackInv, NamesInv, SameDevices, stack # <<>>, Return, Top.fn # "first"
    PROVE  StackInv' /\ NamesInv'
<1>1. /\ DevicesTyped' /\ ListsTyped' /\ SameWorld /\ Listed' = Listed /\ UniqueNames'
      /\ firstProbe' = firstProbe
  BY DevicesStay DEF NamesInv, SameDevices
<1>2. StackTyped' /\ Removals' /\ FirstOnly'
  BY <1>1, Popped
<1>3. /\ Len(stack) \in Nat \ {0} /\ Len(stack') = Len(stack) - 1
      /\ \A k \in 1 .. Len(stack) - 1 : stack'[k] = stack[k]
  <2>1. stack \in Seq(Activations)
    BY DEF StackInv, StackTyped
  <2>2. stack' = Front(stack) /\ \E f \in Activations : TRUE
    <3>1. stack[Len(stack)] \in Activations
      BY <2>1
    <3> QED BY <3>1 DEF Return
  <2> QED BY <2>1, <2>2, StackOps
<1>4. ASSUME NEW d \in {"serial", "vga"}, NEW w, FixedName(d, w) PROVE FixedName(d, w)'
  <2>1. Len(stack') \in Len(stack) - 1 .. Len(stack) + 1 /\ ~(Len(stack') >= Len(stack)) /\ ~(Len(stack') > Len(stack))
    BY <1>3
  <2> QED BY <1>1, <1>2, <1>3, <1>4, <2>1, FixedStays DEF FixedName
<1> QED BY <1>1, <1>2, <1>4 DEF StackInv, NamesInv

(* An activation goes on. *)
LEMMA QuietContinue ==
    ASSUME StackInv, NamesInv, SameDevices, stack # <<>>,
           NEW fr \in Activations, Continue(fr), FrameTyped(fr)', fr.fn = Top.fn, fr.drv = Top.drv,
           Len(stack) > 1 => fr.dev = Top.dev, Top.drv \in {"serial", "vga"} => fr.at >= Top.at
    PROVE  StackInv' /\ NamesInv'
<1>1. /\ DevicesTyped' /\ ListsTyped' /\ SameWorld /\ Listed' = Listed /\ UniqueNames'
      /\ firstProbe' = firstProbe
  BY DevicesStay DEF NamesInv, SameDevices
<1>2. StackTyped' /\ Removals' /\ FirstOnly'
  BY <1>1, WentOn
<1>3. /\ Len(stack) \in Nat \ {0} /\ Len(stack') = Len(stack)
      /\ \A k \in 1 .. Len(stack) - 1 : stack'[k] = stack[k]
      /\ stack'[Len(stack)] = fr
  <2>1. stack \in Seq(Activations) /\ stack' = Front(stack) \o <<fr>>
    BY DEF StackInv, StackTyped, Continue
  <2> QED BY <2>1, StackOps
<1>4. ASSUME NEW d \in {"serial", "vga"}, NEW w, FixedName(d, w) PROVE FixedName(d, w)'
  <2>1. Len(stack') \in Len(stack) - 1 .. Len(stack) + 1 /\ ~(Len(stack') > Len(stack))
    BY <1>3
  <2> QED BY <1>1, <1>2, <1>3, <1>4, <2>1, FixedStays DEF FixedName
<1> QED BY <1>1, <1>2, <1>4 DEF StackInv, NamesInv

(* An activation goes on and calls another. *)
LEMMA QuietCall ==
    ASSUME StackInv, NamesInv, SameDevices, stack # <<>>,
           NEW fr \in Activations, NEW g \in Activations, Call(fr, g),
           FrameTyped(fr)', fr.fn = Top.fn, fr.drv = Top.drv,
           Len(stack) > 1 => fr.dev = Top.dev, Top.drv \in {"serial", "vga"} => fr.at >= Top.at,
           Top.fn # "first" \/ Top.at = 0 \/ Loops(Top.drv),
           FrameTyped(g)', Follows(fr, g)', g.fn \in {"register", "probe", "deregister"}
    PROVE  StackInv' /\ NamesInv'
<1>1. /\ DevicesTyped' /\ ListsTyped' /\ SameWorld /\ Listed' = Listed /\ UniqueNames'
      /\ firstProbe' = firstProbe
  BY DevicesStay DEF NamesInv, SameDevices
<1>2. StackTyped' /\ Removals' /\ FirstOnly'
  BY <1>1, Called
<1>3. /\ Len(stack) \in Nat \ {0} /\ Len(stack') = Len(stack) + 1
      /\ \A k \in 1 .. Len(stack) - 1 : stack'[k] = stack[k]
      /\ stack'[Len(stack)] = fr
  BY CallLeaves DEF StackInv, StackTyped
<1>4. ASSUME NEW d \in {"serial", "vga"}, NEW w, FixedName(d, w) PROVE FixedName(d, w)'
  <2>1. Len(stack') \in Len(stack) - 1 .. Len(stack) + 1
    BY <1>3
  <2> QED BY <1>1, <1>2, <1>3, <1>4, <2>1, FixedStays DEF FixedName
<1> QED BY <1>1, <1>2, <1>4 DEF StackInv, NamesInv

(* Nothing changes but what no device depends on. *)
LEMMA NothingMoves ==
    ASSUME StackInv, NamesInv, SameDevices, stack' = stack
    PROVE  StackInv' /\ NamesInv'
<1>1. DevicesTyped' /\ ListsTyped' /\ UniqueNames' /\ Listed' = Listed /\ Known' = Known
  BY DevicesStay DEF NamesInv, SameDevices, Known
<1>2. /\ drivers' = drivers /\ dev' = dev /\ disabled' = disabled /\ firstProbe' = firstProbe /\ stack' = stack
  BY DEF SameDevices
<1>3. \A k \in 1 .. Len(stack) : FrameTyped(stack[k]) => FrameTyped(stack[k])'
  BY <1>1, <1>2 DEF FrameTyped, FirstTyped, ProbeTyped, Takes
<1>4. \A k \in 1 .. Len(stack) - 1 : Follows(stack[k], stack[k + 1]) => Follows(stack[k], stack[k + 1])'
  BY <1>1, <1>2 DEF Follows, Takes, DependsOn
<1>5. StackTyped'
  BY <1>2, <1>3, <1>4 DEF StackInv, StackTyped
<1>6. Removals' /\ FirstOnly'
  BY <1>2 DEF StackInv, Removals, FirstOnly, Takes
<1>7. \A d, w : FixedName(d, w) => FixedName(d, w)'
  BY <1>1, <1>2 DEF FixedName, Numbered
<1> QED BY <1>1, <1>5, <1>6, <1>7 DEF StackInv, NamesInv

(* The innermost activation. *)
LEMMA TopFacts ==
    ASSUME StackInv, stack # <<>>
    PROVE  /\ Len(stack) \in Nat \ {0} /\ Top = stack[Len(stack)]
           /\ Top \in Activations /\ FrameTyped(Top)
           /\ Top.fn \in {"first", "probeFor"} => Len(stack) = 1
           /\ Len(stack) = 1 => Top.fn \in {"first", "probeFor", "deregister"}
           /\ Len(stack) > 1 => /\ stack[Len(stack) - 1] \in Activations
                                /\ FrameTyped(stack[Len(stack) - 1])
                                /\ Follows(stack[Len(stack) - 1], Top)
           /\ \A a \in Nat : [Top EXCEPT !.at = a] \in Activations
           /\ \A a \in Nat : [Top EXCEPT !.dev = a] \in Activations
           /\ \A a \in Nat : [Top EXCEPT !.new = a] \in Activations
           /\ \A a, b \in Nat : [Top EXCEPT !.at = a, !.new = b] \in Activations
           /\ Top.at \in Nat /\ Top.dev \in Nat /\ Top.new \in Nat
<1>1. stack \in Seq(Activations) /\ Len(stack) \in Nat \ {0} /\ Top = stack[Len(stack)]
  <2>1. stack \in Seq(Activations)
    BY DEF StackInv, StackTyped
  <2>2. Len(stack) \in Nat \ {0}
    BY <2>1
  <2> QED BY <2>1, <2>2 DEF Top, Last
<1>2. Len(stack) \in 1 .. Len(stack) /\ (Len(stack) > 1 => Len(stack) - 1 \in 1 .. Len(stack) - 1
      /\ Len(stack) - 1 \in 1 .. Len(stack) /\ Len(stack) - 1 + 1 = Len(stack))
  BY <1>1
<1>3. Top \in Activations /\ (Len(stack) > 1 => stack[Len(stack) - 1] \in Activations)
  BY <1>1, <1>2
<1>4. /\ FrameTyped(Top)
      /\ Len(stack) > 1 => FrameTyped(stack[Len(stack) - 1]) /\ Follows(stack[Len(stack) - 1], Top)
  <2>1. \A k \in 1 .. Len(stack) : FrameTyped(stack[k])
    BY DEF StackInv, StackTyped
  <2>2. Len(stack) > 1 => Follows(stack[Len(stack) - 1], stack[Len(stack) - 1 + 1])
    BY <1>2 DEF StackInv, StackTyped
  <2>3. FrameTyped(stack[Len(stack)]) /\ (Len(stack) > 1 => FrameTyped(stack[Len(stack) - 1]))
    BY <1>2, <2>1
  <2> QED BY <1>1, <1>2, <2>2, <2>3
<1>5. /\ Top.fn \in {"first", "probeFor"} => Len(stack) = 1
      /\ Len(stack) = 1 => Top.fn \in {"first", "probeFor", "deregister"}
  <2>1. \A k \in 1 .. Len(stack) : stack[k].fn \in {"first", "probeFor"} => k = 1
    BY DEF StackInv, StackTyped
  <2>2. stack[1].fn \in {"first", "probeFor", "deregister"}
    BY <1>1 DEF StackInv, StackTyped
  <2> QED BY <1>1, <1>2, <2>1, <2>2
<1>6. /\ \A a \in Nat : [Top EXCEPT !.at = a] \in Activations
      /\ \A a \in Nat : [Top EXCEPT !.dev = a] \in Activations
      /\ \A a \in Nat : [Top EXCEPT !.new = a] \in Activations
      /\ \A a, b \in Nat : [Top EXCEPT !.at = a, !.new = b] \in Activations
      /\ Top.at \in Nat /\ Top.dev \in Nat /\ Top.new \in Nat
  BY <1>3 DEF Activations
<1> QED BY <1>1, <1>3, <1>4, <1>5, <1>6

(* What a probe of a device, or of none, starts with. *)
LEMMA ProbeFrame ==
    ASSUME StackInv, NEW d \in ToSet(drivers), NEW i \in Known \cup {NoDevice}, SameDevices
    PROVE  /\ Probe(d, i) \in Activations /\ FrameTyped(Probe(d, i))'
           /\ Probe(d, i).fn = "probe" /\ Probe(d, i).drv = d /\ Probe(d, i).dev = i
           /\ Probe(d, i).at = 0 /\ Probe(d, i).new = NoDevice
<1>1. d \in Drivers /\ i \in Nat
  <2>1. drivers \in Seq(Drivers)
    BY DEF StackInv, ListsTyped
  <2>2. d \in Drivers
    BY <2>1, ElementsOf
  <2>3. Known \subseteq Nat
    BY DEF Known
  <2> QED BY <2>2, <2>3 DEF NoDevice
<1>2. ToSet(drivers)' = ToSet(drivers) /\ Known' = Known
  BY DEF SameDevices, Known
<1> QED BY <1>1, <1>2 DEF Probe, Frame, Activations, NoDevice, FrameTyped, ProbeTyped, Takes

(* device_register goes through the drivers. *)
LEMMA RegisterKeeps ==
    ASSUME StackInv, NamesInv, RegisterStep
    PROVE  StackInv' /\ NamesInv'
<1>1. stack # <<>> /\ Top.fn = "register" /\ SameDevices
  BY DEF RegisterStep, Running, Idle, SameDevices
<1>2. /\ Top \in Activations /\ Top.dev \in Known /\ Top.at \in Nat /\ Top.at <= Len(drivers)
      /\ drivers' = drivers /\ Len(drivers) \in Nat /\ Known' = Known /\ dev' = dev
  BY <1>1, TopFacts, ElementsOf DEF FrameTyped, SameDevices, StackInv, ListsTyped, Known
<1>3. CASE Top.at = Len(drivers)
  BY <1>1, <1>3, QuietReturn DEF RegisterStep
<1>4. CASE Top.at # Len(drivers)
  <2>0. Top.at + 1 \in Nat /\ [Top EXCEPT !.at = @ + 1] = [Top EXCEPT !.at = Top.at + 1]
    BY <1>2
  <2>1. PICK fr \in Activations : fr = [Top EXCEPT !.at = @ + 1]
    BY <1>1, <2>0, TopFacts
  <2>2. fr.fn = "register" /\ fr.drv = Top.drv /\ fr.dev = Top.dev /\ fr.at = Top.at + 1
    BY <1>1, <1>2, <2>1 DEF Activations
  <2>3. FrameTyped(fr)' /\ fr.at >= Top.at
    BY <1>2, <1>4, <2>2 DEF FrameTyped
  <2>4. CASE DependsOn(drivers[Top.at + 1], Top.dev)
    <3>1. PICK d \in ToSet(drivers) : d = drivers[Top.at + 1]
      <4>1. Top.at + 1 \in 1 .. Len(drivers)
        BY <1>2, <1>4
      <4> QED BY <4>1, ElementsOf DEF StackInv, ListsTyped
    <3>6. PICK i \in Known : i = Top.dev
      BY <1>2
    <3>2. PICK g \in Activations : g = Probe(d, i)
      BY <1>1, ProbeFrame
    <3>3. FrameTyped(g)' /\ g.fn = "probe" /\ g.drv = d /\ g.dev = Top.dev
      <4>1. FrameTyped(Probe(d, i))' /\ g.fn = "probe" /\ g.drv = d /\ g.dev = Top.dev
        BY <1>1, <3>2, <3>6, ProbeFrame
      <4> QED BY <3>2, <4>1
    <3>4. Follows(fr, g)'
      BY <1>2, <2>2, <2>4, <3>1, <3>3 DEF Follows, DependsOn
    <3>5. Call(fr, g)
      BY <1>4, <2>1, <2>4, <3>1, <3>2, <3>6 DEF RegisterStep
    <3> QED BY <1>1, <2>2, <2>3, <3>3, <3>4, <3>5, QuietCall
  <2>5. CASE ~DependsOn(drivers[Top.at + 1], Top.dev)
    <3>1. Continue(fr)
      BY <1>4, <2>1, <2>5 DEF RegisterStep
    <3> QED BY <1>1, <2>2, <2>3, <3>1, QuietContinue
  <2> QED BY <2>4, <2>5
<1> QED BY <1>3, <1>4
----------------------------------------------------------------------------
(* Steps that remove a device. *)

(* Under a device that is removed stand only removals, or the probe that took over the
   console: nothing there stands on the device. *)
LEMMA RemovedUnder ==
    ASSUME StackInv, stack # <<>>, Top.fn = "deregister", SameWorld, Listed' = Listed \ {Top.dev},
           firstProbe' = firstProbe
    PROVE  \A k \in 1 .. Len(stack) - 1 : \A f \in Activations : f = stack[k] => FrameTyped(f)'
<1>1. SUFFICES ASSUME NEW k \in 1 .. Len(stack) - 1, NEW f \in Activations, f = stack[k]
               PROVE  FrameTyped(f)'
  OBVIOUS
<1>2. /\ Len(stack) \in Nat \ {0} /\ k \in 1 .. Len(stack) /\ k + 1 \in 1 .. Len(stack)
      /\ Len(stack) > 1 /\ Top = stack[Len(stack)]
      /\ stack[k + 1] \in Activations
  <2>1. Len(stack) \in Nat \ {0} /\ Top = stack[Len(stack)]
    BY TopFacts
  <2>2. k \in 1 .. Len(stack) /\ k + 1 \in 1 .. Len(stack) /\ Len(stack) > 1
    BY <2>1
  <2>3. stack \in Seq(Activations)
    BY DEF StackInv, StackTyped
  <2> QED BY <2>1, <2>2, <2>3
<1>3. FrameTyped(f) /\ Follows(f, stack[k + 1])
  BY <1>1, <1>2 DEF StackInv, StackTyped
<1>4. CASE \A j \in 1 .. Len(stack) : stack[j].fn = "deregister"
  <2>1. f.fn = "deregister"
    BY <1>1, <1>2, <1>4
  <2> QED BY <2>1 DEF FrameTyped
<1>5. CASE \A j \in 1 .. Len(stack) :
              stack[j].fn = "deregister" => j = Len(stack) /\ j > 1 /\ Takes(stack[j - 1])
  <2>1. /\ Takes(stack[Len(stack) - 1]) /\ f.fn # "deregister"
        /\ k + 1 < Len(stack) => stack[k + 1].fn # "deregister"
    <3>1. Len(stack) \in 1 .. Len(stack)
      BY <1>2
    <3>2. Takes(stack[Len(stack) - 1])
      BY <1>2, <1>5, <3>1
    <3>3. k # Len(stack) /\ f.fn = stack[k].fn
      BY <1>1, <1>2
    <3>4. k + 1 < Len(stack) => stack[k + 1].fn # "deregister"
      BY <1>2, <1>5
    <3>5. stack[k].fn # "deregister"
      BY <1>2, <1>5, <3>3
    <3> QED BY <3>2, <3>3, <3>4, <3>5
  <2>2. Top.dev \in Known /\ dev[Top.dev].name = <<"vga", 0>> /\ dev[Top.dev].type = "con"
    <3>1. Follows(stack[Len(stack) - 1], Top)
      BY <1>2, TopFacts
    <3>2. Top.dev \in Known /\ dev[Top.dev].name = <<"vga", 0>>
      BY <2>1, <3>1 DEF Follows, Takes
    <3> QED BY <3>2, DeviceFacts DEF StackInv
  <2>3. /\ drivers' = drivers /\ disabled' = disabled /\ Known \subseteq Known' /\ Listed \subseteq Known
        /\ Listed \ {Top.dev} = Listed'
        /\ \A i \in Known : dev'[i].name = dev[i].name /\ dev'[i].type = dev[i].type
    BY DEF SameWorld, Known, StackInv, ListsTyped
  \* A driver whose probe makes a device does not depend on consoles.
  <2>4. \A j \in 1 .. Len(stack) - 1 : stack[j].fn = "probe" => stack[j].drv \in TreeDrivers
    <3>1. SUFFICES ASSUME NEW j \in 1 .. Len(stack) - 1, stack[j].fn = "probe"
                   PROVE  stack[j].drv \in TreeDrivers
      OBVIOUS
    <3>2. Follows(stack[j], stack[j + 1])
      BY <3>1 DEF StackInv, StackTyped
    <3> QED BY <3>1, <3>2, TreeFacts DEF Follows, Takes
  <2>5. \A d \in TreeDrivers : Loops(d) => Attr[d].dependsOn \in {"framebuffer", "block"}
    BY TreeFacts DEF TreeDrivers
  <2>6. CASE f.fn = "first"
    <3>1. FirstTyped(f)
      BY <1>3, <2>6 DEF FrameTyped
    <3>2. f.dev # Top.dev
      <4>1. CASE Loops(f.drv)
        <5>1. stack[k + 1].fn = "probe" /\ stack[k + 1].drv = f.drv /\ f.dev # NoDevice /\ DependsOn(f.drv, f.dev)
          BY <1>3, <2>6, <4>1 DEF Follows, Takes
        <5>2. k + 1 \in 1 .. Len(stack) - 1
          <6>1. k + 1 # Len(stack)
            BY <1>2, <5>1
          <6> QED BY <1>2, <6>1
        <5>3. f.drv \in TreeDrivers
          BY <2>4, <5>1, <5>2
        <5>4. Attr[f.drv].dependsOn \in {"framebuffer", "block"}
          BY <2>5, <4>1, <5>3
        <5> QED BY <2>2, <5>1, <5>4 DEF DependsOn
      <4>2. CASE ~Loops(f.drv)
        BY <2>2, <3>1, <4>2, DeviceFacts DEF FirstTyped, NoDevice, Known, StackInv
      <4> QED BY <4>1, <4>2
    <3>3. firstProbe'[f.drv]
      BY <3>1 DEF FirstTyped
    <3>4. FirstTyped(f)'
      BY <2>3, <3>1, <3>2, <3>3 DEF FirstTyped
    <3> QED BY <2>6, <3>4 DEF FrameTyped
  <2>7. CASE f.fn = "probe"
    <3>1. ProbeTyped(f)
      BY <1>3, <2>7 DEF FrameTyped
    <3>2. f.drv = "fbcon" => Takes(f)
      BY <1>3, <2>7 DEF Follows
    <3>3. ASSUME Takes(f)
          PROVE  f.at \in Listed' /\ f.new \in Listed' /\ f.at \in Known /\ f.new \in Known
      <4>1. /\ f.at \in Listed /\ f.new \in Listed /\ dev[f.at].type = "framebuffer"
            /\ dev[f.new].name # <<"vga", 0>>
        BY <3>1, <3>3 DEF ProbeTyped, Takes
      <4> QED BY <2>2, <2>3, <4>1
    <3>4. f.drv \in ToSet(drivers)' /\ f.dev \in Known' \cup {NoDevice}
      BY <2>3, <3>1 DEF ProbeTyped
    <3>5. Takes(f) => /\ f.at # NoDevice /\ dev'[f.at].type = "framebuffer"
                      /\ f.new \in Listed' /\ dev'[f.new].type = "con"
                      /\ dev'[f.new].name # <<"vga", 0>>
      BY <2>3, <3>1, <3>3 DEF ProbeTyped
    <3>6. f.drv = "fbcon" => f.at \in Listed' \cup {NoDevice}
      BY <3>2, <3>3
    <3>7. ProbeTyped(f)'
      BY <3>4, <3>5, <3>6 DEF ProbeTyped, Takes
    <3> QED BY <2>7, <3>7 DEF FrameTyped
  <2>8. CASE f.fn = "register"
    BY <1>3, <2>3, <2>8 DEF FrameTyped
  <2>9. CASE f.fn = "probeFor"
    BY <1>3, <2>3, <2>9 DEF FrameTyped
  <2> QED BY <2>6, <2>7, <2>8, <2>9 DEF FrameTyped
<1> QED BY <1>4, <1>5 DEF StackInv, Removals

(* device_deregister unbinds the device. *)
LEMMA Unbound ==
    ASSUME StackInv, Top.dev \in Listed, dev' = [dev EXCEPT ![Top.dev].subdevices = <<>>]
    PROVE  /\ dev' \in Seq(Machines) /\ Len(dev') = Len(dev) /\ Len(dev) \in Nat
           /\ \A i \in Known : /\ dev'[i].name = dev[i].name /\ dev'[i].type = dev[i].type
                               /\ dev'[i].subdevices = dev[i].subdevices \/ dev'[i].subdevices = <<>>
<1>1. /\ dev \in Seq(Machines) /\ Top.dev \in 1 .. Len(dev) /\ dev[Top.dev] \in Machines
      /\ \A i \in Known : dev[i] \in Machines
  BY DeviceFacts DEF StackInv, DevicesTyped, ListsTyped, Known
<1>2. PICK m \in Machines : m = [dev[Top.dev] EXCEPT !.subdevices = <<>>]
  <2>1. <<>> \in Seq(Nat)
    OBVIOUS
  <2> QED BY <1>1, <2>1 DEF Machines
<1>3. m.name = dev[Top.dev].name /\ m.type = dev[Top.dev].type /\ m.subdevices = <<>>
  BY <1>1, <1>2 DEF Machines
<1>4. dev' = [dev EXCEPT ![Top.dev] = m]
  BY <1>2
<1>5. dev' \in Seq(Machines) /\ Len(dev') = Len(dev) /\ Len(dev) \in Nat
      /\ \A i \in 1 .. Len(dev) : dev'[i] = IF i = Top.dev THEN m ELSE dev[i]
  BY <1>1, <1>4
<1> QED BY <1>3, <1>5 DEF Known

(* A device leaves the list. *)
LEMMA RemovalKeeps ==
    ASSUME StackInv, NamesInv, stack # <<>>, Top.fn = "deregister", Return,
           Top.dev \in Listed, devices' = RemoveFirst(devices, Top.dev),
           dev' = [dev EXCEPT ![Top.dev].subdevices = <<>>],
           UNCHANGED <<drivers, disabled, firstProbe>>
    PROVE  StackInv' /\ NamesInv'
<1>1. /\ devices \in Seq(Nat) /\ Listed \subseteq Known
      /\ \A a, b \in 1 .. Len(devices) : devices[a] = devices[b] => a = b
      /\ drivers' = drivers /\ disabled' = disabled /\ firstProbe' = firstProbe
  BY DEF StackInv, ListsTyped
<1>2. /\ devices' \in Seq(Nat) /\ Listed' = Listed \ {Top.dev}
      /\ \A a, b \in 1 .. Len(devices') : devices'[a] = devices'[b] => a = b
  BY <1>1, Removed DEF Listed
<1>3. /\ dev' \in Seq(Machines) /\ Len(dev') = Len(dev) /\ Len(dev) \in Nat
      /\ \A i \in Known : /\ dev'[i].name = dev[i].name /\ dev'[i].type = dev[i].type
                          /\ dev'[i].subdevices = dev[i].subdevices \/ dev'[i].subdevices = <<>>
  BY Unbound
<1>4. SameWorld /\ Known' = Known
  BY <1>1, <1>3 DEF SameWorld, Known
<1>5. DevicesTyped'
  BY <1>3, <1>4 DEF StackInv, DevicesTyped
<1>6. ListsTyped'
  BY <1>1, <1>2, <1>4 DEF StackInv, ListsTyped
<1>7. /\ stack \in Seq(Activations) /\ Len(stack) \in Nat \ {0} /\ stack' \in Seq(Activations)
      /\ Len(stack') = Len(stack) - 1
      /\ \A k \in 1 .. Len(stack) - 1 : stack'[k] = stack[k]
      /\ \A k \in 1 .. Len(stack) : stack[k] \in Activations
      /\ Top = stack[Len(stack)]
  <2>1. stack \in Seq(Activations) /\ Top \in Activations /\ Top = stack[Len(stack)]
    BY TopFacts DEF StackInv, StackTyped
  <2> QED BY <2>1, StackOps DEF Return
<1>8. ASSUME NEW k \in 1 .. Len(stack') PROVE FrameTyped(stack[k])'
  <2>1. k \in 1 .. Len(stack) - 1 /\ k \in 1 .. Len(stack)
    BY <1>7, <1>8
  <2>2. PICK f \in Activations : f = stack[k]
    BY <1>7, <2>1
  <2>3. FrameTyped(f)'
    BY <1>1, <1>2, <1>4, <2>1, <2>2, RemovedUnder
  <2> QED BY <1>7, <2>1, <2>2, <2>3 DEF FrameTyped, FirstTyped, ProbeTyped, Takes
<1>9. ASSUME NEW k \in 1 .. Len(stack') - 1 PROVE Follows(stack[k], stack[k + 1])'
  <2>1. k \in 1 .. Len(stack) - 1 /\ k + 1 \in 1 .. Len(stack) - 1 /\ k \in 1 .. Len(stack) /\ k + 1 \in 1 .. Len(stack)
    BY <1>7, <1>9
  <2>2. PICK f \in Activations : f = stack[k]
    BY <1>7, <2>1
  <2>3. PICK g \in Activations : g = stack[k + 1]
    BY <1>7, <2>1
  <2>4. FrameTyped(f) /\ FrameTyped(g) /\ Follows(f, g)
    BY <2>1, <2>2, <2>3 DEF StackInv, StackTyped
  <2>5. Follows(f, g)'
    BY <1>1, <1>4, <2>4, FollowsStays
  <2> QED BY <1>7, <2>1, <2>2, <2>3, <2>5 DEF Follows, DependsOn, Takes
<1>10. StackTyped'
  <2>1. \A k \in 1 .. Len(stack') : k \in 1 .. Len(stack) /\ stack'[k] = stack[k]
    BY <1>7
  <2>2. Len(stack') > 0 => 1 \in 1 .. Len(stack') /\ Len(stack) > 0
    BY <1>7
  <2>3. \A k \in 1 .. Len(stack') : stack'[k].fn \in {"first", "probeFor"} => k = 1
    BY <2>1 DEF StackInv, StackTyped
  <2>4. Len(stack') > 0 => stack'[1].fn \in {"first", "probeFor", "deregister"}
    BY <2>1, <2>2 DEF StackInv, StackTyped
  <2> QED BY <1>7, <1>8, <1>9, <2>3, <2>4 DEF StackTyped
<1>11. Removals'
  <2>1. CASE \A k \in 1 .. Len(stack) : stack[k].fn = "deregister"
    BY <1>7, <2>1 DEF Removals
  <2>2. CASE \A k \in 1 .. Len(stack) :
               stack[k].fn = "deregister" => k = Len(stack) /\ k > 1 /\ Takes(stack[k - 1])
    <3>1. \A k \in 1 .. Len(stack') : k \in 1 .. Len(stack) /\ k # Len(stack) /\ stack'[k] = stack[k]
      BY <1>7
    <3>2. \A k \in 1 .. Len(stack') : stack'[k].fn # "deregister"
      BY <2>2, <3>1
    <3> QED BY <3>2 DEF Removals
  <2> QED BY <2>1, <2>2 DEF StackInv, Removals
<1>12. FirstOnly'
  <2> SUFFICES ASSUME NEW d \in Drivers, firstProbe[d]
               PROVE  Len(stack') > 0 /\ stack'[1].fn = "first" /\ stack'[1].drv = d
    BY <1>1 DEF FirstOnly
  <2>1. stack[1].fn = "first" /\ stack[1].drv = d
    BY DEF StackInv, FirstOnly
  <2>2. Len(stack) # 1
    BY <1>7, <2>1
  <2> QED BY <1>7, <2>1, <2>2
<1>13. UniqueNames'
  <2>1. ToSet(devices') \subseteq Listed /\ Listed = ToSet(devices)
    BY <1>2 DEF Listed
  <2>2. \A i \in ToSet(devices') : i \in ToSet(devices) /\ dev'[i].name = dev[i].name
    BY <1>1, <1>3, <2>1
  <2> QED BY <2>2 DEF NamesInv, UniqueNames
<1>14. ASSUME NEW d \in {"serial", "vga"}, NEW w, FixedName(d, w) PROVE FixedName(d, w)'
  <2>1. /\ Len(stack') \in Len(stack) - 1 .. Len(stack) + 1
        /\ ~(Len(stack') >= Len(stack)) /\ ~(Len(stack') > Len(stack))
    BY <1>7
  <2>2. Listed' \subseteq Listed
    BY <1>2
  <2> QED BY <1>1, <1>4, <1>7, <1>10, <1>12, <1>14, <2>1, <2>2, FixedStays DEF FixedName
<1> QED BY <1>5, <1>6, <1>10, <1>11, <1>12, <1>13, <1>14 DEF StackInv, NamesInv

(* device_deregister, one subdevice at a time, then the device. *)
LEMMA DeregisterKeeps ==
    ASSUME StackInv, NamesInv, DeregisterStep
    PROVE  StackInv' /\ NamesInv'
<1>1. /\ stack # <<>> /\ Top.fn = "deregister"
      /\ UNCHANGED <<drivers, disabled, firstProbe>>
  BY DEF DeregisterStep, Running, Idle
<1>2. CASE Top.dev \notin Listed
  <2>1. Return /\ SameDevices
    BY <1>1, <1>2 DEF DeregisterStep, Listed, SameDevices
  <2> QED BY <1>1, <2>1, QuietReturn
<1>3. CASE Top.dev \in Listed /\ Top.at < Len(Doomed(Top.dev))
  <2>1. SameDevices
    BY <1>1, <1>3 DEF DeregisterStep, Listed, SameDevices
  <2>2. /\ Top \in Activations /\ Top.at \in Nat /\ Top.dev \in Known
        /\ dev[Top.dev].subdevices \in Seq(Nat) /\ Len(dev[Top.dev].subdevices) \in Nat
    <3>1. Top \in Activations /\ Top.at \in Nat /\ Top.dev \in Known
      BY <1>1, <1>3, TopFacts DEF StackInv, ListsTyped
    <3>2. dev[Top.dev].subdevices \in Seq(Nat)
      BY <3>1, DeviceFacts DEF StackInv
    <3> QED BY <3>1, <3>2
  <2>3. dev[Top.dev].type = "framebuffer"
    <3>1. dev[Top.dev].subdevices # <<>>
      BY <1>3, <2>2 DEF Doomed
    <3> QED BY <2>2, <3>1 DEF StackInv, DevicesTyped
  <2>4. Top.at + 1 \in Nat /\ [Top EXCEPT !.at = @ + 1] = [Top EXCEPT !.at = Top.at + 1]
    BY <2>2
  <2>5. PICK fr \in Activations : fr = [Top EXCEPT !.at = @ + 1]
    BY <1>1, <2>4, TopFacts
  <2>6. fr.fn = "deregister" /\ fr.drv = Top.drv /\ fr.dev = Top.dev /\ fr.at = Top.at + 1 /\ fr.at >= Top.at
    BY <1>1, <2>2, <2>5 DEF Activations
  <2>7. Doomed(Top.dev)[Top.at + 1] \in Nat
    <3>1. Top.at + 1 \in 1 .. Len(dev[Top.dev].subdevices)
      BY <1>3, <2>2 DEF Doomed
    <3>2. PICK s \in Seq(Nat) : s = dev[Top.dev].subdevices
      BY <2>2
    <3>3. s[Top.at + 1] \in Nat
      BY <3>1, <3>2
    <3> QED BY <3>2, <3>3 DEF Doomed
  <2>8. PICK g \in Activations : g = Frame("deregister", None, Doomed(Top.dev)[Top.at + 1], 0, NoDevice)
    BY <2>7 DEF Activations, Frame, NoDevice
  <2>9. g.fn = "deregister"
    BY <2>8 DEF Frame
  <2>10. FrameTyped(fr)' /\ FrameTyped(g)'
    BY <2>6, <2>9 DEF FrameTyped
  <2>11. Known' = Known /\ dev' = dev
    BY <2>1 DEF SameDevices, Known
  <2>12. Follows(fr, g)'
    BY <2>2, <2>3, <2>6, <2>9, <2>11 DEF Follows
  <2>13. Call(fr, g)
    BY <1>3, <2>5, <2>8 DEF DeregisterStep, Listed
  <2> QED BY <1>1, <2>1, <2>6, <2>9, <2>10, <2>12, <2>13, QuietCall
<1>4. CASE Top.dev \in Listed /\ ~(Top.at < Len(Doomed(Top.dev)))
  <2>1. /\ dev' = [dev EXCEPT ![Top.dev].subdevices = <<>>]
        /\ devices' = RemoveFirst(devices, Top.dev) /\ Return
    BY <1>4 DEF DeregisterStep, Listed
  <2> QED BY <1>1, <1>4, <2>1, RemovalKeeps
<1> QED BY <1>2, <1>3, <1>4

(* Nothing is under way any more, or not yet. *)
LEMMA EmptyStack ==
    ASSUME StackInv, NamesInv, UNCHANGED <<drivers, devices, dev, disabled>>, stack' = <<>>,
           firstProbe' \in [Drivers -> BOOLEAN], \A d \in Drivers : ~firstProbe'[d]
    PROVE  StackInv' /\ NamesInv'
<1>1. drivers' = drivers /\ devices' = devices /\ dev' = dev /\ disabled' = disabled
  OBVIOUS
<1>2. Listed' = Listed /\ Known' = Known
  BY <1>1 DEF Listed, Known
<1>3. DevicesTyped' /\ ListsTyped' /\ UniqueNames'
  BY <1>1, <1>2 DEF StackInv, NamesInv, DevicesTyped, ListsTyped, UniqueNames
<1>4. stack' \in Seq(Activations) /\ Len(stack') = 0
  OBVIOUS
<1>5. StackTyped' /\ Removals' /\ FirstOnly'
  BY <1>4 DEF StackTyped, Removals, FirstOnly
<1>6. ASSUME NEW d \in {"serial", "vga"}, NEW w, FixedName(d, w) PROVE FixedName(d, w)'
  BY <1>1, <1>2, <1>4, <1>6 DEF FixedName, Numbered
<1> QED BY <1>3, <1>5, <1>6 DEF StackInv, NamesInv
----------------------------------------------------------------------------
(* The loops of driver_first_probe and driver_probe_for. *)

(* Behind a device of the list, and before the first, stands one of the list or none. *)
LEMMA NextFacts ==
    ASSUME StackInv, NEW i \in Listed \cup {NoDevice}
    PROVE  NextDevice(i) \in Listed \cup {NoDevice}
<1>1. devices \in Seq(Nat) /\ Listed = {devices[j] : j \in 1 .. Len(devices)} /\ Len(devices) \in Nat
      /\ DOMAIN devices = 1 .. Len(devices) /\ \A j \in 1 .. Len(devices) : devices[j] \in Listed
  BY ElementsOf DEF StackInv, ListsTyped, Listed
<1> DEFINE k == IF i = NoDevice THEN 0 ELSE CHOOSE j \in DOMAIN devices : devices[j] = i
<1>2. k \in 0 .. Len(devices)
  <2>1. CASE i = NoDevice
    BY <1>1, <2>1
  <2>2. CASE i # NoDevice
    <3>1. \E j \in DOMAIN devices : devices[j] = i
      BY <1>1, <2>2
    <3>2. k \in DOMAIN devices
      BY <2>2, <3>1
    <3> HIDE DEF k
    <3> QED BY <1>1, <3>2
  <2> QED BY <2>1, <2>2
<1>3. NextDevice(i) = IF k < Len(devices) THEN devices[k + 1] ELSE NoDevice
  BY DEF NextDevice
<1> HIDE DEF k
<1>4. k < Len(devices) => k + 1 \in 1 .. Len(devices)
  BY <1>1, <1>2
<1> QED BY <1>1, <1>3, <1>4

(* driver_first_probe. *)
LEMMA FirstKeeps ==
    ASSUME StackInv, NamesInv, FirstStep
    PROVE  StackInv' /\ NamesInv'
<1>1. stack # <<>> /\ Top.fn = "first" /\ UNCHANGED <<drivers, devices, dev, disabled>>
  BY DEF FirstStep, Running, Idle
<1>2. /\ Top \in Activations /\ FirstTyped(Top) /\ Len(stack) = 1 /\ Top = stack[1]
      /\ Top.at \in Nat /\ Top.dev \in Nat /\ Top.drv \in ToSet(drivers) /\ Top.drv \in Drivers
      /\ Top.dev \in Listed \cup {NoDevice}
  <2>1. Top \in Activations /\ FrameTyped(Top) /\ Len(stack) = 1 /\ Top = stack[Len(stack)]
    BY <1>1, TopFacts
  <2>2. drivers \in Seq(Drivers)
    BY DEF StackInv, ListsTyped
  <2>3. ToSet(drivers) \subseteq Drivers
    BY <2>2, ElementsOf
  <2> QED BY <1>1, <2>1, <2>3 DEF FrameTyped, FirstTyped, Activations
<1>3. PICK d \in ToSet(drivers) : d = Top.drv
  BY <1>2
<1>4. NextDevice(Top.dev) \in Listed \cup {NoDevice} /\ Listed \subseteq Known /\ Known \subseteq Nat
  BY <1>2, NextFacts DEF StackInv, ListsTyped, Known
<1>5. PICK i \in Known \cup {NoDevice} : i = NextDevice(Top.dev)
  BY <1>4
<1>6. i \in Listed \cup {NoDevice} /\ i \in Nat
  BY <1>4, <1>5 DEF NoDevice
<1>7. CASE Loops(d) /\ i # NoDevice
  <2>1. SameDevices
    BY <1>1, <1>3, <1>5, <1>7 DEF FirstStep, Loops, SameDevices
  <2>2. PICK fr \in Activations : fr = [Top EXCEPT !.dev = i]
    BY <1>1, <1>6, TopFacts
  <2>3. fr.fn = "first" /\ fr.drv = d /\ fr.dev = i /\ fr.at = Top.at /\ fr.at >= Top.at
    BY <1>1, <1>2, <1>3, <2>2 DEF Activations
  <2>4. FrameTyped(fr)'
    <3>1. FirstTyped(fr)
      BY <1>2, <1>3, <1>6, <1>7, <2>3 DEF FirstTyped
    <3>2. Listed' = Listed /\ drivers' = drivers /\ disabled' = disabled /\ firstProbe' = firstProbe
      BY <2>1 DEF SameDevices, Listed
    <3>3. FirstTyped(fr)'
      BY <3>1, <3>2 DEF FirstTyped
    <3> QED BY <2>3, <3>3 DEF FrameTyped
  <2>5. CASE DependsOn(d, i)
    <3>1. PICK g \in Activations : g = Probe(d, i)
      BY <2>1, ProbeFrame
    <3>2. FrameTyped(g)' /\ g.fn = "probe" /\ g.drv = d /\ g.dev = i
      <4>1. FrameTyped(Probe(d, i))' /\ g.fn = "probe" /\ g.drv = d /\ g.dev = i
        BY <2>1, <3>1, ProbeFrame
      <4> QED BY <3>1, <4>1
    <3>3. Follows(fr, g)'
      BY <1>1, <1>7, <2>3, <2>5, <3>2 DEF Follows, DependsOn
    <3>4. Call(fr, g)
      BY <1>3, <1>5, <1>7, <2>2, <2>5, <3>1 DEF FirstStep, Loops
    <3> QED BY <1>1, <1>2, <1>3, <1>7, <2>1, <2>3, <2>4, <3>2, <3>3, <3>4, QuietCall
  <2>6. CASE ~DependsOn(d, i)
    <3>1. Continue(fr)
      BY <1>3, <1>5, <1>7, <2>2, <2>6 DEF FirstStep, Loops
    <3> QED BY <1>1, <1>2, <1>3, <2>1, <2>3, <2>4, <3>1, QuietContinue
  <2> QED BY <2>5, <2>6
<1>8. CASE ~Loops(d) /\ Top.at = 0
  <2>1. SameDevices /\ Call([Top EXCEPT !.at = 1], Probe(d, NoDevice))
    BY <1>1, <1>3, <1>8 DEF FirstStep, Loops, SameDevices
  <2>2. PICK fr \in Activations : fr = [Top EXCEPT !.at = 1]
    BY <1>1, TopFacts
  <2>3. fr.fn = "first" /\ fr.drv = d /\ fr.dev = NoDevice /\ fr.at = 1 /\ fr.at >= Top.at /\ fr.dev = Top.dev
    BY <1>1, <1>2, <1>3, <1>8, <2>2 DEF Activations, FirstTyped
  <2>4. FrameTyped(fr)'
    <3>1. FirstTyped(fr)
      BY <1>2, <1>3, <2>3 DEF FirstTyped
    <3>2. Listed' = Listed /\ drivers' = drivers /\ disabled' = disabled /\ firstProbe' = firstProbe
      BY <2>1 DEF SameDevices, Listed
    <3>3. FirstTyped(fr)'
      BY <3>1, <3>2 DEF FirstTyped
    <3> QED BY <2>3, <3>3 DEF FrameTyped
  <2>5. PICK g \in Activations : g = Probe(d, NoDevice)
    BY <2>1, ProbeFrame
  <2>6. FrameTyped(g)' /\ g.fn = "probe" /\ g.drv = d /\ g.dev = NoDevice
    <3>1. FrameTyped(Probe(d, NoDevice))' /\ g.fn = "probe" /\ g.drv = d /\ g.dev = NoDevice
      BY <2>1, <2>5, ProbeFrame
    <3> QED BY <2>5, <3>1
  <2>7. Follows(fr, g)'
    BY <1>8, <2>3, <2>6 DEF Follows
  <2> QED BY <1>1, <1>2, <1>3, <1>8, <2>1, <2>2, <2>3, <2>4, <2>5, <2>6, <2>7, QuietCall
<1>9. CASE ~(Loops(d) /\ i # NoDevice) /\ ~(~Loops(d) /\ Top.at = 0)
  <2>1. Return /\ firstProbe' = [firstProbe EXCEPT ![d] = FALSE]
    BY <1>3, <1>5, <1>9 DEF FirstStep, Loops
  <2>2. stack' = <<>>
    <3>1. stack \in Seq(Activations)
      BY DEF StackInv, StackTyped
    <3> QED BY <1>2, <2>1, <3>1 DEF Return, Front
  <2>3. firstProbe' \in [Drivers -> BOOLEAN] /\ \A e \in Drivers : ~firstProbe'[e]
    <3>1. firstProbe \in [Drivers -> BOOLEAN]
      BY DEF StackInv, ListsTyped
    <3>2. \A e \in Drivers : e # d => ~firstProbe[e]
      BY <1>2, <1>3 DEF StackInv, FirstOnly
    <3> QED BY <1>2, <1>3, <2>1, <3>1, <3>2
  <2> QED BY <1>1, <2>2, <2>3, EmptyStack
<1> QED BY <1>7, <1>8, <1>9

(* driver_probe_for, which probes with no device. *)
LEMMA ProbeForKeeps ==
    ASSUME StackInv, NamesInv, ProbeForStep
    PROVE  StackInv' /\ NamesInv'
<1>1. stack # <<>> /\ Top.fn = "probeFor" /\ SameDevices
  BY DEF ProbeForStep, Running, Idle, SameDevices
<1>2. /\ Top \in Activations /\ Top.at \in Nat /\ Top.at <= Len(drivers)
      /\ drivers' = drivers /\ Len(drivers) \in Nat
  BY <1>1, TopFacts, ElementsOf DEF FrameTyped, SameDevices, StackInv, ListsTyped
<1>3. CASE Top.at = Len(drivers)
  BY <1>1, <1>3, QuietReturn DEF ProbeForStep
<1>4. CASE Top.at # Len(drivers)
  <2>1. Top.at + 1 \in Nat /\ [Top EXCEPT !.at = @ + 1] = [Top EXCEPT !.at = Top.at + 1]
    BY <1>2
  <2>2. PICK fr \in Activations : fr = [Top EXCEPT !.at = @ + 1]
    BY <1>1, <2>1, TopFacts
  <2>3. fr.fn = "probeFor" /\ fr.drv = Top.drv /\ fr.dev = Top.dev /\ fr.at = Top.at + 1
    BY <1>1, <1>2, <2>2 DEF Activations
  <2>4. FrameTyped(fr)' /\ fr.at >= Top.at
    BY <1>2, <1>4, <2>3 DEF FrameTyped
  <2>5. PICK d \in ToSet(drivers) : d = drivers[Top.at + 1]
    <3>1. Top.at + 1 \in 1 .. Len(drivers)
      BY <1>2, <1>4
    <3> QED BY <3>1, ElementsOf DEF StackInv, ListsTyped
  <2>6. CASE Attr[d].typeFor = Top.drv
    <3>1. PICK g \in Activations : g = Probe(d, NoDevice)
      BY <1>1, ProbeFrame
    <3>2. FrameTyped(g)' /\ g.fn = "probe" /\ g.dev = NoDevice
      <4>1. FrameTyped(Probe(d, NoDevice))' /\ g.fn = "probe" /\ g.dev = NoDevice
        BY <1>1, <3>1, ProbeFrame
      <4> QED BY <3>1, <4>1
    <3>3. Follows(fr, g)'
      BY <2>3, <3>2 DEF Follows
    <3>4. Call(fr, g)
      BY <1>4, <2>2, <2>5, <2>6, <3>1 DEF ProbeForStep
    <3> QED BY <1>1, <2>3, <2>4, <3>2, <3>3, <3>4, QuietCall
  <2>7. CASE Attr[d].typeFor # Top.drv
    <3>1. Continue(fr)
      BY <1>4, <2>2, <2>5, <2>7 DEF ProbeForStep
    <3> QED BY <1>1, <2>3, <2>4, <3>1, QuietContinue
  <2> QED BY <2>6, <2>7
<1> QED BY <1>3, <1>4
----------------------------------------------------------------------------
(* Steps that make a device. *)

(* The first probe of a driver that depends on no type is called by nothing else. *)
LEMMA ProbeDepth ==
    ASSUME StackInv, stack # <<>>, Top.fn = "probe", Top.drv \in {"serial", "vga", "vesa", "bdrive"},
           firstProbe[Top.drv]
    PROVE  Len(stack) = 2
<1>1. /\ Len(stack) \in Nat \ {0} /\ Len(stack) # 1
      /\ Top.drv \in Drivers /\ Attr[Top.drv].dependsOn = None
  BY TopFacts, TreeFacts
<1>2. Len(stack) > 1 /\ Len(stack) - 1 \in 1 .. Len(stack)
  <2>1. \A n \in Nat \ {0} : n # 1 => n > 1 /\ n - 1 \in 1 .. n
    OBVIOUS
  <2> QED BY <1>1, <2>1
<1>3. PICK k \in 1 .. Len(stack) : k = Len(stack) - 1
  BY <1>2
<1>4. FrameTyped(stack[k]) /\ Follows(stack[k], Top)
  BY <1>2, <1>3, TopFacts
<1>5. stack[1].fn = "first"
  BY <1>1 DEF StackInv, FirstOnly
<1>6. stack[k].fn \in {"first", "probeFor"} => k = 1
  BY DEF StackInv, StackTyped
<1>7. stack[k].fn # "register"
  <2>1. SUFFICES ASSUME stack[k].fn = "register" PROVE FALSE
    OBVIOUS
  <2>2. stack[k].dev \in Known
    BY <1>4, <2>1 DEF FrameTyped
  <2>3. dev[stack[k].dev].type \in Types
    BY <2>2, DeviceFacts DEF StackInv
  <2>4. DependsOn(Top.drv, stack[k].dev)
    BY <1>4, <2>1 DEF Follows, Takes
  <2> QED BY <1>1, <2>3, <2>4, TreeFacts DEF DependsOn
<1>8. stack[k].fn \in {"first", "probeFor"}
  BY <1>4, <1>7 DEF Follows, Takes
<1> QED BY <1>1, <1>3, <1>6, <1>8

(* A probe registers a device with a name of its own. *)
LEMMA MakeKeeps ==
    ASSUME StackInv, NamesInv, stack # <<>>, Top.fn = "probe", Top.drv \in TreeDrivers,
           NEW fr \in Activations, NEW table \in Seq(Machines), NEW new \in Machines,
           device_register(fr, table, new), UNCHANGED <<drivers, disabled, firstProbe>>,
           Len(table) = Len(dev),
           \A i \in Known : /\ table[i].name = dev[i].name /\ table[i].type = dev[i].type
                            /\ table[i].type # "framebuffer" => table[i].subdevices = <<>>,
           new.name \in NamesOf(new.type), new.type = Makes(Top.drv),
           new.type # "framebuffer" => new.subdevices = <<>>,
           \A i \in Listed : dev[i].name # new.name,
           fr.fn = "probe", fr.drv = Top.drv, fr.dev = Top.dev, FrameTyped(fr)',
           Top.drv \in {"serial", "vga"} => fr.at >= Top.at,
           Top.drv = "fbcon" => Takes(fr),
           new.name[1] = "sp" => Top.drv = "serial" /\ firstProbe["serial"] /\ new.name[2] < fr.at,
           new.name[1] = "vga" => Top.drv = "vga" /\ firstProbe["vga"] /\ new.name[2] < fr.at
    PROVE  StackInv' /\ NamesInv'
<1>1. /\ dev' = Append(table, new) /\ devices' = Append(devices, NewId)
      /\ Call(fr, Frame("register", None, NewId, 0, NoDevice))
      /\ drivers' = drivers /\ disabled' = disabled /\ firstProbe' = firstProbe
  BY DEF device_register
<1>2. Len(dev) \in Nat
  BY DeviceFacts DEF StackInv
<1>3. /\ dev' \in Seq(Machines) /\ Len(dev') = Len(dev) + 1 /\ dev'[Len(dev) + 1] = new
      /\ \A i \in 1 .. Len(dev) : dev'[i] = table[i]
  BY <1>1, <1>2, ElementsOf
<1>4. /\ Known \subseteq Known' /\ Known' = Known \cup {NewId} /\ NewId \in Known' /\ NewId \notin Known
      /\ NewId \in Nat
  BY <1>2, <1>3 DEF Known, NewId
<1>5. /\ \A i \in Known : dev'[i].name = dev[i].name /\ dev'[i].type = dev[i].type
      /\ dev'[NewId] = new
  BY <1>3 DEF Known, NewId
<1>6. SameWorld
  <2>1. Len(dev') \in Nat /\ Len(dev) <= Len(dev')
    BY <1>2, <1>3
  <2> QED BY <1>1, <1>2, <1>5, <2>1 DEF SameWorld
<1>7. DevicesTyped'
  <2>1. ASSUME NEW i \in Known'
        PROVE  /\ dev'[i].name \in NamesOf(dev'[i].type)
               /\ dev'[i].type # "framebuffer" => dev'[i].subdevices = <<>>
    <3>1. CASE i \in Known
      BY <1>3, <1>5, <3>1, DeviceFacts DEF StackInv, Known
    <3>2. CASE i = NewId
      BY <1>5, <3>2
    <3> QED BY <1>4, <2>1, <3>1, <3>2
  <2> QED BY <1>3, <2>1 DEF DevicesTyped
<1>8. /\ devices \in Seq(Nat) /\ Listed \subseteq Known
      /\ \A a, b \in 1 .. Len(devices) : devices[a] = devices[b] => a = b
  BY DEF StackInv, ListsTyped
<1>9. /\ devices' \in Seq(Nat) /\ Listed' = Listed \cup {NewId} /\ Len(devices') = Len(devices) + 1
      /\ devices'[Len(devices) + 1] = NewId /\ Len(devices) \in Nat
      /\ \A a \in 1 .. Len(devices) : devices'[a] = devices[a] /\ devices[a] \in Listed
  <2>1. PICK n \in Nat : n = NewId
    BY <1>4
  <2>2. devices' = Append(devices, n)
    BY <1>1, <2>1
  <2>3. /\ Len(devices) \in Nat /\ Append(devices, n) \in Seq(Nat)
        /\ ToSet(Append(devices, n)) = ToSet(devices) \cup {n}
        /\ \A k \in 1 .. Len(devices) : devices[k] \in ToSet(devices)
    BY <1>8, ElementsOf
  <2>4. /\ Len(Append(devices, n)) = Len(devices) + 1 /\ Append(devices, n)[Len(devices) + 1] = n
        /\ \A k \in 1 .. Len(devices) : Append(devices, n)[k] = devices[k]
    BY <1>8
  <2> QED BY <2>1, <2>2, <2>3, <2>4 DEF Listed
<1>10. ListsTyped'
  <2>1. ASSUME NEW a \in 1 .. Len(devices'), NEW b \in 1 .. Len(devices'), devices'[a] = devices'[b]
        PROVE  a = b
    <3>1. /\ a \in 1 .. Len(devices) \/ a = Len(devices) + 1
          /\ b \in 1 .. Len(devices) \/ b = Len(devices) + 1
      BY <1>9
    <3>2. NewId \notin Listed
      BY <1>4, <1>8
    <3>3. CASE a \in 1 .. Len(devices) /\ b \in 1 .. Len(devices)
      <4>1. devices[a] = devices[b]
        BY <1>9, <2>1, <3>3
      <4> QED BY <1>8, <3>3, <4>1
    <3>4. CASE a \in 1 .. Len(devices) /\ b = Len(devices) + 1
      BY <1>9, <2>1, <3>2, <3>4
    <3>5. CASE b \in 1 .. Len(devices) /\ a = Len(devices) + 1
      BY <1>9, <2>1, <3>2, <3>5
    <3> QED BY <3>1, <3>3, <3>4, <3>5
  <2>2. Listed' \subseteq Known'
    BY <1>4, <1>8, <1>9
  <2> QED BY <1>1, <1>9, <2>1, <2>2 DEF StackInv, ListsTyped
<1>11. PICK g \in Activations : g = Frame("register", None, NewId, 0, NoDevice)
  BY <1>4 DEF Activations, Frame, NoDevice
<1>12. g.fn = "register" /\ g.dev = NewId /\ g.at = 0
  BY <1>11 DEF Frame
<1>13. FrameTyped(g)'
  <2>1. Len(drivers') \in Nat
    BY <1>1, ElementsOf DEF StackInv, ListsTyped
  <2> QED BY <1>4, <1>12, <2>1 DEF FrameTyped
<1>14. Follows(fr, g)'
  BY <1>5, <1>12 DEF Follows, Takes
<1>15. Call(fr, g)
  BY <1>1, <1>11
<1>16. StackTyped' /\ Removals' /\ FirstOnly'
  BY <1>1, <1>6, <1>9, <1>12, <1>13, <1>14, <1>15, Called
<1>17. StackInv'
  BY <1>7, <1>10, <1>16 DEF StackInv
<1>18. UniqueNames'
  <2>1. \A i \in Listed : dev'[i].name = dev[i].name /\ dev'[i].name # dev'[NewId].name
    BY <1>5, <1>8
  <2>2. \A i, j \in Listed : dev[i].name = dev[j].name => i = j
    BY DEF NamesInv, UniqueNames, Listed
  <2>3. \A i, j \in Listed' : dev'[i].name = dev'[j].name => i = j
    BY <1>9, <2>1, <2>2
  <2> QED BY <2>3 DEF UniqueNames, Listed
<1>19. /\ Len(stack) \in Nat \ {0} /\ Len(stack') = Len(stack) + 1
       /\ \A k \in 1 .. Len(stack) - 1 : stack'[k] = stack[k]
       /\ stack'[Len(stack)] = fr
  BY <1>15, CallLeaves DEF StackInv, StackTyped
<1>20. ASSUME NEW d \in {"serial", "vga"}, NEW w, FixedName(d, w),
              new.name[1] = w => Top.drv = d /\ firstProbe[d] /\ new.name[2] < fr.at
       PROVE  FixedName(d, w)'
  <2>1. Len(stack') \in Len(stack) - 1 .. Len(stack) + 1
    BY <1>19
  <2>2. \A i \in Listed : Numbered(d, w, i)'
    BY <1>1, <1>6, <1>16, <1>19, <1>20, <2>1, FixedStays
  <2>3. ASSUME NEW i \in {NewId} PROVE Numbered(d, w, i)'
    <3>1. SUFFICES ASSUME new.name[1] = w
                   PROVE  d \in ToSet(drivers') /\ Len(stack') > 1 /\ Len(stack') # 1
                          /\ new.name[2] < stack'[2].at
      BY <1>5, <2>3 DEF Numbered
    <3>2. Top.drv = d /\ firstProbe[d] /\ new.name[2] < fr.at
      BY <1>20, <3>1
    <3>3. Len(stack) = 2
      BY <3>2, ProbeDepth
    <3>4. d \in ToSet(drivers)
      BY <3>2, TopFacts DEF FrameTyped, ProbeTyped
    <3> QED BY <1>1, <1>19, <3>2, <3>3, <3>4
  <2> QED BY <1>9, <2>2, <2>3 DEF FixedName
<1> QED BY <1>17, <1>18, <1>20 DEF NamesInv
----------------------------------------------------------------------------
(* The probes. *)

(* A probe under way. *)
LEMMA ProbingFacts ==
    ASSUME StackInv, NEW d, Probing(d)
    PROVE  /\ stack # <<>> /\ Top.fn = "probe" /\ Top.drv = d /\ Top \in Activations
           /\ ProbeTyped(Top) /\ Top.at \in Nat /\ Top.dev \in Known \cup {NoDevice}
           /\ d = "fat" /\ Top.dev # NoDevice => dev[Top.dev].type = "block"
<1>1. stack # <<>> /\ Top.fn = "probe" /\ Top.drv = d
  BY DEF Probing, Running, Idle
<1>2. Top \in Activations /\ ProbeTyped(Top) /\ Top.at \in Nat
  BY <1>1, TopFacts DEF FrameTyped
<1>3. Top.dev \in Known \cup {NoDevice}
  BY <1>2 DEF ProbeTyped
<1>4. ASSUME d = "fat", Top.dev # NoDevice PROVE dev[Top.dev].type = "block"
  <2>1. Len(stack) \in Nat \ {0} /\ Len(stack) # 1
    BY <1>1, TopFacts
  <2>2. Len(stack) > 1
    <3>1. \A n \in Nat \ {0} : n # 1 => n > 1
      OBVIOUS
    <3> QED BY <2>1, <3>1
  <2>3. Follows(stack[Len(stack) - 1], Top)
    BY <1>1, <2>2, TopFacts
  <2> QED BY <1>1, <1>4, <2>3, TreeFacts DEF Follows, DependsOn, Takes
<1> QED BY <1>1, <1>2, <1>3, <1>4

(* A probe that returns, goes round its loop, or fails its assertion. *)
LEMMA QuietProbe ==
    ASSUME StackInv, NamesInv, NEW d, Probing(d), Done \/ Panic \/ (d # "fbcon" /\ Skip)
    PROVE  StackInv' /\ NamesInv'
<1>1. /\ stack # <<>> /\ Top.fn = "probe" /\ Top.drv = d /\ Top \in Activations
      /\ ProbeTyped(Top) /\ Top.at \in Nat
  BY ProbingFacts
<1>2. CASE Done
  BY <1>1, <1>2, QuietReturn DEF Done, SameDevices
<1>3. CASE Panic
  BY <1>3, NothingMoves DEF Panic, SameDevices
<1>4. CASE d # "fbcon" /\ Skip
  <2>1. SameDevices
    BY <1>4 DEF Skip, SameDevices
  <2>2. Top.at + 1 \in Nat /\ [Top EXCEPT !.at = @ + 1] = [Top EXCEPT !.at = Top.at + 1]
    BY <1>1
  <2>3. PICK fr \in Activations : fr = [Top EXCEPT !.at = @ + 1]
    BY <1>1, <2>2, TopFacts
  <2>4. /\ fr.fn = "probe" /\ fr.drv = Top.drv /\ fr.dev = Top.dev /\ fr.at = Top.at + 1 /\ fr.at >= Top.at
    BY <1>1, <2>3 DEF Activations
  <2>5. FrameTyped(fr)'
    BY <1>1, <1>4, <2>1, <2>4 DEF FrameTyped, ProbeTyped, Takes, SameDevices, Known
  <2> QED BY <1>1, <1>4, <2>1, <2>3, <2>4, <2>5, QuietContinue DEF Skip
<1> QED BY <1>2, <1>3, <1>4

(* A probe makes a device. *)
LEMMA ProbeMakes ==
    ASSUME StackInv, NamesInv, NEW d \in TreeDrivers \ {"fbcon"}, Probing(d),
           NEW type \in Types, NEW name \in NamesOf(type), NEW unit \in Nat, NEW subs \in Seq(Nat),
           Make(Device(name, type, unit, subs)), type = Makes(d),
           type # "framebuffer" => subs = <<>>,
           \A i \in Listed : dev[i].name # name,
           name[1] = "sp" => d = "serial" /\ firstProbe["serial"] /\ name[2] < Top.at + 1,
           name[1] = "vga" => d = "vga" /\ firstProbe["vga"] /\ name[2] < Top.at + 1
    PROVE  StackInv' /\ NamesInv'
<1>1. /\ stack # <<>> /\ Top.fn = "probe" /\ Top.drv = d /\ Top \in Activations
      /\ ProbeTyped(Top) /\ Top.at \in Nat
  BY ProbingFacts
<1>2. PICK new \in Machines : new = Device(name, type, unit, subs)
  BY DEF Machines, Device
<1>3. new.name = name /\ new.type = type /\ new.subdevices = subs
  BY <1>2 DEF Device
<1>4. Top.at + 1 \in Nat /\ [Top EXCEPT !.at = @ + 1] = [Top EXCEPT !.at = Top.at + 1]
  BY <1>1
<1>5. PICK fr \in Activations : fr = [Top EXCEPT !.at = @ + 1]
  BY <1>1, <1>4, TopFacts
<1>6. /\ fr.fn = "probe" /\ fr.drv = Top.drv /\ fr.dev = Top.dev /\ fr.at = Top.at + 1 /\ fr.at >= Top.at
  BY <1>1, <1>5 DEF Activations
<1>7. PICK table \in Seq(Machines) : table = dev
  BY DEF StackInv, DevicesTyped
<1>8. /\ device_register(fr, table, new) /\ UNCHANGED <<drivers, disabled, firstProbe>>
      /\ dev' = Append(table, new)
  BY <1>2, <1>5, <1>7 DEF Make, device_register
<1>9. FrameTyped(fr)'
  <2>1. Len(table) \in Nat /\ Len(dev') = Len(dev) + 1 /\ Len(table) = Len(dev)
    BY <1>7, <1>8, ElementsOf
  <2>2. Known \subseteq Known'
    BY <2>1 DEF Known
  <2>3. fr.drv \in ToSet(drivers)' /\ fr.dev \in Known' \cup {NoDevice}
    BY <1>1, <1>6, <1>8, <2>2 DEF ProbeTyped
  <2> QED BY <1>1, <1>6, <2>3 DEF FrameTyped, ProbeTyped, Takes
<1>10. /\ Len(table) = Len(dev)
       /\ \A i \in Known : /\ table[i].name = dev[i].name /\ table[i].type = dev[i].type
                           /\ table[i].type # "framebuffer" => table[i].subdevices = <<>>
  BY <1>7 DEF StackInv, DevicesTyped
<1>11. /\ new.name \in NamesOf(new.type) /\ new.type = Makes(Top.drv)
       /\ new.type # "framebuffer" => new.subdevices = <<>>
       /\ \A i \in Listed : dev[i].name # new.name
       /\ new.name[1] = "sp" => Top.drv = "serial" /\ firstProbe["serial"] /\ new.name[2] < fr.at
       /\ new.name[1] = "vga" => Top.drv = "vga" /\ firstProbe["vga"] /\ new.name[2] < fr.at
  BY <1>1, <1>3, <1>6
<1>12. Top.drv \in TreeDrivers /\ Top.drv # "fbcon"
  BY <1>1
<1> QED BY <1>1, <1>6, <1>8, <1>9, <1>10, <1>11, <1>12, MakeKeeps

(* A probe makes a device with a numbered name. *)
LEMMA ProbeNumbers ==
    ASSUME StackInv, NamesInv, NEW d \in TreeDrivers \ {"fbcon"}, Probing(d),
           NEW prefix \in Seq(Part), NEW type \in Types, NEW unit \in Nat, NEW subs \in Seq(Nat),
           \A n \in Nat : Append(prefix, n) \in NamesOf(type), prefix # <<>>,
           prefix[1] \notin {"sp", "vga"},
           MakeNumbered(prefix, type, unit, subs), type = Makes(d),
           type # "framebuffer" => subs = <<>>
    PROVE  StackInv' /\ NamesInv'
<1>1. CASE SuffixFails(prefix)
  BY <1>1, QuietProbe DEF MakeNumbered
<1>2. CASE ~SuffixFails(prefix)
  <2>1. /\ FirstAvailableSuffix(prefix) \in Nat
        /\ \A i \in Listed : dev[i].name # Append(prefix, FirstAvailableSuffix(prefix))
    BY <1>2, FreshSuffix
  <2>2. PICK n \in Nat : n = FirstAvailableSuffix(prefix)
    BY <2>1
  <2>3. PICK name \in NamesOf(type) : name = Append(prefix, n)
    OBVIOUS
  <2>4. name[1] = prefix[1]
    <3>1. Len(prefix) \in Nat /\ Len(prefix) # 0
      OBVIOUS
    <3>2. 1 \in 1 .. Len(prefix)
      BY <3>1
    <3> QED BY <2>3, <3>2
  <2>5. Make(Device(name, type, unit, subs))
    BY <1>2, <2>2, <2>3 DEF MakeNumbered
  <2> QED BY <2>1, <2>2, <2>3, <2>4, <2>5, ProbeMakes
<1> QED BY <1>1, <1>2

(* The names there are. *)
LEMMA NamesAre ==
    /\ NamesOf("char") = {<<"sp", k>> : k \in 0 .. 3}
    /\ NamesOf("con") = {<<"vga", 0>>} \cup {<<"fbcon", k>> : k \in Nat}
    /\ NamesOf("framebuffer") = {<<"vesafb", k>> : k \in Nat}
    /\ NamesOf("block") = {<<"hd", k>> : k \in Nat}
    /\ NamesOf("fs") = {<<"hd", k, "p", m>> : k \in Nat, m \in Nat}
    /\ "vesafb" \in Part /\ "hd" \in Part /\ "p" \in Part /\ "fbcon" \in Part /\ Nat \subseteq Part
BY DEF NamesOf, Part

(* A name with one part more. *)
LEMMA LongerName ==
    /\ \A a, n \in Part : Append(<<a>>, n) = <<a, n>>
    /\ \A a, b, c, n \in Part : Append(<<a, b, c>>, n) = <<a, b, c, n>>
    /\ \A a, b, c \in Part : <<a, b>> \o <<c>> = <<a, b, c>>
<1> PICK S : S = Part
  OBVIOUS
<1>1. ASSUME NEW a \in S, NEW n \in S PROVE Append(<<a>>, n) = <<a, n>>
  <2>1. <<a>> \in Seq(S) /\ Append(<<a>>, n) \in Seq(S) /\ Len(Append(<<a>>, n)) = 2
        /\ Append(<<a>>, n)[1] = a /\ Append(<<a>>, n)[2] = n
    OBVIOUS
  <2>2. <<a, n>> \in Seq(S) /\ Len(<<a, n>>) = 2 /\ <<a, n>>[1] = a /\ <<a, n>>[2] = n
    OBVIOUS
  <2>3. \A i \in 1 .. 2 : Append(<<a>>, n)[i] = <<a, n>>[i]
    <3>1. \A i \in 1 .. 2 : i = 1 \/ i = 2
      OBVIOUS
    <3> QED BY <2>1, <2>2, <3>1
  <2> QED BY <2>1, <2>2, <2>3, SeqEqual
<1>2. ASSUME NEW a \in S, NEW b \in S, NEW c \in S, NEW n \in S
      PROVE  Append(<<a, b, c>>, n) = <<a, b, c, n>>
  <2>1. <<a, b, c>> \in Seq(S) /\ Append(<<a, b, c>>, n) \in Seq(S) /\ Len(Append(<<a, b, c>>, n)) = 4
        /\ Append(<<a, b, c>>, n)[1] = a /\ Append(<<a, b, c>>, n)[2] = b
        /\ Append(<<a, b, c>>, n)[3] = c /\ Append(<<a, b, c>>, n)[4] = n
    OBVIOUS
  <2>2. <<a, b, c, n>> \in Seq(S) /\ Len(<<a, b, c, n>>) = 4 /\ <<a, b, c, n>>[1] = a
        /\ <<a, b, c, n>>[2] = b /\ <<a, b, c, n>>[3] = c /\ <<a, b, c, n>>[4] = n
    OBVIOUS
  <2>3. \A i \in 1 .. 4 : Append(<<a, b, c>>, n)[i] = <<a, b, c, n>>[i]
    <3>1. \A i \in 1 .. 4 : i = 1 \/ i = 2 \/ i = 3 \/ i = 4
      OBVIOUS
    <3> QED BY <2>1, <2>2, <3>1
  <2> QED BY <2>1, <2>2, <2>3, SeqEqual
<1>3. ASSUME NEW a \in S, NEW b \in S, NEW c \in S
      PROVE  <<a, b>> \o <<c>> = <<a, b, c>>
  <2>1. <<a, b>> \in Seq(S) /\ Len(<<a, b>>) = 2 /\ <<a, b>>[1] = a /\ <<a, b>>[2] = b
        /\ <<c>> \in Seq(S) /\ Len(<<c>>) = 1 /\ <<c>>[1] = c
    OBVIOUS
  <2>2. PICK u \in Seq(S) : u = <<a, b>>
    BY <2>1
  <2>3. PICK v \in Seq(S) : v = <<c>>
    BY <2>1
  <2>4. /\ u \o v \in Seq(S) /\ Len(u \o v) = 3
        /\ (u \o v)[1] = a /\ (u \o v)[2] = b /\ (u \o v)[3] = c
    BY <2>1, <2>2, <2>3
  <2>5. <<a, b, c>> \in Seq(S) /\ Len(<<a, b, c>>) = 3 /\ <<a, b, c>>[1] = a
        /\ <<a, b, c>>[2] = b /\ <<a, b, c>>[3] = c
    OBVIOUS
  <2>6. \A i \in 1 .. 3 : (u \o v)[i] = <<a, b, c>>[i]
    <3>1. \A i \in 1 .. 3 : i = 1 \/ i = 2 \/ i = 3
      OBVIOUS
    <3> QED BY <2>4, <2>5, <3>1
  <2> QED BY <2>2, <2>3, <2>4, <2>5, <2>6, SeqEqual
<1> QED BY <1>1, <1>2, <1>3

(* serial.c: the ports have numbers of their own. *)
LEMMA SerialKeeps ==
    ASSUME StackInv, NamesInv, SerialProbe
    PROVE  StackInv' /\ NamesInv'
<1>1. /\ Probing("serial")
      /\ IF firstProbe["serial"] /\ Top.at < 4
         THEN Make(Device(<<"sp", Top.at>>, "char", 0, <<>>))
         ELSE Done
  BY DEF SerialProbe
<1>2. CASE firstProbe["serial"] /\ Top.at < 4
  <2>1. PICK n \in Nat : n = Top.at
    BY <1>1, ProbingFacts
  <2>2. PICK name \in NamesOf("char") : name = <<"sp", n>>
    <3>1. n \in 0 .. 3
      BY <1>2, <2>1
    <3> QED BY <3>1, NamesAre
  <2>3. PICK type \in Types : type = "char"
    BY DEF Types
  <2>4. PICK unit \in Nat, subs \in Seq(Nat) : unit = 0 /\ subs = <<>>
    <3>1. <<>> \in Seq(Nat) /\ 0 \in Nat
      OBVIOUS
    <3> QED BY <3>1
  <2>5. Make(Device(name, type, unit, subs))
    BY <1>1, <1>2, <2>1, <2>2, <2>3, <2>4
  <2>10. /\ name[1] = "sp" => firstProbe["serial"] /\ name[2] < Top.at + 1
         /\ name[1] # "vga" /\ type # "framebuffer"
    BY <1>2, <2>1, <2>2, <2>3
  <2>6. name[1] = "sp" /\ name[2] = n /\ n < Top.at + 1
    BY <2>1, <2>2
  \* Those that are there have numbers below.
  <2>7. Len(stack) = 2 /\ Top = stack[2] /\ Listed \subseteq Known
    <3>1. Len(stack) = 2 /\ Top = stack[Len(stack)]
      BY <1>1, <1>2, ProbingFacts, ProbeDepth, TopFacts
    <3> QED BY <3>1 DEF StackInv, ListsTyped
  <2>8. \A i \in Listed : dev[i].name # name
    <3>1. SUFFICES ASSUME NEW i \in Listed, dev[i].name = name PROVE FALSE
      OBVIOUS
    <3>2. dev[i].name[2] < stack[2].at
      BY <1>2, <2>6, <2>7, <3>1 DEF NamesInv, FixedName, Numbered
    <3> QED BY <2>1, <2>6, <2>7, <3>1, <3>2
  <2>9. type = Makes("serial") /\ "serial" \in TreeDrivers \ {"fbcon"} /\ type # "framebuffer"
    BY <2>3 DEF Makes, TreeDrivers
  <2>11. name \in NamesOf(type)
    BY <2>3
  <2>12. name[1] = "vga" => "serial" = "vga" /\ firstProbe["vga"] /\ name[2] < Top.at + 1
    BY <2>10
  <2>13. PICK d \in TreeDrivers \ {"fbcon"} : d = "serial"
    BY <2>9
  <2>14. /\ Probing(d) /\ type = Makes(d) /\ (type # "framebuffer" => subs = <<>>)
         /\ name[1] = "sp" => d = "serial" /\ firstProbe["serial"] /\ name[2] < Top.at + 1
         /\ name[1] = "vga" => d = "vga" /\ firstProbe["vga"] /\ name[2] < Top.at + 1
    BY <1>1, <2>4, <2>9, <2>10, <2>13
  <2> QED BY <2>5, <2>8, <2>11, <2>14, ProbeMakes
<1>3. CASE ~(firstProbe["serial"] /\ Top.at < 4)
  BY <1>1, <1>3, QuietProbe
<1> QED BY <1>2, <1>3

(* vga.c: there is one console, vga0. *)
LEMMA VgaKeeps ==
    ASSUME StackInv, NamesInv, VgaProbe
    PROVE  StackInv' /\ NamesInv'
<1>1. /\ Probing("vga")
      /\ IF firstProbe["vga"] /\ Top.at = 0
         THEN Make(Device(<<"vga", 0>>, "con", 0, <<>>))
         ELSE Done
  BY DEF VgaProbe
<1>2. CASE firstProbe["vga"] /\ Top.at = 0
  <2>1. PICK name \in NamesOf("con") : name = <<"vga", 0>>
    BY NamesAre
  <2>2. PICK type \in Types : type = "con"
    BY DEF Types
  <2>3. PICK unit \in Nat, subs \in Seq(Nat) : unit = 0 /\ subs = <<>>
    <3>1. <<>> \in Seq(Nat) /\ 0 \in Nat
      OBVIOUS
    <3> QED BY <3>1
  <2>4. Make(Device(name, type, unit, subs))
    BY <1>1, <1>2, <2>1, <2>2, <2>3
  <2>5. name[1] = "vga" /\ name[2] = 0 /\ 0 < Top.at + 1
    BY <1>2, <2>1
  <2>9. /\ name[1] = "vga" => firstProbe["vga"] /\ name[2] < Top.at + 1
        /\ name[1] # "sp" /\ type # "framebuffer"
    BY <1>2, <2>2, <2>5
  <2>6. Len(stack) = 2 /\ Top = stack[2] /\ Listed \subseteq Known
    <3>1. Len(stack) = 2 /\ Top = stack[Len(stack)]
      BY <1>1, <1>2, ProbingFacts, ProbeDepth, TopFacts
    <3> QED BY <3>1 DEF StackInv, ListsTyped
  <2>7. \A i \in Listed : dev[i].name # name
    <3>1. SUFFICES ASSUME NEW i \in Listed, dev[i].name = name PROVE FALSE
      OBVIOUS
    <3>2. dev[i].name[2] < stack[2].at
      BY <1>2, <2>5, <2>6, <3>1 DEF NamesInv, FixedName, Numbered
    <3> QED BY <1>2, <2>5, <2>6, <3>1, <3>2
  <2>8. type = Makes("vga") /\ "vga" \in TreeDrivers \ {"fbcon"} /\ type # "framebuffer"
    BY <2>2 DEF Makes, TreeDrivers
  <2>10. name \in NamesOf(type)
    BY <2>2
  <2>11. PICK d \in TreeDrivers \ {"fbcon"} : d = "vga"
    BY <2>8
  <2>12. /\ Probing(d) /\ type = Makes(d) /\ (type # "framebuffer" => subs = <<>>)
         /\ name[1] = "sp" => d = "serial" /\ firstProbe["serial"] /\ name[2] < Top.at + 1
         /\ name[1] = "vga" => d = "vga" /\ firstProbe["vga"] /\ name[2] < Top.at + 1
    BY <1>1, <2>3, <2>8, <2>9, <2>11
  <2> QED BY <2>4, <2>7, <2>10, <2>12, ProbeMakes
<1>3. CASE ~(firstProbe["vga"] /\ Top.at = 0)
  BY <1>1, <1>3, QuietProbe
<1> QED BY <1>2, <1>3

(* vesa.c: a framebuffer, when the mode can be set. *)
LEMMA VesaKeeps ==
    ASSUME StackInv, NamesInv, VesaProbe
    PROVE  StackInv' /\ NamesInv'
<1>1. Probing("vesa")
  BY DEF VesaProbe
<1>2. CASE Done
  BY <1>1, <1>2, QuietProbe
<1>3. ASSUME NEW left \in LeftInMemory, MakeNumbered(<<"vesafb">>, "framebuffer", 0, left)
      PROVE  StackInv' /\ NamesInv'
  <2>1. PICK subs \in Seq(Nat) : subs = left
    <3>1. <<>> \in Seq(Nat) /\ <<0>> \in Seq(Nat)
      OBVIOUS
    <3> QED BY <1>3, <3>1, TreeAssumption DEF Garbage, NoDevice
  <2>2. PICK type \in Types : type = "framebuffer"
    BY DEF Types
  <2>3. PICK prefix \in Seq(Part) : prefix = <<"vesafb">>
    <3>1. PICK w \in Part : w = "vesafb"
      BY NamesAre
    <3>2. <<w>> \in Seq(Part)
      OBVIOUS
    <3> QED BY <3>1, <3>2
  <2>4. /\ \A n \in Nat : Append(prefix, n) \in NamesOf(type)
        /\ prefix # <<>> /\ prefix[1] \notin {"sp", "vga"}
    <3>1. prefix = <<prefix[1]>> /\ prefix[1] \in Part /\ prefix[1] \notin {"sp", "vga"} /\ prefix # <<>>
      BY <2>3, NamesAre
    <3>2. \A n \in Nat : Append(prefix, n) = <<prefix[1], n>>
      BY <3>1, NamesAre, LongerName
    <3> QED BY <2>2, <2>3, <3>1, <3>2, NamesAre
  <2>5. type = Makes("vesa") /\ "vesa" \in TreeDrivers \ {"fbcon"} /\ 0 \in Nat
    BY <2>2 DEF Makes, TreeDrivers
  <2>6. MakeNumbered(prefix, type, 0, subs)
    BY <1>3, <2>1, <2>2, <2>3
  <2> QED BY <1>1, <2>2, <2>4, <2>5, <2>6, ProbeNumbers
<1> QED BY <1>2, <1>3 DEF VesaProbe

(* bios_drive.c: the disks the BIOS has. *)
LEMMA BdriveKeeps ==
    ASSUME StackInv, NamesInv, BdriveProbe
    PROVE  StackInv' /\ NamesInv'
<1>1. /\ Probing("bdrive")
      /\ \/ Done \/ Skip
         \/ MakeNumbered(<<"hd">>, "block", Top.at, <<>>)
  BY DEF BdriveProbe
<1>2. CASE Done \/ Skip
  BY <1>1, <1>2, QuietProbe
<1>3. CASE MakeNumbered(<<"hd">>, "block", Top.at, <<>>)
  <2>1. PICK unit \in Nat : unit = Top.at
    BY <1>1, ProbingFacts
  <2>2. PICK type \in Types : type = "block"
    BY DEF Types
  <2>3. PICK prefix \in Seq(Part) : prefix = <<"hd">>
    <3>1. PICK w \in Part : w = "hd"
      BY NamesAre
    <3>2. <<w>> \in Seq(Part)
      OBVIOUS
    <3> QED BY <3>1, <3>2
  <2>4. /\ \A n \in Nat : Append(prefix, n) \in NamesOf(type)
        /\ prefix # <<>> /\ prefix[1] \notin {"sp", "vga"}
    <3>1. prefix = <<prefix[1]>> /\ prefix[1] \in Part /\ prefix[1] \notin {"sp", "vga"} /\ prefix # <<>>
      BY <2>3, NamesAre
    <3>2. \A n \in Nat : Append(prefix, n) = <<prefix[1], n>>
      BY <3>1, NamesAre, LongerName
    <3> QED BY <2>2, <2>3, <3>1, <3>2, NamesAre
  <2>5. type = Makes("bdrive") /\ "bdrive" \in TreeDrivers \ {"fbcon"} /\ <<>> \in Seq(Nat)
    BY <2>2 DEF Makes, TreeDrivers
  <2>6. MakeNumbered(prefix, type, unit, <<>>)
    BY <1>3, <2>1, <2>2, <2>3
  <2> QED BY <1>1, <2>2, <2>4, <2>5, <2>6, ProbeNumbers
<1> QED BY <1>1, <1>2, <1>3

(* fat.c: the partitions of a disk, named after it. *)
LEMMA FatKeeps ==
    ASSUME StackInv, NamesInv, FatProbe
    PROVE  StackInv' /\ NamesInv'
<1>1. /\ Probing("fat")
      /\ \/ Done
         \/ /\ Top.dev # NoDevice
            /\ MakeNumbered(dev[Top.dev].name \o <<"p">>, "fs", dev[Top.dev].unit, <<>>)
  BY DEF FatProbe
<1>2. CASE Done
  BY <1>1, <1>2, QuietProbe
<1>3. CASE Top.dev # NoDevice /\ MakeNumbered(dev[Top.dev].name \o <<"p">>, "fs", dev[Top.dev].unit, <<>>)
  <2>1. Top.dev \in Known /\ dev[Top.dev].type = "block"
    BY <1>1, <1>3, ProbingFacts
  <2>2. PICK unit \in Nat : unit = dev[Top.dev].unit
    BY <2>1, DeviceFacts DEF StackInv, Machines
  <2>3. PICK k \in Nat : dev[Top.dev].name = <<"hd", k>>
    <3>1. dev[Top.dev].name \in NamesOf("block")
      BY <2>1, DeviceFacts DEF StackInv
    <3> QED BY <3>1 DEF NamesOf
  <2>4. PICK type \in Types : type = "fs"
    BY DEF Types
  <2>5. PICK prefix \in Seq(Part) : prefix = <<"hd", k, "p">>
    <3>1. PICK w \in Part, v \in Part, m \in Part : w = "hd" /\ v = "p" /\ m = k
      BY NamesAre
    <3>2. <<w, m, v>> \in Seq(Part)
      OBVIOUS
    <3> QED BY <3>1, <3>2
  <2>6. prefix = dev[Top.dev].name \o <<"p">>
    <3>1. "hd" \in Part /\ k \in Part /\ "p" \in Part
      BY NamesAre
    <3>2. <<"hd", k>> \o <<"p">> = <<"hd", k, "p">>
      BY <3>1, LongerName
    <3> QED BY <2>3, <2>5, <3>2
  <2>7. /\ \A n \in Nat : Append(prefix, n) \in NamesOf(type)
        /\ prefix # <<>> /\ prefix[1] \notin {"sp", "vga"}
    <3>1. \A n \in Nat : Append(prefix, n) = <<"hd", k, "p", n>>
      <4>1. "hd" \in Part /\ k \in Part /\ "p" \in Part /\ Nat \subseteq Part
        BY NamesAre
      <4>2. ASSUME NEW n \in Nat PROVE Append(<<"hd", k, "p">>, n) = <<"hd", k, "p", n>>
        <5>1. PICK h \in Part, l \in Part : h = "hd" /\ l = "p"
          BY <4>1
        <5>2. n \in Part /\ k \in Part
          BY <4>1
        <5>3. Append(<<h, k, l>>, n) = <<h, k, l, n>>
          BY <5>2, LongerName
        <5> QED BY <5>1, <5>3
      <4> QED BY <2>5, <4>2
    <3>2. prefix # <<>> /\ prefix[1] = "hd"
      BY <2>5
    <3>3. ASSUME NEW n \in Nat PROVE Append(prefix, n) \in NamesOf(type)
      <4>1. <<"hd", k, "p", n>> \in {<<"hd", i, "p", m>> : i \in Nat, m \in Nat}
        OBVIOUS
      <4>2. NamesOf("fs") = {<<"hd", i, "p", m>> : i \in Nat, m \in Nat}
        BY DEF NamesOf
      <4>3. <<"hd", k, "p", n>> \in NamesOf(type)
        BY <2>4, <4>1, <4>2
      <4> QED BY <3>1, <4>3
    <3> QED BY <3>2, <3>3
  <2>8. type = Makes("fat") /\ "fat" \in TreeDrivers \ {"fbcon"} /\ <<>> \in Seq(Nat)
    BY <2>4 DEF Makes, TreeDrivers
  <2>9. MakeNumbered(prefix, type, unit, <<>>)
    BY <1>3, <2>2, <2>4, <2>6
  <2> QED BY <1>1, <2>4, <2>7, <2>8, <2>9, ProbeNumbers
<1> QED BY <1>1, <1>2, <1>3

(* A device that is found by its name is in the list and has that name. *)
LEMMA ByName ==
    ASSUME StackInv, NEW name
    PROVE  /\ device_get_by_name(name) # NoDevice =>
                 device_get_by_name(name) \in Listed /\ dev[device_get_by_name(name)].name = name
           /\ (\E i \in Listed : dev[i].name = name) => device_get_by_name(name) # NoDevice
<1> DEFINE I == {j \in 1 .. Len(devices) : dev[devices[j]].name = name}
           k == IF I # {} THEN Min(I) ELSE 0
<1>1. device_get_by_name(name) = IF k = 0 THEN NoDevice ELSE devices[k]
  BY DEF device_get_by_name, SelectInSeq
<1>2. /\ devices \in Seq(Nat) /\ Len(devices) \in Nat /\ Listed = {devices[j] : j \in 1 .. Len(devices)}
      /\ Listed \subseteq Known
  BY ElementsOf DEF StackInv, ListsTyped, Listed
<1>3. I \in SUBSET Nat
  BY <1>2
<1>4. ASSUME I # {} PROVE k \in I
  <2>1. Min(I) = CHOOSE m \in I : \A n \in I : m <= n
    BY DEF Min
  <2> HIDE DEF I
  <2> QED BY <1>3, <1>4, <2>1, LeastIs
<1>5. I = {} => k = 0
  OBVIOUS
<1>6. \A j \in I : j \in 1 .. Len(devices) /\ j # 0 /\ devices[j] \in Listed /\ dev[devices[j]].name = name
  BY <1>2
<1>7. \A i \in Listed : i # NoDevice
  BY <1>2, DeviceFacts DEF NoDevice, Known, StackInv
<1>8. (\E i \in Listed : dev[i].name = name) => I # {}
  BY <1>2
<1> HIDE DEF I, k
<1> QED BY <1>1, <1>4, <1>5, <1>6, <1>7, <1>8

(* fbcon.c: a console for each framebuffer that has none. *)
LEMMA FbconVisitKeeps ==
    ASSUME StackInv, NamesInv, FbconVisit
    PROVE  StackInv' /\ NamesInv'
<1>1. /\ Probing("fbcon") /\ Top.new = NoDevice
      /\ stack # <<>> /\ Top.fn = "probe" /\ Top.drv = "fbcon" /\ Top \in Activations
      /\ ProbeTyped(Top) /\ Top.at \in Nat /\ Top.at \in Listed \cup {NoDevice}
  BY ProbingFacts DEF FbconVisit, ProbeTyped
<1>2. NextDevice(Top.at) \in Listed \cup {NoDevice} /\ Listed \subseteq Known /\ Len(dev) \in Nat
  BY <1>1, NextFacts, DeviceFacts DEF StackInv, ListsTyped
<1>3. PICK i \in Listed \cup {NoDevice} : i = NextDevice(Top.at)
  BY <1>2
<1>4. CASE i = NoDevice
  <2>1. Done
    BY <1>3, <1>4 DEF FbconVisit
  <2> QED BY <1>1, <2>1, QuietProbe
<1>5. CASE i # NoDevice /\ Bindable(i) /\ SuffixFails(<<"fbcon">>)
  <2>1. Panic
    BY <1>3, <1>5 DEF FbconVisit
  <2> QED BY <1>1, <2>1, QuietProbe
<1>6. CASE i # NoDevice /\ Bindable(i) /\ ~SuffixFails(<<"fbcon">>)
  <2>1. i \in Known /\ dev[i].type = "framebuffer" /\ i \in Nat /\ i \in Listed
    BY <1>2, <1>6 DEF Bindable, Known
  <2>2. PICK id \in Nat : id = NewId
    BY <1>2 DEF NewId
  <2>3. PICK prefix \in Seq(Part) : prefix = <<"fbcon">>
    <3>1. PICK w \in Part : w = "fbcon"
      BY NamesAre
    <3>2. <<w>> \in Seq(Part)
      OBVIOUS
    <3> QED BY <3>1, <3>2
  <2>4. /\ FirstAvailableSuffix(prefix) \in Nat
        /\ \A j \in Listed : dev[j].name # Append(prefix, FirstAvailableSuffix(prefix))
    BY <1>6, <2>3, FreshSuffix
  <2>5. PICK n \in Nat : n = FirstAvailableSuffix(<<"fbcon">>)
    BY <2>3, <2>4
  <2>6. Append(prefix, n) = <<"fbcon", n>>
    BY <2>3, NamesAre, LongerName
  <2>7. PICK name \in NamesOf("con") : name = <<"fbcon", n>>
    BY NamesAre
  <2>8. PICK subs \in Seq(Nat) : subs = <<>>
    <3>1. <<>> \in Seq(Nat)
      OBVIOUS
    <3> QED BY <3>1
  <2>9. PICK new \in Machines : new = Device(<<"fbcon", n>>, "con", 0, <<>>)
    <3>1. "con" \in Types /\ 0 \in Nat
      BY DEF Types
    <3>2. Device(name, "con", 0, subs) \in Machines
      BY <3>1 DEF Machines, Device
    <3> QED BY <2>7, <2>8, <3>2
  <2>10. new.name = name /\ new.type = "con" /\ new.subdevices = <<>>
    BY <2>7, <2>9 DEF Device
  <2>11. PICK fr \in Activations : fr = [Top EXCEPT !.at = i, !.new = id]
    BY <1>1, <2>1, <2>2, TopFacts
  <2>12. fr.fn = "probe" /\ fr.drv = Top.drv /\ fr.dev = Top.dev /\ fr.at = i /\ fr.new = id
    BY <1>1, <2>11 DEF Activations
  <2>13. /\ dev \in Seq(Machines) /\ i \in 1 .. Len(dev) /\ dev[i] \in Machines
    BY <2>1, DeviceFacts DEF StackInv, DevicesTyped, Known
  <2>14. PICK m \in Machines : m = [dev[i] EXCEPT !.subdevices = <<id>>]
    <3>1. <<id>> \in Seq(Nat)
      OBVIOUS
    <3> QED BY <2>13, <3>1 DEF Machines
  <2>15. m.name = dev[i].name /\ m.type = dev[i].type
    BY <2>13, <2>14 DEF Machines
  <2>16. PICK table \in Seq(Machines) : table = [dev EXCEPT ![i].subdevices = <<id>>]
    <3>1. [dev EXCEPT ![i].subdevices = <<id>>] = [dev EXCEPT ![i] = m]
      BY <2>14
    <3>2. [dev EXCEPT ![i] = m] \in Seq(Machines)
      BY <2>13
    <3> QED BY <3>1, <3>2
  <2>17. /\ Len(table) = Len(dev)
         /\ \A j \in Known : table[j] = IF j = i THEN m ELSE dev[j]
    <3>1. table = [dev EXCEPT ![i] = m]
      BY <2>14, <2>16
    <3> QED BY <2>13, <3>1 DEF Known
  <2>18. device_register([Top EXCEPT !.at = i, !.new = NewId], [dev EXCEPT ![i].subdevices = <<NewId>>],
                         Device(<<"fbcon", FirstAvailableSuffix(<<"fbcon">>)>>, "con", 0, <<>>))
         /\ UNCHANGED <<drivers, disabled, firstProbe>>
    BY <1>3, <1>6 DEF FbconVisit
  <2>19. device_register(fr, table, new)
    BY <2>2, <2>5, <2>9, <2>11, <2>16, <2>18
  <2>20. /\ dev' = Append(table, new) /\ devices' = Append(devices, id)
    BY <2>2, <2>19 DEF device_register
  <2>21. /\ Len(dev') = Len(dev) + 1 /\ dev'[id] = new /\ id = Len(dev) + 1
         /\ \A j \in Known : dev'[j] = table[j]
    <3>1. /\ Len(table) \in Nat /\ Len(Append(table, new)) = Len(table) + 1
          /\ Append(table, new)[Len(table) + 1] = new
          /\ \A j \in 1 .. Len(table) : Append(table, new)[j] = table[j]
      OBVIOUS
    <3> QED BY <2>2, <2>17, <2>20, <3>1 DEF NewId, Known
  <2>22. Listed' = Listed \cup {id} /\ Known \subseteq Known'
    <3>1. ToSet(Append(devices, id)) = ToSet(devices) \cup {id}
      <4>1. devices \in Seq(Nat)
        BY DEF StackInv, ListsTyped
      <4> QED BY <4>1, ElementsOf
    <3> QED BY <1>2, <2>20, <2>21, <3>1 DEF Listed, Known
  <2>23. Takes(fr)
    BY <1>1, <1>2, <2>2, <2>12 DEF Takes, NewId, NoDevice
  <2>24. name # <<"vga", 0>> /\ name[1] = "fbcon"
    BY <2>7
  <2>25. FrameTyped(fr)'
    <3>1. dev'[i].type = "framebuffer" /\ dev'[id].type = "con" /\ dev'[id].name # <<"vga", 0>>
      BY <2>1, <2>10, <2>15, <2>17, <2>21, <2>24
    <3>2. fr.drv \in ToSet(drivers)' /\ fr.dev \in Known' \cup {NoDevice}
      BY <1>1, <2>12, <2>18, <2>22 DEF ProbeTyped
    <3>3. fr.at \in Listed' /\ fr.new \in Listed' /\ fr.at # NoDevice
      BY <1>6, <2>1, <2>12, <2>22
    <3>4. ProbeTyped(fr)'
      BY <2>12, <3>1, <3>2, <3>3 DEF ProbeTyped
    <3> QED BY <2>12, <3>4 DEF FrameTyped
  <2>26. /\ \A j \in Known : /\ table[j].name = dev[j].name /\ table[j].type = dev[j].type
                             /\ table[j].type # "framebuffer" => table[j].subdevices = <<>>
    BY <2>1, <2>15, <2>17 DEF StackInv, DevicesTyped
  <2>27. /\ new.name \in NamesOf(new.type) /\ new.type = Makes(Top.drv) /\ Top.drv \in TreeDrivers
         /\ \A j \in Listed : dev[j].name # new.name
         /\ new.name[1] \notin {"sp", "vga"}
    BY <1>1, <2>3, <2>4, <2>5, <2>6, <2>7, <2>10, <2>24 DEF Makes, TreeDrivers
  <2>28. Top.drv \notin {"serial", "vga"}
    BY <1>1
  <2> QED BY <1>1, <2>10, <2>12, <2>17, <2>18, <2>19, <2>23, <2>25, <2>26, <2>27, <2>28, MakeKeeps
<1>7. CASE i # NoDevice /\ ~Bindable(i)
  <2>1. Continue([Top EXCEPT !.at = i]) /\ SameDevices
    BY <1>3, <1>7 DEF FbconVisit, SameDevices
  <2>2. i \in Nat /\ i \in Listed
    BY <1>2, <1>7 DEF Known
  <2>3. PICK fr \in Activations : fr = [Top EXCEPT !.at = i]
    BY <1>1, <2>2, TopFacts
  <2>4. fr.fn = "probe" /\ fr.drv = Top.drv /\ fr.dev = Top.dev /\ fr.at = i /\ fr.new = NoDevice
    BY <1>1, <2>3 DEF Activations
  <2>5. FrameTyped(fr)'
    <3>1. Listed' = Listed /\ drivers' = drivers /\ Known' = Known
      BY <2>1 DEF SameDevices, Listed, Known
    <3> QED BY <1>1, <2>2, <2>4, <3>1 DEF FrameTyped, ProbeTyped, Takes
  <2>6. Top.drv \notin {"serial", "vga"} /\ Continue(fr)
    BY <1>1, <2>1, <2>3
  <2> QED BY <1>1, <2>1, <2>4, <2>5, <2>6, QuietContinue
<1> QED BY <1>4, <1>5, <1>6, <1>7

(* The new console takes over from vga0, which is deregistered. *)
LEMMA TakeOverKeeps ==
    ASSUME StackInv, NamesInv, FbconTakeOver
    PROVE  StackInv' /\ NamesInv'
<1>1. /\ Top.new # NoDevice /\ SameDevices
      /\ stack # <<>> /\ Top.fn = "probe" /\ Top.drv = "fbcon" /\ Top \in Activations
      /\ ProbeTyped(Top) /\ Top.drv \notin {"serial", "vga"} /\ Top.new \in Nat
  <2>1. Probing("fbcon") /\ Top.new # NoDevice /\ SameDevices
    BY DEF FbconTakeOver, SameDevices
  <2>2. Top.new \in Nat
    BY <2>1, ProbingFacts, TopFacts
  <2> QED BY <2>1, <2>2, ProbingFacts
<1>2. Listed' = Listed /\ drivers' = drivers /\ Known' = Known /\ dev' = dev /\ Listed \subseteq Known
  BY <1>1 DEF SameDevices, Listed, Known, StackInv, ListsTyped
<1>3. PICK top \in Activations : top = Top
  BY <1>1
<1>4. CASE OldConsole # NoDevice
  <2>1. OldConsole \in Known /\ dev[OldConsole].name = <<"vga", 0>>
    BY <1>2, <1>4, ByName DEF OldConsole
  <2>2. PICK old \in Nat : old = OldConsole
    BY <2>1 DEF Known
  <2>3. PICK g \in Activations : g = Frame("deregister", None, old, 0, NoDevice)
    BY DEF Activations, Frame, NoDevice
  <2>4. g.fn = "deregister" /\ g.dev = old
    BY <2>3 DEF Frame
  <2>5. FrameTyped(top)' /\ FrameTyped(g)'
    BY <1>1, <1>2, <1>3, <2>4 DEF FrameTyped, ProbeTyped, Takes
  <2>6. Follows(top, g)'
    BY <1>1, <1>2, <1>3, <2>1, <2>2, <2>4 DEF Follows, Takes
  <2>7. Call(top, g)
    BY <1>3, <1>4, <2>2, <2>3 DEF FbconTakeOver
  <2> QED BY <1>1, <1>3, <2>4, <2>5, <2>6, <2>7, QuietCall
<1>5. CASE OldConsole = NoDevice
  <2>1. PICK fr \in Activations : fr = [Top EXCEPT !.new = NoDevice]
    BY <1>1, TopFacts DEF NoDevice
  <2>2. fr.fn = "probe" /\ fr.drv = Top.drv /\ fr.dev = Top.dev /\ fr.at = Top.at /\ fr.new = NoDevice
    BY <1>1, <2>1 DEF Activations
  <2>3. FrameTyped(fr)'
    BY <1>1, <1>2, <2>2 DEF FrameTyped, ProbeTyped, Takes
  <2>4. Continue(fr)
    BY <1>5, <2>1 DEF FbconTakeOver
  <2> QED BY <1>1, <2>2, <2>3, <2>4, QuietContinue
<1> QED BY <1>4, <1>5

(* driver_first_probe, driver_probe_for and device_deregister have no caller under way
   in the calls of the kernel, a command or a module: nothing has. *)
LEMMA CallerKeeps ==
    ASSUME StackInv, NamesInv, UNCHANGED <<devices, dev>>, ListsTyped',
           StackTyped', Removals', FirstOnly', Len(stack') \in {0, 1},
           \A d \in {"serial", "vga"} : d \in ToSet(drivers) => d \in ToSet(drivers') /\ ~firstProbe'[d]
    PROVE  StackInv' /\ NamesInv'
<1>1. devices' = devices /\ dev' = dev /\ Listed' = Listed /\ Known' = Known
  BY DEF Listed, Known
<1>2. DevicesTyped' /\ UniqueNames'
  BY <1>1 DEF StackInv, NamesInv, DevicesTyped, UniqueNames
<1>3. ASSUME NEW d \in {"serial", "vga"}, NEW w, FixedName(d, w) PROVE FixedName(d, w)'
  BY <1>1, <1>3 DEF FixedName, Numbered
<1> QED BY <1>2, <1>3 DEF StackInv, NamesInv

(* Between the calls no driver is in its first probe. *)
LEMMA IdleFacts ==
    ASSUME StackInv, stack = <<>>
    PROVE  /\ \A d \in Drivers : ~firstProbe[d]
           /\ drivers \in Seq(Drivers) /\ ToSet(drivers) \subseteq Drivers
           /\ firstProbe \in [Drivers -> BOOLEAN] /\ disabled \in [Drivers -> BOOLEAN]
           /\ devices \in Seq(Nat) /\ Listed \subseteq Known
           /\ "serial" \in Drivers /\ "vga" \in Drivers
           /\ ModuleDriver \notin TreeDrivers
<1>1. Len(stack) = 0
  OBVIOUS
<1>2. \A d \in Drivers : ~firstProbe[d]
  BY <1>1 DEF StackInv, FirstOnly
<1>3. drivers \in Seq(Drivers) /\ firstProbe \in [Drivers -> BOOLEAN] /\ disabled \in [Drivers -> BOOLEAN]
      /\ devices \in Seq(Nat) /\ Listed \subseteq Known
  BY DEF StackInv, ListsTyped
<1>4. ToSet(drivers) \subseteq Drivers
  BY <1>3, ElementsOf
<1>5. "serial" \in Drivers /\ "vga" \in Drivers /\ ModuleDriver \notin TreeDrivers
  BY TreeFacts DEF TreeDrivers, ModuleDriver
<1> QED BY <1>2, <1>3, <1>4, <1>5

(* The first probe begins. *)
LEMMA FirstProbeKeeps ==
    ASSUME StackInv, NamesInv, stack = <<>>, NEW d \in Drivers, FirstProbe(d),
           UNCHANGED <<devices, dev>>, ListsTyped', d \in ToSet(drivers'), ~disabled'[d],
           \A e \in {"serial", "vga"} : e \in ToSet(drivers) => e \in ToSet(drivers') /\ e # d
    PROVE  StackInv' /\ NamesInv'
<1>1. firstProbe' = [firstProbe EXCEPT ![d] = TRUE] /\ stack' = <<Frame("first", d, NoDevice, 0, NoDevice)>>
  BY DEF FirstProbe
<1>2. PICK f \in Activations : f = Frame("first", d, NoDevice, 0, NoDevice)
  BY DEF Activations, Frame, NoDevice
<1>3. f.fn = "first" /\ f.drv = d /\ f.dev = NoDevice /\ f.at = 0
  BY <1>2 DEF Frame
<1>4. firstProbe'[d] /\ \A e \in Drivers : e # d => ~firstProbe'[e]
  BY <1>1, IdleFacts
<1>5. FrameTyped(f)'
  BY <1>3, <1>4 DEF FrameTyped, FirstTyped
<1>6. StackTyped' /\ Removals' /\ FirstOnly'
  BY <1>1, <1>2, <1>3, <1>4, <1>5, Began
<1>7. Len(stack') = 1
  BY <1>1
<1> QED BY <1>4, <1>6, <1>7, CallerKeeps, IdleFacts

(* driver_register. *)
LEMMA DriverRegisterKeeps ==
    ASSUME StackInv, NamesInv, NEW d \in Drivers \ ToSet(drivers), driver_register(d)
    PROVE  StackInv' /\ NamesInv'
<1>1. /\ stack = <<>> /\ drivers' = Append(drivers, d)
      /\ disabled' = [disabled EXCEPT ![d] = Attr[d].disabled]
      /\ UNCHANGED <<devices, dev>>
      /\ IF Attr[d].disabled THEN UNCHANGED <<firstProbe, stack>> ELSE FirstProbe(d)
  BY DEF driver_register, Idle
<1>2. /\ drivers \in Seq(Drivers) /\ firstProbe \in [Drivers -> BOOLEAN] /\ disabled \in [Drivers -> BOOLEAN]
      /\ \A e \in Drivers : ~firstProbe[e]
      /\ Len(drivers) \in Nat /\ \A k \in 1 .. Len(drivers) : drivers[k] \in ToSet(drivers)
      /\ \A a, b \in 1 .. Len(drivers) : drivers[a] = drivers[b] => a = b
  BY <1>1, IdleFacts, ElementsOf DEF StackInv, ListsTyped
<1>3. /\ drivers' \in Seq(Drivers) /\ ToSet(drivers') = ToSet(drivers) \cup {d}
  BY <1>1, <1>2, ElementsOf
<1>4. /\ Len(drivers') = Len(drivers) + 1 /\ drivers'[Len(drivers) + 1] = d
      /\ \A k \in 1 .. Len(drivers) : drivers'[k] = drivers[k]
  BY <1>1, <1>2
<1>5. disabled' \in [Drivers -> BOOLEAN] /\ disabled'[d] = Attr[d].disabled
  <2>1. Attr[d].disabled \in BOOLEAN
    BY AttrAssumption
  <2> QED BY <1>1, <1>2, <2>1
<1>6. firstProbe' \in [Drivers -> BOOLEAN]
  BY <1>1, <1>2 DEF FirstProbe
<1>7. ListsTyped'
  <2>1. ASSUME NEW a \in 1 .. Len(drivers'), NEW b \in 1 .. Len(drivers'), drivers'[a] = drivers'[b]
        PROVE  a = b
    <3>1. /\ a \in 1 .. Len(drivers) \/ a = Len(drivers) + 1
          /\ b \in 1 .. Len(drivers) \/ b = Len(drivers) + 1
      BY <1>2, <1>4
    <3> QED BY <1>2, <1>4, <2>1, <3>1
  <2>2. devices' = devices /\ Listed' = Listed /\ Known' = Known
    BY <1>1 DEF Listed, Known
  <2> QED BY <1>3, <1>5, <1>6, <2>1, <2>2 DEF StackInv, ListsTyped
<1>9. CASE Attr[d].disabled
  <2>1. stack' = stack /\ firstProbe' = firstProbe /\ Len(stack') = 0 /\ stack' \in Seq(Activations)
    BY <1>1, <1>9
  <2>2. StackTyped' /\ Removals' /\ FirstOnly'
    BY <1>2, <2>1 DEF StackTyped, Removals, FirstOnly
  <2>3. \A e \in {"serial", "vga"} : e \in ToSet(drivers) => e \in ToSet(drivers') /\ ~firstProbe'[e]
    BY <1>1, <1>2, <1>3, <2>1, IdleFacts
  <2> QED BY <1>1, <1>7, <2>1, <2>2, <2>3, CallerKeeps
<1>10. CASE ~Attr[d].disabled
  BY <1>1, <1>3, <1>5, <1>7, <1>10, FirstProbeKeeps
<1> QED BY <1>9, <1>10

(* driver_enable, for a driver that is registered. *)
LEMMA EnableKeeps ==
    ASSUME StackInv, NamesInv, NEW d \in ToSet(drivers), d \notin {"serial", "vga"}, driver_enable(d)
    PROVE  StackInv' /\ NamesInv'
<1>1. /\ stack = <<>> /\ drivers' = drivers /\ disabled' = [disabled EXCEPT ![d] = FALSE]
      /\ UNCHANGED <<devices, dev>> /\ FirstProbe(d)
      /\ firstProbe' = [firstProbe EXCEPT ![d] = TRUE]
  BY DEF driver_enable, Idle, FirstProbe
<1>2. /\ d \in Drivers /\ disabled' \in [Drivers -> BOOLEAN] /\ ~disabled'[d]
      /\ firstProbe' \in [Drivers -> BOOLEAN]
  BY <1>1, IdleFacts
<1>3. devices' = devices /\ Listed' = Listed /\ Known' = Known
  BY <1>1 DEF Listed, Known
<1>4. ListsTyped'
  BY <1>1, <1>2, <1>3 DEF StackInv, ListsTyped
<1> QED BY <1>1, <1>2, <1>4, FirstProbeKeeps

(* A module takes its driver away. *)
LEMMA DriverDeregisterKeeps ==
    ASSUME StackInv, NamesInv, driver_deregister(ModuleDriver)
    PROVE  StackInv' /\ NamesInv'
<1>1. /\ stack = <<>> /\ ModuleDriver \in ToSet(drivers) /\ drivers' = RemoveFirst(drivers, ModuleDriver)
      /\ devices' = devices /\ dev' = dev /\ disabled' = disabled /\ firstProbe' = firstProbe /\ stack' = stack
  BY DEF driver_deregister, Idle
<1>2. drivers \in Seq(Drivers) /\ \A a, b \in 1 .. Len(drivers) : drivers[a] = drivers[b] => a = b
  BY DEF StackInv, ListsTyped
<1>3. /\ drivers' \in Seq(Drivers) /\ ToSet(drivers') = ToSet(drivers) \ {ModuleDriver}
      /\ \A a, b \in 1 .. Len(drivers') : drivers'[a] = drivers'[b] => a = b
  BY <1>1, <1>2, Removed
<1>4. ListsTyped'
  BY <1>1, <1>3 DEF StackInv, ListsTyped, Listed, Known
<1>5. Len(stack') = 0 /\ stack' \in Seq(Activations)
  BY <1>1
<1>6. StackTyped' /\ Removals' /\ FirstOnly'
  BY <1>1, <1>5, IdleFacts DEF StackTyped, Removals, FirstOnly
<1>7. \A e \in {"serial", "vga"} : e \in ToSet(drivers) => e \in ToSet(drivers') /\ ~firstProbe'[e]
  <2>1. ModuleDriver \notin {"serial", "vga"}
    BY DEF ModuleDriver
  <2> QED BY <1>1, <1>3, <2>1, IdleFacts
<1> QED BY <1>1, <1>4, <1>5, <1>6, <1>7, CallerKeeps

(* A module deregisters a device, or asks for another probe. *)
LEMMA OutsideKeeps ==
    ASSUME StackInv, NamesInv, stack = <<>>, SameDevices, NEW f \in Activations, stack' = <<f>>,
           f.fn \in {"deregister", "probeFor"}, f.at = 0
    PROVE  StackInv' /\ NamesInv'
<1>1. ListsTyped' /\ UNCHANGED <<devices, dev, drivers>> /\ firstProbe' = firstProbe
  BY DevicesStay DEF SameDevices
<1>2. Len(stack') = 1 /\ Len(drivers) \in Nat
  BY IdleFacts, ElementsOf
<1>3. FrameTyped(f)'
  BY <1>1, <1>2 DEF FrameTyped
<1>4. StackTyped' /\ Removals' /\ FirstOnly'
  BY <1>1, <1>3, Began, IdleFacts
<1> QED BY <1>1, <1>2, <1>4, CallerKeeps, IdleFacts

(* The callers. *)
LEMMA ModuleCallsKeep ==
    ASSUME StackInv, NamesInv, ModuleCalls
    PROVE  StackInv' /\ NamesInv'
<1>1. CASE ModuleDriver \in Drivers \ ToSet(drivers) /\ driver_register(ModuleDriver)
  BY <1>1, DriverRegisterKeeps
<1>2. CASE driver_deregister(ModuleDriver)
  BY <1>2, DriverDeregisterKeeps
<1>3. ASSUME NEW i \in ToSet(devices), device_deregister(i) PROVE StackInv' /\ NamesInv'
  <2>1. stack = <<>> /\ SameDevices /\ stack' = <<Frame("deregister", None, i, 0, NoDevice)>>
    BY <1>3 DEF device_deregister, Idle, SameDevices
  <2>2. i \in Nat
    BY <2>1, IdleFacts DEF Listed, Known
  <2>3. PICK f \in Activations : f = Frame("deregister", None, i, 0, NoDevice)
    BY <2>2 DEF Activations, Frame, NoDevice
  <2>4. f.fn = "deregister" /\ f.at = 0
    BY <2>3 DEF Frame
  <2> QED BY <2>1, <2>3, <2>4, OutsideKeeps
<1>4. ASSUME NEW t \in Types, driver_probe_for(t) PROVE StackInv' /\ NamesInv'
  <2>1. stack = <<>> /\ SameDevices /\ stack' = <<Frame("probeFor", t, NoDevice, 0, NoDevice)>>
    BY <1>4 DEF driver_probe_for, Idle, SameDevices
  <2>2. PICK f \in Activations : f = Frame("probeFor", t, NoDevice, 0, NoDevice)
    BY DEF Activations, Frame, NoDevice
  <2>3. f.fn = "probeFor" /\ f.at = 0
    BY <2>2 DEF Frame
  <2> QED BY <2>1, <2>2, <2>3, OutsideKeeps
<1> QED BY <1>1, <1>2, <1>3, <1>4 DEF ModuleCalls

(* Every step keeps what is known of the stack, the lists and the names. *)
LEMMA StepKeeps ==
    ASSUME StackInv, NamesInv, [Next]_vars
    PROVE  StackInv' /\ NamesInv'
<1>1. CASE BootDriver
  <2>1. PICK d \in TreeDrivers \ ToSet(drivers) : driver_register(d)
    BY <1>1 DEF BootDriver
  <2> QED BY <2>1, TreeFacts, DriverRegisterKeeps
<1>2. CASE TakeVga
  BY <1>2, NothingMoves DEF TakeVga, managerVars, SameDevices
<1>3. CASE Endrv
  <2>1. PICK d \in {"vesa", ModuleDriver} \cap ToSet(drivers) : driver_enable(d)
    BY <1>3 DEF Endrv
  <2>2. d \notin {"serial", "vga"}
    BY DEF ModuleDriver
  <2> QED BY <2>1, <2>2, EnableKeeps
<1>4. CASE ModuleCalls
  BY <1>4, ModuleCallsKeep
<1>5. CASE ManagerStep
  BY <1>5, RegisterKeeps, DeregisterKeeps, FirstKeeps, ProbeForKeeps DEF ManagerStep
<1>6. CASE ProbeStep
  <2>1. CASE ModuleProbe
    BY <2>1, QuietProbe DEF ModuleProbe
  <2> QED BY <1>6, <2>1, SerialKeeps, VgaKeeps, VesaKeeps, BdriveKeeps, FatKeeps, FbconVisitKeeps,
             TakeOverKeeps DEF ProbeStep
<1>7. CASE UNCHANGED vars
  BY <1>7, NothingMoves DEF vars, managerVars, SameDevices
<1> QED BY <1>1, <1>2, <1>3, <1>4, <1>5, <1>6, <1>7 DEF Next, Steps

(* No device, no driver, nothing under way. *)
LEMMA StartsEmpty ==
    ASSUME Init
    PROVE  StackInv /\ NamesInv
<1>1. /\ drivers = <<>> /\ devices = <<>> /\ dev = <<>> /\ stack = <<>>
      /\ disabled = [d \in Drivers |-> Attr[d].disabled]
      /\ firstProbe = [d \in Drivers |-> FALSE]
  BY DEF Init, ManagerInit
<1>2. /\ Len(drivers) = 0 /\ Len(devices) = 0 /\ Len(dev) = 0 /\ Len(stack) = 0
      /\ drivers \in Seq(Drivers) /\ devices \in Seq(Nat) /\ dev \in Seq(Machines)
      /\ stack \in Seq(Activations)
  BY <1>1
<1>3. ToSet(devices) = {} /\ Listed = {}
  BY <1>1, <1>2 DEF Listed, ToSet
<1>4. disabled \in [Drivers -> BOOLEAN] /\ firstProbe \in [Drivers -> BOOLEAN]
  <2>1. \A d \in Drivers : Attr[d].disabled \in BOOLEAN
    BY AttrAssumption
  <2> QED BY <1>1, <2>1
<1>5. DevicesTyped /\ ListsTyped
  BY <1>2, <1>3, <1>4 DEF DevicesTyped, ListsTyped, Known
<1>6. StackTyped /\ Removals /\ FirstOnly
  BY <1>1, <1>2 DEF StackTyped, Removals, FirstOnly
<1>7. UniqueNames /\ FixedName("serial", "sp") /\ FixedName("vga", "vga")
  BY <1>3 DEF UniqueNames, FixedName
<1> QED BY <1>5, <1>6, <1>7 DEF StackInv, NamesInv

(* The stack of activations is as described in every state, whatever order the link
   left the drivers in. *)
THEOREM StackInvariance == Spec => [](StackInv /\ NamesInv)
<1>1. Init => StackInv /\ NamesInv
  BY StartsEmpty
<1>2. StackInv /\ NamesInv /\ [Next]_vars => (StackInv /\ NamesInv)'
  BY StepKeeps
<1> QED BY <1>1, <1>2, PTL DEF Spec

(* No two registered devices have the same name (driver.c, device_get_by_name and
   device_get_first_available_suffix): the suffixes keep them apart, whatever the
   probes and the modules deregister in between. *)
THEOREM NamesUnique == Spec => []UniqueNames
<1>1. StackInv /\ NamesInv => UniqueNames
  BY DEF NamesInv
<1> QED BY <1>1, StackInvariance, PTL
----------------------------------------------------------------------------
(* How often a driver has been probed with a device. *)

(* What waits to be counted is the same as long as no registration goes on. *)
LEMMA PendingStays ==
    ASSUME StackInv, OneRegister, stack # <<>>, drivers' = drivers,
           Len(stack') \in Len(stack) - 1 .. Len(stack) + 1,
           \A k \in 1 .. Len(stack) - 1 : stack'[k] = stack[k],
           Top.fn # "register",
           \A k \in 1 .. Len(stack') : k \in 1 .. Len(stack) - 1 \/ stack'[k].fn # "register",
           Len(stack) = 1 => /\ (Len(stack') > 0 /\ stack'[1].fn = "first") <=> (stack[1].fn = "first")
                             /\ stack[1].fn = "first" => stack'[1].drv = stack[1].drv /\ stack'[1].dev = stack[1].dev
    PROVE  /\ OneRegister'
           /\ \A d, i : Registering(d, i)' <=> Registering(d, i)
           /\ \A d, i : (\A x : stack[1].fn = "first" /\ x = stack[1].dev => (Behind(x, i)' <=> Behind(x, i)))
                           => (Exploring(d, i)' <=> Exploring(d, i))
<1>1. /\ Len(stack) \in Nat \ {0} /\ Top = stack[Len(stack)] /\ Len(stack') \in Nat
      /\ \A k \in 1 .. Len(stack) : k = Len(stack) \/ k \in 1 .. Len(stack) - 1
      /\ \A k \in 1 .. Len(stack) - 1 : k \in 1 .. Len(stack) /\ k \in 1 .. Len(stack')
      /\ Len(stack) # 1 => 1 \in 1 .. Len(stack) - 1 /\ Len(stack') > 0
  <2>1. Len(stack) \in Nat \ {0} /\ Top = stack[Len(stack)]
    BY TopFacts
  <2>2. \A n \in Nat \ {0} : \A m \in n - 1 .. n + 1 :
           /\ m \in Nat /\ (n # 1 => 1 \in 1 .. n - 1 /\ m > 0)
           /\ \A k \in 1 .. n : k = n \/ k \in 1 .. n - 1
           /\ \A k \in 1 .. n - 1 : k \in 1 .. n /\ k \in 1 .. m
    OBVIOUS
  <2> QED BY <2>1, <2>2
<1>2. \A k \in 1 .. Len(stack) : stack[k].fn = "register" =>
            k \in 1 .. Len(stack') /\ stack'[k] = stack[k]
  BY <1>1
<1>3. \A k \in 1 .. Len(stack') : stack'[k].fn = "register" =>
            k \in 1 .. Len(stack) /\ stack'[k] = stack[k]
  BY <1>1
<1>4. OneRegister'
  BY <1>3 DEF OneRegister
<1>5. \A d, i : Registering(d, i)' <=> Registering(d, i)
  BY <1>2, <1>3 DEF Registering
<1>6. /\ (Len(stack') > 0 /\ stack'[1].fn = "first") <=> (stack[1].fn = "first")
      /\ stack[1].fn = "first" => stack'[1].drv = stack[1].drv /\ stack'[1].dev = stack[1].dev
  <2>1. CASE Len(stack) = 1
    BY <2>1
  <2>2. CASE Len(stack) # 1
    BY <1>1, <2>2
  <2> QED BY <2>1, <2>2
<1>7. ASSUME NEW d, NEW i,
             \A x : stack[1].fn = "first" /\ x = stack[1].dev => (Behind(x, i)' <=> Behind(x, i))
      PROVE  Exploring(d, i)' <=> Exploring(d, i)
  <2>1. CASE stack[1].fn = "first"
    <3>1. PICK x : x = stack[1].dev
      OBVIOUS
    <3>2. Behind(x, i)' <=> Behind(x, i)
      BY <1>7, <2>1, <3>1
    <3>3. Exploring(d, i) <=> stack[1].drv = d /\ (x = NoDevice \/ Behind(x, i))
      BY <1>1, <2>1, <3>1 DEF Exploring
    <3>4. Exploring(d, i)' <=> stack[1].drv = d /\ (x = NoDevice \/ Behind(x, i)')
      BY <1>6, <2>1, <3>1 DEF Exploring, Behind
    <3> QED BY <3>2, <3>3, <3>4
  <2>2. CASE stack[1].fn # "first"
    BY <1>1, <1>6, <2>2 DEF Exploring
  <2> QED BY <2>1, <2>2
<1> QED BY <1>4, <1>5, <1>7

(* The stack before and after a step. *)
LEMMA Shapes ==
    ASSUME StackInv, stack # <<>>, NEW fr, NEW g
    PROVE  /\ Len(stack) \in Nat \ {0} /\ Top = stack[Len(stack)]
           /\ Return => /\ Len(stack') = Len(stack) - 1
                        /\ \A k \in 1 .. Len(stack) - 1 : stack'[k] = stack[k]
           /\ Continue(fr) => /\ Len(stack') = Len(stack) /\ stack'[Len(stack)] = fr
                              /\ \A k \in 1 .. Len(stack) - 1 : stack'[k] = stack[k]
           /\ Call(fr, g) => /\ Len(stack') = Len(stack) + 1
                             /\ stack'[Len(stack)] = fr /\ stack'[Len(stack) + 1] = g
                             /\ \A k \in 1 .. Len(stack) - 1 : stack'[k] = stack[k]
<1>1. stack \in Seq(Activations) /\ Len(stack) \in Nat \ {0} /\ Top = stack[Len(stack)] /\ Top \in Activations
  BY TopFacts DEF StackInv, StackTyped
<1> DEFINE S == Activations \cup {fr, g}
           r == Front(stack)
<1>2. r \in Seq(Activations) /\ Len(r) = Len(stack) - 1 /\ \A k \in 1 .. Len(stack) - 1 : r[k] = stack[k]
  BY <1>1, StackOps
<1>3. r \in Seq(S) /\ <<fr>> \in Seq(S) /\ <<fr, g>> \in Seq(S)
  <2>1. \A k \in 1 .. Len(r) : r[k] \in S
    BY <1>2
  <2> HIDE DEF r
  <2> QED BY <1>2, <2>1
<1>4. Len(<<fr>>) = 1 /\ <<fr>>[1] = fr /\ Len(<<fr, g>>) = 2 /\ <<fr, g>>[1] = fr /\ <<fr, g>>[2] = g
  OBVIOUS
<1> HIDE DEF r, S
<1>5. /\ Len(r \o <<fr>>) = Len(stack) /\ (r \o <<fr>>)[Len(stack)] = fr
      /\ \A k \in 1 .. Len(stack) - 1 : (r \o <<fr>>)[k] = stack[k]
  BY <1>1, <1>2, <1>3, <1>4
<1>6. /\ Len(r \o <<fr, g>>) = Len(stack) + 1
      /\ (r \o <<fr, g>>)[Len(stack)] = fr /\ (r \o <<fr, g>>)[Len(stack) + 1] = g
      /\ \A k \in 1 .. Len(stack) - 1 : (r \o <<fr, g>>)[k] = stack[k]
  BY <1>1, <1>2, <1>3, <1>4
<1> QED BY <1>1, <1>2, <1>5, <1>6 DEF Return, Continue, Call, r

(* A step that counts nothing and neither registers a device nor goes on with it. *)
LEMMA CountsQuiet ==
    ASSUME StackInv, CountsInv, stack # <<>>, UNCHANGED <<drivers, devices, disabled, probed>>,
           Len(dev') = Len(dev), \A i \in Known : dev'[i].type = dev[i].type,
           Len(stack') \in Len(stack) - 1 .. Len(stack) + 1,
           \A k \in 1 .. Len(stack) - 1 : stack'[k] = stack[k],
           Top.fn # "register",
           \A k \in 1 .. Len(stack') : k \in 1 .. Len(stack) - 1 \/ stack'[k].fn # "register",
           Len(stack) = 1 => /\ (Len(stack') > 0 /\ stack'[1].fn = "first") <=> (stack[1].fn = "first")
                             /\ stack[1].fn = "first" => stack'[1].drv = stack[1].drv /\ stack'[1].dev = stack[1].dev
    PROVE  CountsInv'
<1>1. /\ drivers' = drivers /\ devices' = devices /\ disabled' = disabled /\ probed' = probed
      /\ Listed' = Listed /\ Known' = Known /\ Listed \subseteq Known
      /\ \A i \in Known : dev'[i].type = dev[i].type
  BY DEF Listed, Known, StackInv, ListsTyped
<1>2. \A x, i : Behind(x, i)' <=> Behind(x, i)
  BY <1>1 DEF Behind
<1>3. OneRegister' /\ \A d, i : Pending(d, i)' <=> Pending(d, i)
  <2>1. /\ OneRegister'
        /\ \A d, i : Registering(d, i)' <=> Registering(d, i)
        /\ \A d, i : (\A x : stack[1].fn = "first" /\ x = stack[1].dev => (Behind(x, i)' <=> Behind(x, i)))
                         => (Exploring(d, i)' <=> Exploring(d, i))
    BY PendingStays DEF CountsInv
  <2> QED BY <1>2, <2>1 DEF Pending
<1>4. CountsTyped'
  BY <1>1 DEF CountsInv, CountsTyped
<1>5. \A d, i : i \in Known => (DependsOn(d, i)' <=> DependsOn(d, i))
  BY <1>1 DEF DependsOn
<1>6. Counts'
  BY <1>1, <1>3, <1>5 DEF CountsInv, Counts
<1> QED BY <1>3, <1>4, <1>6 DEF CountsInv

(* A probe that is called by nothing but the loop over the drivers of a first probe or
   of driver_probe_for. *)
LEMMA ProbeWithout ==
    ASSUME StackInv, NEW k \in 1 .. Len(stack), stack[k].fn = "probe",
           stack[k].drv \in {"serial", "vga", "vesa", "bdrive"}
    PROVE  k = 2
<1>1. /\ Len(stack) \in Nat /\ k \in Nat \ {0} /\ k # 1
      /\ stack[k].drv \in Drivers /\ Attr[stack[k].drv].dependsOn = None
  <2>1. stack \in Seq(Activations)
    BY DEF StackInv, StackTyped
  <2>2. Len(stack) \in Nat /\ k \in Nat \ {0}
    BY <2>1
  <2>3. k # 1
    BY DEF StackInv, StackTyped
  <2> QED BY <2>2, <2>3, TreeFacts
<1>2. k - 1 \in 1 .. Len(stack) /\ k - 1 \in 1 .. Len(stack) - 1 /\ k - 1 + 1 = k
  BY <1>1
<1>3. FrameTyped(stack[k - 1]) /\ Follows(stack[k - 1], stack[k])
  <2>1. Follows(stack[k - 1], stack[k - 1 + 1])
    BY <1>2 DEF StackInv, StackTyped
  <2> QED BY <1>2, <2>1 DEF StackInv, StackTyped
<1>4. stack[k - 1].fn # "register"
  <2>1. SUFFICES ASSUME stack[k - 1].fn = "register" PROVE FALSE
    OBVIOUS
  <2>2. dev[stack[k - 1].dev].type \in Types
    BY <1>3, <2>1, DeviceFacts DEF FrameTyped, StackInv
  <2>3. DependsOn(stack[k].drv, stack[k - 1].dev)
    BY <1>3, <2>1 DEF Follows, Takes
  <2> QED BY <1>1, <2>2, <2>3, TreeFacts DEF DependsOn
<1>5. stack[k - 1].fn \in {"first", "probeFor"}
  BY <1>3, <1>4 DEF Follows, Takes
<1>6. k - 1 = 1
  BY <1>2, <1>5 DEF StackInv, StackTyped
<1> QED BY <1>1, <1>6

(* What is registered was made by the probe below. *)
LEMMA RegisterUnder ==
    ASSUME StackInv, NEW k \in 1 .. Len(stack), stack[k].fn = "register"
    PROVE  /\ k - 1 \in 1 .. Len(stack) /\ k \in Nat \ {0, 1, 2} /\ k - 2 \in 1 .. Len(stack)
           /\ stack[k - 1].fn = "probe" /\ stack[k - 1].drv \in TreeDrivers
           /\ dev[stack[k].dev].type = Makes(stack[k - 1].drv)
           /\ Follows(stack[k - 2], stack[k - 1]) /\ FrameTyped(stack[k - 2])
<1>1. Len(stack) \in Nat /\ k \in Nat \ {0} /\ k # 1
  <2>1. stack \in Seq(Activations)
    BY DEF StackInv, StackTyped
  <2>2. Len(stack) \in Nat /\ k \in Nat \ {0}
    BY <2>1
  <2>3. k # 1
    BY DEF StackInv, StackTyped
  <2> QED BY <2>2, <2>3
<1>2. k - 1 \in 1 .. Len(stack) /\ k - 1 \in 1 .. Len(stack) - 1 /\ k - 1 + 1 = k
  BY <1>1
<1>3. Follows(stack[k - 1], stack[k])
  <2>1. Follows(stack[k - 1], stack[k - 1 + 1])
    BY <1>2 DEF StackInv, StackTyped
  <2> QED BY <1>2, <2>1
<1>4. /\ stack[k - 1].fn = "probe" /\ stack[k - 1].drv \in TreeDrivers
      /\ dev[stack[k].dev].type = Makes(stack[k - 1].drv)
  BY <1>3 DEF Follows, Takes
<1>5. k - 1 # 1
  <2>1. stack[1].fn \in {"first", "probeFor", "deregister"}
    <3>1. Len(stack) > 0
      BY <1>1
    <3> QED BY <3>1 DEF StackInv, StackTyped
  <2> QED BY <1>4, <2>1
<1>6. k - 2 \in 1 .. Len(stack) /\ k - 2 \in 1 .. Len(stack) - 1 /\ k - 2 + 1 = k - 1 /\ k # 2
  BY <1>1, <1>2, <1>5
<1>7. Follows(stack[k - 2], stack[k - 2 + 1]) /\ FrameTyped(stack[k - 2])
  BY <1>6 DEF StackInv, StackTyped
<1> QED BY <1>1, <1>2, <1>4, <1>6, <1>7

(* During the first probe of a driver that depends on a type no device of that type is
   being registered. *)
LEMMA NoneOfItsOwn ==
    ASSUME StackInv, NEW k \in 1 .. Len(stack), stack[k].fn = "register",
           stack[1].fn = "first", Loops(stack[1].drv)
    PROVE  ~DependsOn(stack[1].drv, stack[k].dev)
<1> SUFFICES ASSUME DependsOn(stack[1].drv, stack[k].dev) PROVE FALSE
  OBVIOUS
<1>1. /\ k - 1 \in 1 .. Len(stack) /\ k \in Nat \ {0, 1, 2} /\ k - 2 \in 1 .. Len(stack)
      /\ stack[k - 1].fn = "probe" /\ stack[k - 1].drv \in TreeDrivers
      /\ dev[stack[k].dev].type = Makes(stack[k - 1].drv)
      /\ Follows(stack[k - 2], stack[k - 1])
  BY RegisterUnder
\* The probe that a first probe calls is that of its driver.
<1>2. ASSUME NEW j \in 1 .. Len(stack), j = 2, stack[j].fn = "probe"
      PROVE  stack[j].drv = stack[1].drv
  <2>1. 1 \in 1 .. Len(stack) - 1 /\ 1 + 1 = j
    <3>1. Len(stack) \in Nat
      BY ElementsOf DEF StackInv, StackTyped
    <3> QED BY <1>2, <3>1
  <2>2. Follows(stack[1], stack[j])
    <3>1. Follows(stack[1], stack[1 + 1])
      BY <2>1 DEF StackInv, StackTyped
    <3> QED BY <2>1, <3>1
  <2> QED BY <2>2 DEF Follows, Takes
<1>3. \A d \in {"serial", "vga", "vesa", "bdrive"} : ~Loops(d)
  BY TreeFacts
<1>4. CASE stack[k - 1].drv \in {"serial", "vga", "vesa", "bdrive"}
  <2>1. k - 1 = 2
    BY <1>1, <1>4, ProbeWithout
  <2> QED BY <1>1, <1>2, <1>3, <1>4, <2>1
<1>5. CASE stack[k - 1].drv \in {"fbcon", "fat"}
  <2>1. dev[stack[k].dev].type \in {"con", "fs"}
    BY <1>1, <1>5 DEF Makes
  <2>2. Attr[stack[k - 1].drv].dependsOn \in {"framebuffer", "block"}
    BY <1>5, TreeFacts
  <2>3. CASE k - 1 = 2
    BY <1>1, <1>2, <2>1, <2>2, <2>3 DEF DependsOn
  <2>4. CASE k - 1 # 2
    <3>1. k - 2 # 1
      BY <1>1, <2>4
    <3>2. stack[k - 2].fn \notin {"first", "probeFor"}
      BY <1>1, <3>1 DEF StackInv, StackTyped
    <3>3. stack[k - 2].fn = "register" /\ DependsOn(stack[k - 1].drv, stack[k - 2].dev)
      BY <1>1, <3>2 DEF Follows, Takes
    <3>4. dev[stack[k - 2].dev].type \in {"framebuffer", "block"}
      BY <2>2, <3>3 DEF DependsOn
    <3>5. PICK l \in 1 .. Len(stack) : l = k - 2
      BY <1>1
    <3>6. /\ l - 1 \in 1 .. Len(stack) /\ stack[l - 1].fn = "probe" /\ stack[l - 1].drv \in TreeDrivers
          /\ dev[stack[l].dev].type = Makes(stack[l - 1].drv)
      BY <3>3, <3>5, RegisterUnder
    <3>7. stack[l - 1].drv \in {"vesa", "bdrive"}
      BY <3>4, <3>5, <3>6 DEF Makes, TreeDrivers
    <3>8. l - 1 = 2
      BY <3>6, <3>7, ProbeWithout
    <3> QED BY <1>2, <1>3, <3>6, <3>7, <3>8
  <2> QED BY <2>3, <2>4
<1> QED BY <1>1, <1>4, <1>5 DEF TreeDrivers

(* device_register counts the device for a driver it probes. *)
LEMMA CountsRegister ==
    ASSUME StackInv, CountsInv, RegisterStep
    PROVE  CountsInv'
<1>1. /\ stack # <<>> /\ Top.fn = "register"
      /\ drivers' = drivers /\ devices' = devices /\ dev' = dev /\ disabled' = disabled
      /\ Listed' = Listed /\ Known' = Known
      /\ \A x, i : Behind(x, i)' <=> Behind(x, i)
  BY DEF RegisterStep, Running, Idle, Listed, Known, Behind
<1>2. /\ Top \in Activations /\ Top.dev \in Known /\ Top.at \in Nat /\ Top.at <= Len(drivers)
      /\ Len(drivers) \in Nat /\ drivers \in Seq(Drivers) /\ Listed \subseteq Known
      /\ \A a, b \in 1 .. Len(drivers) : drivers[a] = drivers[b] => a = b
      /\ Top = stack[Len(stack)] /\ Len(stack) \in Nat \ {0} /\ Len(stack) # 1
  BY <1>1, TopFacts, ElementsOf DEF FrameTyped, StackInv, ListsTyped
<1>3. \A n \in Nat \ {0, 1} : /\ \A k \in 1 .. n : k = n \/ k \in 1 .. n - 1
                              /\ \A k \in 1 .. n - 1 : k \in 1 .. n /\ k \in 1 .. n + 1 /\ k # n
                              /\ \A k \in 1 .. n + 1 : k = n + 1 \/ k \in 1 .. n
                              /\ n \in 1 .. n /\ n \in 1 .. n + 1 /\ 1 \in 1 .. n - 1 /\ n + 1 # n /\ n > 0
                              /\ n - 1 > 0 /\ n + 1 > 0
  OBVIOUS
\* Nothing else registers the device.
<1>4. \A k \in 1 .. Len(stack) - 1 : stack[k].fn = "register" => stack[k].dev # Top.dev
  BY <1>1, <1>2, <1>3 DEF CountsInv, OneRegister
<1>5. CASE Top.at = Len(drivers)
  <2>1. Return /\ probed' = probed
    BY <1>5 DEF RegisterStep
  <2>2. Len(stack') = Len(stack) - 1 /\ \A k \in 1 .. Len(stack) - 1 : stack'[k] = stack[k]
    BY <1>1, <2>1, Shapes
  <2>3. OneRegister'
    BY <1>2, <1>3, <2>2 DEF CountsInv, OneRegister
  <2>4. \A d, i : Registering(d, i)' <=> Registering(d, i)
    <3>1. \A k \in 1 .. Len(stack) : stack[k].fn = "register" /\ (\E j \in 1 .. Len(drivers) : j > stack[k].at)
             => k \in 1 .. Len(stack) - 1
      BY <1>2, <1>3, <1>5
    <3> QED BY <1>1, <1>2, <1>3, <2>2, <3>1 DEF Registering
  <2>5. \A d, i : Exploring(d, i)' <=> Exploring(d, i)
    <3>1. stack'[1] = stack[1] /\ Len(stack') > 0 /\ Len(stack) > 0
      BY <1>2, <1>3, <2>2
    <3> QED BY <1>1, <3>1 DEF Exploring, Behind
  <2>6. CountsTyped'
    BY <1>1, <2>1 DEF CountsInv, CountsTyped
  <2>7. Counts'
    BY <1>1, <2>1, <2>4, <2>5 DEF CountsInv, Counts, Pending, DependsOn
  <2> QED BY <2>3, <2>6, <2>7 DEF CountsInv
<1>6. CASE Top.at # Len(drivers)
  <2>1. PICK d0 \in ToSet(drivers), i0 \in Known, n \in 1 .. Len(drivers) :
           d0 = drivers[n] /\ i0 = Top.dev /\ n = Top.at + 1
    <3>1. PICK n \in 1 .. Len(drivers) : n = Top.at + 1
      BY <1>2, <1>6
    <3>2. drivers \in Seq(Drivers) /\ Top.dev \in Known
      BY <1>2
    <3>3. drivers[n] \in ToSet(drivers)
      BY <3>1, <3>2, ElementsOf
    <3> QED BY <3>1, <3>2, <3>3
  <2>2. PICK fr : fr = [Top EXCEPT !.at = @ + 1]
    OBVIOUS
  <2>3. fr.fn = "register" /\ fr.dev = i0 /\ fr.at = n
    BY <1>1, <1>2, <2>1, <2>2 DEF Activations
  <2>4. \/ DependsOn(d0, i0) /\ Call(fr, Probe(d0, i0)) /\ probed' = Counted(d0, i0)
        \/ ~DependsOn(d0, i0) /\ Continue(fr) /\ probed' = probed
    BY <1>6, <2>1, <2>2 DEF RegisterStep
  <2>5. /\ Len(stack') \in {Len(stack), Len(stack) + 1} /\ stack'[Len(stack)] = fr
        /\ Len(stack') = Len(stack) + 1 => stack'[Len(stack) + 1].fn = "probe"
        /\ \A k \in 1 .. Len(stack) - 1 : stack'[k] = stack[k]
    <3>1. PICK g : g = Probe(d0, i0)
      OBVIOUS
    <3>2. g.fn = "probe"
      BY <3>1 DEF Probe, Frame
    <3>3. Call(fr, g) \/ Continue(fr)
      BY <2>4, <3>1
    <3> QED BY <1>1, <1>2, <1>3, <3>2, <3>3, Shapes
  <2>6. /\ \A k \in 1 .. Len(stack') : stack'[k].fn = "register" => k \in 1 .. Len(stack)
        /\ \A k \in 1 .. Len(stack) : k \in 1 .. Len(stack') /\ stack'[k].fn = stack[k].fn
              /\ (stack[k].fn = "register" => stack'[k].dev = stack[k].dev)
    BY <1>1, <1>2, <1>3, <2>1, <2>3, <2>5
  <2>7. OneRegister'
    BY <2>6 DEF CountsInv, OneRegister
  <2>8. \A d, i : Registering(d, i)' => Registering(d, i) /\ ~(d = d0 /\ i = i0)
    <3> SUFFICES ASSUME NEW d, NEW i, Registering(d, i)'
                 PROVE  Registering(d, i) /\ ~(d = d0 /\ i = i0)
      OBVIOUS
    <3>1. PICK k \in 1 .. Len(stack'), j \in 1 .. Len(drivers) :
            stack'[k].fn = "register" /\ stack'[k].dev = i /\ j > stack'[k].at /\ drivers[j] = d
      BY <1>1 DEF Registering
    <3>2. k \in 1 .. Len(stack) /\ stack[k].fn = "register" /\ stack[k].dev = i
      BY <2>6, <3>1
    <3>3. CASE k = Len(stack)
      <4>1. j > n /\ j > Top.at /\ stack[k].at = Top.at
        BY <1>2, <2>1, <2>3, <2>5, <3>1, <3>3
      <4>2. d # d0
        BY <1>2, <2>1, <3>1, <4>1
      <4> QED BY <3>1, <3>2, <4>1, <4>2 DEF Registering
    <3>4. CASE k # Len(stack)
      <4>1. k \in 1 .. Len(stack) - 1 /\ stack'[k] = stack[k]
        BY <1>2, <1>3, <2>5, <3>2, <3>4
      <4>2. i # i0
        BY <1>4, <2>1, <3>2, <4>1
      <4> QED BY <3>1, <3>2, <4>1, <4>2 DEF Registering
    <3> QED BY <3>3, <3>4
  <2>9. \A d, i : Registering(d, i) => Registering(d, i)' \/ (d = d0 /\ i = i0)
    <3>1. SUFFICES ASSUME NEW d, NEW i, NEW k \in 1 .. Len(stack), stack[k].fn = "register",
                          stack[k].dev = i, NEW j \in 1 .. Len(drivers), j > stack[k].at, drivers[j] = d
                   PROVE  Registering(d, i)' \/ (d = d0 /\ i = i0)
      BY DEF Registering
    <3>2. k \in 1 .. Len(stack') /\ stack'[k].fn = "register" /\ stack'[k].dev = i
      BY <2>6, <3>1
    <3>3. CASE k = Len(stack)
      <4>1. j > Top.at /\ stack'[k].at = n /\ i = i0
        BY <1>2, <2>1, <2>3, <2>5, <3>1, <3>3
      <4>2. CASE j = n
        BY <2>1, <3>1, <4>1, <4>2
      <4>3. CASE j # n
        <5>1. j > stack'[k].at
          BY <1>2, <2>1, <4>1, <4>3
        <5> QED BY <1>1, <3>1, <3>2, <5>1 DEF Registering
      <4> QED BY <4>2, <4>3
    <3>4. CASE k # Len(stack)
      <4>1. k \in 1 .. Len(stack) - 1 /\ stack'[k] = stack[k]
        BY <1>2, <1>3, <2>5, <3>1, <3>4
      <4> QED BY <1>1, <3>1, <3>2, <4>1 DEF Registering
    <3> QED BY <3>3, <3>4
  <2>10. \A d, i : Exploring(d, i)' <=> Exploring(d, i)
    <3>1. stack'[1] = stack[1] /\ Len(stack') > 0 /\ Len(stack) > 0
      <4>1. Len(stack) \in Nat \ {0, 1}
        BY <1>2
      <4>2. 1 \in 1 .. Len(stack) - 1 /\ Len(stack) > 0 /\ Len(stack) + 1 > 0
        BY <1>3, <4>1
      <4> QED BY <2>5, <4>2
    <3> QED BY <1>1, <3>1 DEF Exploring, Behind
  <2>11. Registering(d0, i0)
    <3>1. Len(stack) \in 1 .. Len(stack) /\ n > Top.at
      BY <1>2, <1>3, <2>1
    <3> QED BY <1>1, <1>2, <2>1, <3>1 DEF Registering
  <2>12. DependsOn(d0, i0) => ~Exploring(d0, i0)
    <3>1. SUFFICES ASSUME DependsOn(d0, i0), Exploring(d0, i0) PROVE FALSE
      OBVIOUS
    <3>2. stack[1].fn = "first" /\ stack[1].drv = d0
      BY <3>1 DEF Exploring
    <3>3. Loops(d0)
      <4>1. d0 \in Drivers /\ dev[i0].type \in Types
        BY <1>2, <2>1, ElementsOf, DeviceFacts DEF StackInv
      <4> QED BY <3>1, <4>1, TreeFacts DEF DependsOn
    <3>4. Len(stack) \in 1 .. Len(stack) /\ stack[Len(stack)].fn = "register"
      BY <1>1, <1>2, <1>3
    <3> QED BY <1>2, <2>1, <3>1, <3>2, <3>3, <3>4, NoneOfItsOwn
  <2>13. CASE ~DependsOn(d0, i0)
    <3>1. probed' = probed
      BY <2>4, <2>13
    <3>2. CountsTyped'
      BY <1>1, <3>1 DEF CountsInv, CountsTyped
    <3>3. Counts'
      BY <1>1, <2>8, <2>9, <2>10, <2>13, <3>1 DEF CountsInv, Counts, Pending, DependsOn
    <3> QED BY <2>7, <3>2, <3>3 DEF CountsInv
  <2>14. CASE DependsOn(d0, i0)
    <3>1. /\ d0 \in Drivers /\ i0 # NoDevice
          /\ probed' = [probed EXCEPT ![d0] = [probed[d0] EXCEPT ![i0] = probed[d0][i0] + 1]]
      <4>1. d0 \in Drivers /\ i0 # NoDevice
        BY <1>2, <2>1, ElementsOf, DeviceFacts DEF StackInv, Known, NoDevice
      <4> QED BY <2>4, <2>14, <4>1 DEF Counted
    <3>2. /\ probed' \in [Drivers -> [Ids -> Nat]]
          /\ \A d \in Drivers, i \in Ids : ~(d = d0 /\ i = i0) => probed'[d][i] = probed[d][i]
          /\ i0 \in Ids => probed'[d0][i0] = probed[d0][i0] + 1
      <4>1. probed \in [Drivers -> [Ids -> Nat]]
        BY DEF CountsInv, CountsTyped
      <4>2. PICK row : row = [probed[d0] EXCEPT ![i0] = probed[d0][i0] + 1]
        OBVIOUS
      <4>3. /\ row \in [Ids -> Nat] /\ (i0 \in Ids => row[i0] = probed[d0][i0] + 1)
            /\ \A i \in Ids : i # i0 => row[i] = probed[d0][i]
        <5>1. probed[d0] \in [Ids -> Nat]
          BY <3>1, <4>1
        <5>2. i0 \in Ids => probed[d0][i0] \in Nat
          BY <5>1
        <5>3. PICK c : c = probed[d0][i0] + 1
          OBVIOUS
        <5>4. i0 \in Ids => c \in Nat
          BY <5>2, <5>3
        <5>5. row = [probed[d0] EXCEPT ![i0] = c]
          BY <4>2, <5>3
        <5>6. row \in [Ids -> Nat]
          BY <5>1, <5>4, <5>5
        <5> QED BY <5>1, <5>3, <5>5, <5>6
      <4>4. probed' = [probed EXCEPT ![d0] = row]
        BY <3>1, <4>2
      <4> QED BY <3>1, <4>1, <4>3, <4>4
    <3>3. CountsTyped'
      BY <1>1, <2>1, <3>2 DEF CountsInv, CountsTyped
    <3>4. ASSUME Known \subseteq Ids, NEW d \in ToSet(drivers), NEW i \in Listed, ~disabled[d], DependsOn(d, i)
          PROVE  probed'[d][i] = IF Pending(d, i)' THEN 0 ELSE 1
      <4>1. probed[d][i] = IF Pending(d, i) THEN 0 ELSE 1
        BY <3>4 DEF CountsInv, Counts
      <4>2. d \in Drivers /\ i \in Ids
        BY <1>2, <3>4, ElementsOf
      <4>3. CASE d = d0 /\ i = i0
        <5>1. Pending(d, i) /\ ~Pending(d, i)'
          BY <2>8, <2>10, <2>11, <2>12, <2>14, <4>3 DEF Pending
        <5>2. probed[d0][i0] = 0 /\ i0 \in Ids
          BY <4>1, <4>2, <4>3, <5>1
        <5> QED BY <3>2, <4>3, <5>1, <5>2
      <4>4. CASE ~(d = d0 /\ i = i0)
        <5>1. Pending(d, i)' <=> Pending(d, i)
          BY <2>8, <2>9, <2>10, <4>4 DEF Pending
        <5> QED BY <3>2, <4>1, <4>2, <4>4, <5>1
      <4> QED BY <4>3, <4>4
    <3>5. Counts'
      BY <1>1, <3>4 DEF Counts, DependsOn
    <3> QED BY <2>7, <3>3, <3>5 DEF CountsInv
  <2> QED BY <2>13, <2>14
<1> QED BY <1>5, <1>6

(* The types of the devices, and so what depends on them, are what they were. *)
SameTypes == Len(dev') = Len(dev) /\ \A i \in Known : dev'[i].type = dev[i].type

(* A step that leaves alone everything that counts. *)
LEMMA CountsSame ==
    ASSUME CountsInv, UNCHANGED <<drivers, devices, dev, disabled, probed, stack>>
    PROVE  CountsInv'
<1>1. /\ drivers' = drivers /\ devices' = devices /\ dev' = dev /\ disabled' = disabled
      /\ probed' = probed /\ stack' = stack /\ Listed' = Listed /\ Known' = Known
  BY DEF Listed, Known
<1>2. \A d, i : Pending(d, i)' <=> Pending(d, i)
  BY <1>1 DEF Pending, Registering, Exploring, Behind
<1>3. CountsTyped' /\ OneRegister'
  BY <1>1 DEF CountsInv, CountsTyped, OneRegister
<1>4. Counts'
  BY <1>1, <1>2 DEF CountsInv, Counts, DependsOn
<1> QED BY <1>3, <1>4 DEF CountsInv

(* An activation returns, or goes on with its driver and its device, and calls what
   registers nothing. *)
LEMMA CountsCalm ==
    ASSUME StackInv, CountsInv, stack # <<>>, Top.fn # "register",
           UNCHANGED <<drivers, devices, disabled, probed>>, SameTypes,
           \/ Return /\ Top.fn # "first"
           \/ \E fr, g : /\ Continue(fr) \/ (Call(fr, g) /\ g.fn # "register")
                         /\ fr.fn = Top.fn /\ fr.drv = Top.drv /\ fr.dev = Top.dev
    PROVE  CountsInv'
<1>1. Len(stack) \in Nat \ {0} /\ Top = stack[Len(stack)]
  BY TopFacts
<1>2. \A n \in Nat \ {0} : /\ n - 1 \in n - 1 .. n + 1 /\ n \in n - 1 .. n + 1 /\ n + 1 \in n - 1 .. n + 1
                           /\ \A k \in 1 .. n : k \in 1 .. n - 1 \/ k = n
                           /\ \A k \in 1 .. n + 1 : k \in 1 .. n - 1 \/ k = n \/ k = n + 1
                           /\ n + 1 > 0 /\ n > 0
  OBVIOUS
<1>3. /\ Len(stack) - 1 \in Len(stack) - 1 .. Len(stack) + 1 /\ Len(stack) \in Len(stack) - 1 .. Len(stack) + 1
      /\ Len(stack) + 1 \in Len(stack) - 1 .. Len(stack) + 1
      /\ \A k \in 1 .. Len(stack) : k \in 1 .. Len(stack) - 1 \/ k = Len(stack)
      /\ \A k \in 1 .. Len(stack) + 1 : k \in 1 .. Len(stack) - 1 \/ k = Len(stack) \/ k = Len(stack) + 1
      /\ Len(stack) + 1 > 0 /\ Len(stack) > 0
  BY <1>1, <1>2
<1>4. UNCHANGED <<drivers, devices, disabled, probed>> /\ Len(dev') = Len(dev)
      /\ \A i \in Known : dev'[i].type = dev[i].type
  BY DEF SameTypes
<1>5. CASE Return /\ Top.fn # "first"
  <2>1. Len(stack') = Len(stack) - 1 /\ \A k \in 1 .. Len(stack) - 1 : stack'[k] = stack[k]
    BY <1>5, Shapes
  <2>2. Len(stack) = 1 => ~(Len(stack') > 0) /\ stack[1].fn # "first"
    BY <1>1, <1>5, <2>1
  <2> QED BY <1>3, <1>4, <2>1, <2>2, CountsQuiet
<1>6. ASSUME NEW fr, NEW g, Continue(fr), fr.fn = Top.fn, fr.drv = Top.drv, fr.dev = Top.dev
      PROVE  CountsInv'
  <2>1. /\ Len(stack') = Len(stack) /\ stack'[Len(stack)] = fr
        /\ \A k \in 1 .. Len(stack) - 1 : stack'[k] = stack[k]
    BY <1>6, Shapes
  <2>2. Len(stack) = 1 => /\ Len(stack') > 0 /\ stack'[1].fn = stack[1].fn
                          /\ stack'[1].drv = stack[1].drv /\ stack'[1].dev = stack[1].dev
    BY <1>1, <1>6, <2>1
  <2>3. \A k \in 1 .. Len(stack') : k \in 1 .. Len(stack) - 1 \/ stack'[k].fn # "register"
    BY <1>3, <1>6, <2>1
  <2> QED BY <1>3, <1>4, <2>1, <2>2, <2>3, CountsQuiet
<1>7. ASSUME NEW fr, NEW g, Call(fr, g), g.fn # "register",
             fr.fn = Top.fn, fr.drv = Top.drv, fr.dev = Top.dev
      PROVE  CountsInv'
  <2>1. /\ Len(stack') = Len(stack) + 1 /\ stack'[Len(stack)] = fr /\ stack'[Len(stack) + 1] = g
        /\ \A k \in 1 .. Len(stack) - 1 : stack'[k] = stack[k]
    BY <1>7, Shapes
  <2>2. Len(stack) = 1 => /\ Len(stack') > 0 /\ stack'[1].fn = stack[1].fn
                          /\ stack'[1].drv = stack[1].drv /\ stack'[1].dev = stack[1].dev
    BY <1>1, <1>7, <2>1
  <2>3. \A k \in 1 .. Len(stack') : k \in 1 .. Len(stack) - 1 \/ stack'[k].fn # "register"
    BY <1>3, <1>7, <2>1
  <2> QED BY <1>3, <1>4, <2>1, <2>2, <2>3, CountsQuiet
<1> QED BY <1>5, <1>6, <1>7

(* A device leaves the list. *)
LEMMA CountsRemoval ==
    ASSUME StackInv, CountsInv, stack # <<>>, Top.fn = "deregister", Return,
           Top.dev \in Listed, devices' = RemoveFirst(devices, Top.dev),
           dev' = [dev EXCEPT ![Top.dev].subdevices = <<>>],
           UNCHANGED <<drivers, disabled, firstProbe, probed>>
    PROVE  CountsInv'
<1>1. /\ devices \in Seq(Nat) /\ Listed \subseteq Known
      /\ \A a, b \in 1 .. Len(devices) : devices[a] = devices[b] => a = b
      /\ drivers' = drivers /\ disabled' = disabled /\ firstProbe' = firstProbe /\ probed' = probed
  BY DEF StackInv, ListsTyped
<1>2. /\ devices' \in Seq(Nat) /\ Listed' = Listed \ {Top.dev}
      /\ \A y, z \in Listed \ {Top.dev} : Behind(y, z)' <=> Behind(y, z)
  <2>1. /\ RemoveFirst(devices, Top.dev) \in Seq(Nat)
        /\ ToSet(RemoveFirst(devices, Top.dev)) = ToSet(devices) \ {Top.dev}
        /\ \A y, z \in ToSet(devices) \ {Top.dev} :
              Before(RemoveFirst(devices, Top.dev), y, z) <=> Before(devices, y, z)
    BY <1>1, Removed DEF Listed
  <2> QED BY <2>1 DEF Listed, Behind
<1>3. Len(dev') = Len(dev) /\ Len(dev) \in Nat
      /\ \A i \in Known : dev'[i].name = dev[i].name /\ dev'[i].type = dev[i].type
  BY <1>1, Unbound
<1>4. SameWorld /\ Known' = Known
  BY <1>1, <1>3 DEF SameWorld, Known
<1>5. /\ Len(stack) \in Nat \ {0} /\ Top = stack[Len(stack)] /\ Len(stack') = Len(stack) - 1
      /\ \A k \in 1 .. Len(stack) - 1 : stack'[k] = stack[k]
      /\ stack \in Seq(Activations)
  BY Shapes DEF StackInv, StackTyped
<1>6. \A n \in Nat \ {0} : /\ n - 1 \in n - 1 .. n + 1 /\ n - 1 \in Nat
                           /\ n # 1 => 1 \in 1 .. n - 1 /\ 1 \in 1 .. n
  OBVIOUS
\* The loop of a first probe does not stand on the device.
<1>7. ASSUME NEW x, stack[1].fn = "first", x = stack[1].dev
      PROVE  x \in (Listed \ {Top.dev}) \cup {NoDevice}
  <2>1. Len(stack) # 1
    BY <1>5, <1>7
  <2>2. 1 \in 1 .. Len(stack) - 1 /\ 1 \in 1 .. Len(stack)
    BY <1>5, <1>6, <2>1
  <2>3. PICK f \in Activations : f = stack[1]
    BY <1>5, <2>2
  <2>4. FrameTyped(f)'
    BY <1>1, <1>2, <1>4, <2>2, <2>3, RemovedUnder
  <2>5. f.dev \in Listed' \cup {NoDevice}
    BY <1>7, <2>3, <2>4 DEF FrameTyped, FirstTyped
  <2> QED BY <1>2, <1>7, <2>3, <2>5
<1>8. ~ (NoDevice \in Known)
  BY DEF NoDevice, Known
<1>9. ASSUME NEW i \in Listed', NEW x, stack[1].fn = "first", x = stack[1].dev
      PROVE  Behind(x, i)' <=> Behind(x, i)
  <2>1. CASE x \in Listed \ {Top.dev}
    BY <1>2, <1>9, <2>1
  <2>2. CASE x = NoDevice
    <3>1. \A a \in 1 .. Len(devices) : devices[a] \in ToSet(devices)
      BY <1>1, ElementsOf
    <3>2. \A a \in 1 .. Len(devices') : devices'[a] \in ToSet(devices')
      BY <1>2, ElementsOf
    <3>3. /\ \A a \in 1 .. Len(devices) : devices[a] # NoDevice
          /\ \A a \in 1 .. Len(devices') : devices'[a] # NoDevice
      BY <1>1, <1>2, <1>8, <3>1, <3>2 DEF Listed
    <3> QED BY <2>2, <3>3 DEF Behind, Before
  <2> QED BY <1>7, <1>9, <2>1, <2>2
<1>10. /\ OneRegister'
       /\ \A d, i : Registering(d, i)' <=> Registering(d, i)
       /\ \A d, i : (\A x : stack[1].fn = "first" /\ x = stack[1].dev => (Behind(x, i)' <=> Behind(x, i)))
                        => (Exploring(d, i)' <=> Exploring(d, i))
  <2>1. Len(stack) = 1 => ~(Len(stack') > 0) /\ stack[1].fn # "first"
    BY <1>5
  <2>2. Len(stack') \in Len(stack) - 1 .. Len(stack) + 1
        /\ \A k \in 1 .. Len(stack') : k \in 1 .. Len(stack) - 1
    BY <1>5, <1>6
  <2> QED BY <1>1, <1>5, <2>1, <2>2, PendingStays DEF CountsInv
<1>11. \A d : \A i \in Listed' : Pending(d, i)' <=> Pending(d, i)
  BY <1>9, <1>10 DEF Pending
<1>12. CountsTyped'
  BY <1>1, <1>4 DEF CountsInv, CountsTyped
<1>13. \A d : \A i \in Listed' : i \in Listed /\ i \in Known /\ (DependsOn(d, i)' <=> DependsOn(d, i))
  BY <1>1, <1>2, <1>3 DEF DependsOn
<1>14. Counts'
  BY <1>1, <1>4, <1>11, <1>13 DEF CountsInv, Counts
<1> QED BY <1>10, <1>12, <1>14 DEF CountsInv

(* device_deregister. *)
LEMMA CountsDeregister ==
    ASSUME StackInv, CountsInv, DeregisterStep
    PROVE  CountsInv'
<1>1. /\ stack # <<>> /\ Top.fn = "deregister"
      /\ UNCHANGED <<drivers, disabled, firstProbe, probed>>
  BY DEF DeregisterStep, Running, Idle
<1>2. CASE Top.dev \notin Listed
  <2>1. Return /\ UNCHANGED <<devices, dev>>
    BY <1>1, <1>2 DEF DeregisterStep, Listed
  <2> QED BY <1>1, <2>1, CountsCalm DEF SameTypes
<1>3. CASE Top.dev \in Listed /\ Top.at < Len(Doomed(Top.dev))
  <2>1. UNCHANGED <<devices, dev>>
    BY <1>1, <1>3 DEF DeregisterStep, Listed
  <2>2. PICK fr : fr = [Top EXCEPT !.at = @ + 1]
    OBVIOUS
  <2>3. PICK g : g = Frame("deregister", None, Doomed(Top.dev)[Top.at + 1], 0, NoDevice)
    OBVIOUS
  <2>4. Call(fr, g) /\ g.fn = "deregister"
    BY <1>3, <2>2, <2>3 DEF DeregisterStep, Listed, Frame
  <2>5. fr.fn = Top.fn /\ fr.drv = Top.drv /\ fr.dev = Top.dev
    BY <1>1, <2>2, TopFacts DEF Activations
  <2> QED BY <1>1, <2>1, <2>4, <2>5, CountsCalm DEF SameTypes
<1>4. CASE Top.dev \in Listed /\ ~(Top.at < Len(Doomed(Top.dev)))
  <2>1. /\ dev' = [dev EXCEPT ![Top.dev].subdevices = <<>>]
        /\ devices' = RemoveFirst(devices, Top.dev) /\ Return
    BY <1>4 DEF DeregisterStep, Listed
  <2> QED BY <1>1, <1>4, <2>1, CountsRemoval
<1> QED BY <1>2, <1>3, <1>4

(* driver_probe_for. *)
LEMMA CountsProbeFor ==
    ASSUME StackInv, CountsInv, ProbeForStep
    PROVE  CountsInv'
<1>1. /\ stack # <<>> /\ Top.fn = "probeFor"
      /\ UNCHANGED <<drivers, devices, dev, disabled, probed>>
  BY DEF ProbeForStep, Running, Idle
<1>2. CASE Top.at = Len(drivers)
  BY <1>1, <1>2, CountsCalm DEF ProbeForStep, SameTypes
<1>3. CASE Top.at # Len(drivers)
  <2>1. PICK fr : fr = [Top EXCEPT !.at = @ + 1]
    OBVIOUS
  <2>2. PICK g : g = Probe(drivers[Top.at + 1], NoDevice)
    OBVIOUS
  <2>3. (Call(fr, g) \/ Continue(fr)) /\ g.fn = "probe"
    BY <1>3, <2>1, <2>2 DEF ProbeForStep, Probe, Frame
  <2>4. fr.fn = Top.fn /\ fr.drv = Top.drv /\ fr.dev = Top.dev
    BY <1>1, <2>1, TopFacts DEF Activations
  <2> QED BY <1>1, <2>3, <2>4, CountsCalm DEF SameTypes
<1> QED BY <1>2, <1>3
----------------------------------------------------------------------------
(* The loop of driver_first_probe. *)

(* Behind the device that is next stand those that stand behind this one, but the next. *)
LEMMA NextInOrder ==
    ASSUME StackInv, NEW x \in Listed \cup {NoDevice}
    PROVE  /\ NextDevice(x) = NoDevice => \A i \in Listed : x # NoDevice /\ ~Behind(x, i)
           /\ NextDevice(x) # NoDevice =>
                 /\ ~Behind(NextDevice(x), NextDevice(x))
                 /\ \A i \in Listed : x = NoDevice \/ Behind(x, i)
                                      <=> i = NextDevice(x) \/ Behind(NextDevice(x), i)
<1>1. /\ devices \in Seq(Nat) /\ Len(devices) \in Nat /\ DOMAIN devices = 1 .. Len(devices)
      /\ \A a, b \in 1 .. Len(devices) : devices[a] = devices[b] => a = b
      /\ \A a \in 1 .. Len(devices) : devices[a] \in Listed
      /\ \A i \in Listed : \E a \in 1 .. Len(devices) : devices[a] = i
      /\ Listed \subseteq Known /\ NoDevice \notin Known
  BY ElementsOf DEF StackInv, ListsTyped, Listed, NoDevice, Known
<1> DEFINE k == IF x = NoDevice THEN 0 ELSE CHOOSE j \in DOMAIN devices : devices[j] = x
<1>2. k \in 0 .. Len(devices) /\ (x = NoDevice <=> k = 0) /\ (x # NoDevice => devices[k] = x)
  <2>1. CASE x = NoDevice
    BY <1>1, <2>1
  <2>2. CASE x # NoDevice
    <3>1. \E j \in DOMAIN devices : devices[j] = x
      BY <1>1, <2>2
    <3>2. k \in DOMAIN devices /\ devices[k] = x
      BY <2>2, <3>1
    <3> HIDE DEF k
    <3> QED BY <1>1, <2>2, <3>2
  <2> QED BY <2>1, <2>2
<1>3. NextDevice(x) = IF k < Len(devices) THEN devices[k + 1] ELSE NoDevice
  BY DEF NextDevice
<1> HIDE DEF k
\* What stands behind a device, by its place in the list.
<1>4. ASSUME NEW a \in 1 .. Len(devices), NEW b \in 1 .. Len(devices)
      PROVE  Behind(devices[a], devices[b]) <=> a < b
  BY <1>1 DEF Behind, Before
<1>5. CASE ~(k < Len(devices))
  <2>1. k = Len(devices) /\ NextDevice(x) = NoDevice
    <3>1. k = Len(devices)
      BY <1>1, <1>2, <1>5
    <3> QED BY <1>3, <1>5, <3>1
  <2>2. ASSUME NEW i \in Listed PROVE x # NoDevice /\ ~Behind(x, i)
    <3>1. PICK b \in 1 .. Len(devices) : devices[b] = i
      BY <1>1
    <3>2. k \in 1 .. Len(devices) /\ ~(k < b)
      BY <1>1, <2>1
    <3>3. x # NoDevice /\ devices[k] = x
      BY <1>2, <3>2
    <3> QED BY <1>4, <3>1, <3>2, <3>3
  <2> QED BY <2>1, <2>2
<1>6. CASE k < Len(devices)
  <2>1. k + 1 \in 1 .. Len(devices) /\ NextDevice(x) = devices[k + 1] /\ NextDevice(x) # NoDevice
    BY <1>1, <1>2, <1>3, <1>6
  <2>2. ~Behind(devices[k + 1], devices[k + 1])
    BY <1>2, <1>4, <2>1
  <2>3. ASSUME NEW i \in Listed
        PROVE  x = NoDevice \/ Behind(x, i) <=> i = devices[k + 1] \/ Behind(devices[k + 1], i)
    <3>1. PICK b \in 1 .. Len(devices) : devices[b] = i
      BY <1>1
    <3>2. Behind(devices[k + 1], i) <=> k + 1 < b
      BY <1>4, <2>1, <3>1
    <3>3. i = devices[k + 1] <=> b = k + 1
      BY <1>1, <2>1, <3>1
    <3>4. x = NoDevice \/ Behind(x, i) <=> k < b
      <4>1. CASE x = NoDevice
        BY <1>2, <4>1
      <4>2. CASE x # NoDevice
        <5>1. k \in 1 .. Len(devices) /\ devices[k] = x
          BY <1>2, <4>2
        <5> QED BY <1>4, <3>1, <4>2, <5>1
      <4> QED BY <4>1, <4>2
    <3>5. k < b <=> b = k + 1 \/ k + 1 < b
      BY <1>2
    <3> QED BY <3>2, <3>3, <3>4, <3>5
  <2> QED BY <2>1, <2>2, <2>3
<1> QED BY <1>5, <1>6

(* What is counted with a device for a driver. *)
LEMMA CountedOnce ==
    ASSUME CountsInv, NEW d \in Drivers, NEW i \in Known, probed' = Counted(d, i)
    PROVE  /\ probed' \in [Drivers -> [Ids -> Nat]]
           /\ \A e \in Drivers, j \in Ids : ~(e = d /\ j = i) => probed'[e][j] = probed[e][j]
           /\ i \in Ids => probed'[d][i] = probed[d][i] + 1
<1>1. probed \in [Drivers -> [Ids -> Nat]] /\ probed[d] \in [Ids -> Nat]
  BY DEF CountsInv, CountsTyped
<1>2. PICK c : c = probed[d][i] + 1
  OBVIOUS
<1>3. i \in Ids => c \in Nat
  BY <1>1, <1>2
<1>4. PICK row : row = [probed[d] EXCEPT ![i] = c]
  OBVIOUS
<1>5. /\ row \in [Ids -> Nat] /\ (i \in Ids => row[i] = c)
      /\ \A j \in Ids : j # i => row[j] = probed[d][j]
  BY <1>1, <1>3, <1>4
<1>6. probed' = [probed EXCEPT ![d] = row]
  <2>1. i # NoDevice
    BY DEF Known, NoDevice
  <2> QED BY <1>2, <1>4, <2>1 DEF Counted
<1> QED BY <1>1, <1>2, <1>5, <1>6

(* driver_first_probe. *)
LEMMA CountsFirst ==
    ASSUME StackInv, CountsInv, FirstStep
    PROVE  CountsInv'
<1>1. /\ stack # <<>> /\ Top.fn = "first"
      /\ drivers' = drivers /\ devices' = devices /\ dev' = dev /\ disabled' = disabled
      /\ Listed' = Listed /\ Known' = Known
      /\ \A x, i : Behind(x, i)' <=> Behind(x, i)
  BY DEF FirstStep, Running, Idle, Listed, Known, Behind
<1>2. /\ Top \in Activations /\ FirstTyped(Top) /\ Len(stack) = 1 /\ Top = stack[1]
      /\ Top.drv \in ToSet(drivers) /\ Top.drv \in Drivers /\ Top.dev \in Listed \cup {NoDevice}
      /\ drivers \in Seq(Drivers) /\ ToSet(drivers) \subseteq Drivers /\ Listed \subseteq Known
  <2>1. Top \in Activations /\ FrameTyped(Top) /\ Len(stack) = 1 /\ Top = stack[Len(stack)]
    BY <1>1, TopFacts
  <2>2. drivers \in Seq(Drivers) /\ Listed \subseteq Known
    BY DEF StackInv, ListsTyped
  <2>3. ToSet(drivers) \subseteq Drivers
    BY <2>2, ElementsOf
  <2> QED BY <1>1, <2>1, <2>2, <2>3 DEF FrameTyped, FirstTyped, Activations
<1>3. PICK d0 \in ToSet(drivers) : d0 = Top.drv
  BY <1>2
<1>4. PICK x \in Listed \cup {NoDevice} : x = Top.dev
  BY <1>2
<1>5. PICK i0 : i0 = NextDevice(x)
  OBVIOUS
<1>6. i0 \in Listed \cup {NoDevice}
  BY <1>5, NextFacts
\* Nothing is being registered.
<1>7. \A d, i : Pending(d, i) <=> d = d0 /\ (x = NoDevice \/ Behind(x, i))
  <2>1. \A d, i : ~Registering(d, i)
    BY <1>1, <1>2 DEF Registering
  <2>2. \A d, i : Exploring(d, i) <=> d = d0 /\ (x = NoDevice \/ Behind(x, i))
    BY <1>1, <1>2, <1>3, <1>4 DEF Exploring
  <2> QED BY <2>1, <2>2 DEF Pending
<1>8. CASE Loops(d0) /\ i0 # NoDevice
  <2>1. i0 \in Listed /\ i0 \in Known
    BY <1>2, <1>6, <1>8
  <2>2. PICK fr : fr = [Top EXCEPT !.dev = i0]
    OBVIOUS
  <2>3. fr.fn = "first" /\ fr.drv = d0 /\ fr.dev = i0
    BY <1>1, <1>2, <1>3, <2>2 DEF Activations
  <2>4. PICK g : g = Probe(d0, i0)
    OBVIOUS
  <2>5. \/ DependsOn(d0, i0) /\ Call(fr, g) /\ probed' = Counted(d0, i0)
        \/ ~DependsOn(d0, i0) /\ Continue(fr) /\ probed' = probed
    BY <1>3, <1>4, <1>5, <1>8, <2>2, <2>4 DEF FirstStep, Loops
  <2>6. /\ Len(stack') \in {1, 2} /\ stack'[1].fn = "first" /\ stack'[1].drv = d0 /\ stack'[1].dev = i0
        /\ Len(stack') = 2 => stack'[2].fn = "probe"
    <3>1. g.fn = "probe"
      BY <2>4 DEF Probe, Frame
    <3>2. CASE Call(fr, g)
      <4>1. Len(stack') = Len(stack) + 1 /\ stack'[Len(stack)] = fr /\ stack'[Len(stack) + 1] = g
        BY <1>1, <3>2, Shapes
      <4> QED BY <1>2, <2>3, <3>1, <4>1
    <3>3. CASE Continue(fr)
      <4>1. Len(stack') = Len(stack) /\ stack'[Len(stack)] = fr
        BY <1>1, <3>3, Shapes
      <4> QED BY <1>2, <2>3, <4>1
    <3> QED BY <2>5, <3>2, <3>3
  <2>7. \A k \in 1 .. Len(stack') : stack'[k].fn # "register"
    <3>1. \A n \in {1, 2} : \A k \in 1 .. n : k = 1 \/ (k = 2 /\ n = 2)
      OBVIOUS
    <3>2. \A k \in 1 .. Len(stack') : k = 1 \/ (k = 2 /\ Len(stack') = 2)
      BY <2>6, <3>1
    <3> QED BY <2>6, <3>2
  <2>8. OneRegister'
    BY <2>7 DEF OneRegister
  <2>9. \A d, i : Pending(d, i)' <=> d = d0 /\ Behind(i0, i)
    <3>1. \A d, i : ~Registering(d, i)'
      BY <2>7 DEF Registering
    <3>2. Len(stack') > 0
      BY <2>6
    <3>3. \A d, i : Exploring(d, i)' <=> d = d0 /\ Behind(i0, i)'
      BY <1>8, <2>6, <3>2 DEF Exploring, Behind
    <3> QED BY <1>1, <3>1, <3>3 DEF Pending
  <2>10. /\ ~Behind(i0, i0)
         /\ \A i \in Listed : x = NoDevice \/ Behind(x, i) <=> i = i0 \/ Behind(i0, i)
    BY <1>5, <1>8, NextInOrder
  <2>11. \A d : \A i \in Listed : Pending(d, i) <=> (d = d0 /\ i = i0) \/ Pending(d, i)'
    BY <1>7, <2>9, <2>10
  <2>12. Pending(d0, i0) /\ ~Pending(d0, i0)'
    BY <1>7, <2>1, <2>9, <2>10
  <2>13. CASE ~DependsOn(d0, i0)
    <3>1. probed' = probed
      BY <2>5, <2>13
    <3>2. CountsTyped'
      BY <1>1, <3>1 DEF CountsInv, CountsTyped
    <3>3. \A d : \A i \in Listed : DependsOn(d, i) => (Pending(d, i)' <=> Pending(d, i))
      BY <2>11, <2>13
    <3>4. Counts'
      BY <1>1, <3>1, <3>3 DEF CountsInv, Counts, DependsOn
    <3> QED BY <2>8, <3>2, <3>4 DEF CountsInv
  <2>14. CASE DependsOn(d0, i0)
    <3>1. /\ probed' \in [Drivers -> [Ids -> Nat]]
          /\ \A d \in Drivers, i \in Ids : ~(d = d0 /\ i = i0) => probed'[d][i] = probed[d][i]
          /\ i0 \in Ids => probed'[d0][i0] = probed[d0][i0] + 1
      <4>1. d0 \in Drivers /\ probed' = Counted(d0, i0)
        BY <1>2, <2>5, <2>14
      <4> QED BY <2>1, <4>1, CountedOnce
    <3>2. CountsTyped'
      BY <1>1, <2>1, <3>1 DEF CountsInv, CountsTyped
    <3>3. ASSUME Known \subseteq Ids, NEW d \in ToSet(drivers), NEW i \in Listed, ~disabled[d], DependsOn(d, i)
          PROVE  probed'[d][i] = IF Pending(d, i)' THEN 0 ELSE 1
      <4>1. probed[d][i] = IF Pending(d, i) THEN 0 ELSE 1
        BY <3>3 DEF CountsInv, Counts
      <4>2. d \in Drivers /\ i \in Ids
        BY <1>2, <3>3
      <4>3. CASE d = d0 /\ i = i0
        BY <2>12, <3>1, <4>1, <4>2, <4>3
      <4>4. CASE ~(d = d0 /\ i = i0)
        BY <2>11, <3>1, <3>3, <4>1, <4>2, <4>4
      <4> QED BY <4>3, <4>4
    <3>4. Counts'
      BY <1>1, <3>3 DEF Counts, DependsOn
    <3> QED BY <2>8, <3>2, <3>4 DEF CountsInv
  <2> QED BY <2>13, <2>14
<1>9. CASE ~Loops(d0) /\ Top.at = 0
  <2>1. PICK fr : fr = [Top EXCEPT !.at = 1]
    OBVIOUS
  <2>2. PICK g : g = Probe(d0, NoDevice)
    OBVIOUS
  <2>3. Call(fr, g) /\ g.fn = "probe" /\ probed' = probed
    BY <1>3, <1>9, <2>1, <2>2 DEF FirstStep, Loops, Probe, Frame
  <2>4. fr.fn = Top.fn /\ fr.drv = Top.drv /\ fr.dev = Top.dev
    BY <1>2, <2>1 DEF Activations
  <2> QED BY <1>1, <2>3, <2>4, CountsCalm DEF SameTypes
<1>10. CASE ~(Loops(d0) /\ i0 # NoDevice) /\ ~(~Loops(d0) /\ Top.at = 0)
  <2>1. Return /\ probed' = probed
    BY <1>3, <1>4, <1>5, <1>10 DEF FirstStep, Loops
  <2>2. Len(stack') = 0
    BY <1>1, <1>2, <2>1, Shapes
  <2>3. OneRegister' /\ \A d, i : ~Pending(d, i)'
    BY <2>2 DEF OneRegister, Pending, Registering, Exploring
  <2>4. CountsTyped'
    BY <1>1, <2>1 DEF CountsInv, CountsTyped
  <2>5. ASSUME NEW d \in ToSet(drivers), NEW i \in Listed, DependsOn(d, i) PROVE ~Pending(d, i)
    <3>1. SUFFICES ASSUME d = d0 PROVE ~(x = NoDevice \/ Behind(x, i))
      BY <1>7
    <3>2. Loops(d0)
      <4>1. d0 \in Drivers /\ dev[i].type \in Types
        BY <1>2, DeviceFacts DEF StackInv
      <4> QED BY <2>5, <3>1, <4>1, TreeFacts DEF DependsOn
    <3> QED BY <1>5, <1>10, <3>2, NextInOrder
  <2>6. Counts'
    BY <1>1, <2>1, <2>3, <2>5 DEF CountsInv, Counts, DependsOn
  <2> QED BY <2>3, <2>4, <2>6 DEF CountsInv
<1> QED BY <1>8, <1>9, <1>10
----------------------------------------------------------------------------
(* A new device, and the callers. *)

(* A probe registers a device: every driver has it before it. *)
LEMMA CountsMade ==
    ASSUME StackInv, CountsInv, stack # <<>>, Top.fn = "probe", NEW fr, fr.fn = "probe",
           NEW table \in Seq(Machines), NEW new, device_register(fr, table, new),
           UNCHANGED <<drivers, disabled, probed>>,
           Len(table) = Len(dev), \A i \in Known : table[i].type = dev[i].type
    PROVE  CountsInv'
<1>1. /\ drivers' = drivers /\ disabled' = disabled /\ probed' = probed
      /\ dev' = Append(table, new) /\ devices' = Append(devices, NewId)
      /\ Len(dev) \in Nat /\ drivers \in Seq(Drivers) /\ Len(drivers) \in Nat
      /\ devices \in Seq(Nat) /\ Listed \subseteq Known
      /\ Len(devices) \in Nat /\ \A a \in 1 .. Len(devices) : devices[a] \in Listed
      /\ \A d \in ToSet(drivers) : \E j \in 1 .. Len(drivers) : drivers[j] = d
  <2>1. devices \in Seq(Nat) /\ drivers \in Seq(Drivers) /\ Listed \subseteq Known /\ Len(dev) \in Nat
    BY DeviceFacts DEF StackInv, ListsTyped
  <2>2. Len(devices) \in Nat /\ \A a \in 1 .. Len(devices) : devices[a] \in Listed
    BY <2>1, ElementsOf DEF Listed
  <2>3. Len(drivers) \in Nat /\ \A d \in ToSet(drivers) : \E j \in 1 .. Len(drivers) : drivers[j] = d
    BY <2>1, ElementsOf
  <2>4. dev' = Append(table, new) /\ devices' = Append(devices, NewId)
    BY DEF device_register
  <2> QED BY <2>1, <2>2, <2>3, <2>4
<1>2. /\ Len(dev') = Len(dev) + 1 /\ \A i \in Known : dev'[i].type = dev[i].type
      /\ Known' = Known \cup {NewId} /\ NewId \notin Known /\ NewId \in Nat
  <2>1. PICK S : S = Machines \cup {new}
    OBVIOUS
  <2>2. table \in Seq(S) /\ new \in S
    <3>1. \A i \in 1 .. Len(table) : table[i] \in S
      BY <2>1
    <3> QED BY <2>1, <3>1
  <2>3. Len(dev') = Len(dev) + 1 /\ \A i \in 1 .. Len(dev) : dev'[i] = table[i]
    BY <1>1, <2>2
  <2>4. \A n \in Nat : 1 .. n + 1 = 1 .. n \cup {n + 1} /\ n + 1 \notin 1 .. n /\ n + 1 \in Nat
    OBVIOUS
  <2> QED BY <1>1, <2>3, <2>4 DEF Known, NewId
<1>3. PICK n \in Nat : n = NewId
  BY <1>2
<1>4. /\ Listed' = Listed \cup {n} /\ Len(devices') = Len(devices) + 1
      /\ devices'[Len(devices) + 1] = n /\ \A a \in 1 .. Len(devices) : devices'[a] = devices[a]
  <2>1. devices' = Append(devices, n)
    BY <1>1, <1>3
  <2>2. /\ ToSet(Append(devices, n)) = ToSet(devices) \cup {n}
        /\ Len(Append(devices, n)) = Len(devices) + 1 /\ Append(devices, n)[Len(devices) + 1] = n
        /\ \A a \in 1 .. Len(devices) : Append(devices, n)[a] = devices[a]
    BY <1>1, ElementsOf
  <2> QED BY <2>1, <2>2 DEF Listed
<1>5. PICK g : g = Frame("register", None, NewId, 0, NoDevice)
  OBVIOUS
<1>6. g.fn = "register" /\ g.dev = n /\ g.at = 0
  BY <1>3, <1>5 DEF Frame
<1>7. /\ Len(stack) \in Nat \ {0} /\ Top = stack[Len(stack)] /\ Len(stack) # 1
      /\ Len(stack') = Len(stack) + 1 /\ stack'[Len(stack)] = fr /\ stack'[Len(stack) + 1] = g
      /\ \A k \in 1 .. Len(stack) - 1 : stack'[k] = stack[k]
  <2>1. Call(fr, g)
    BY <1>5 DEF device_register
  <2>2. Len(stack) # 1
    BY TopFacts
  <2> QED BY <2>1, <2>2, Shapes
<1>8. \A m \in Nat \ {0, 1} : /\ \A k \in 1 .. m : k \in 1 .. m - 1 \/ k = m
                              /\ \A k \in 1 .. m + 1 : k \in 1 .. m - 1 \/ k = m \/ k = m + 1
                              /\ \A k \in 1 .. m - 1 : k \in 1 .. m /\ k \in 1 .. m + 1
                              /\ m + 1 \in 1 .. m + 1 /\ 1 \in 1 .. m - 1 /\ m > 0 /\ m + 1 > 0
  OBVIOUS
<1>9. /\ \A k \in 1 .. Len(stack) : k \in 1 .. Len(stack) - 1 \/ k = Len(stack)
      /\ \A k \in 1 .. Len(stack) + 1 : k \in 1 .. Len(stack) - 1 \/ k = Len(stack) \/ k = Len(stack) + 1
      /\ \A k \in 1 .. Len(stack) - 1 : k \in 1 .. Len(stack) /\ k \in 1 .. Len(stack) + 1
      /\ Len(stack) + 1 \in 1 .. Len(stack) + 1 /\ 1 \in 1 .. Len(stack) - 1
      /\ Len(stack) > 0 /\ Len(stack) + 1 > 0
  <2>1. Len(stack) \in Nat \ {0, 1}
    BY <1>7
  <2> QED BY <1>8, <2>1
<1>10. /\ \A k \in 1 .. Len(stack') : stack'[k].fn = "register" =>
             \/ k \in 1 .. Len(stack) /\ stack'[k] = stack[k]
             \/ k = Len(stack) + 1 /\ stack'[k] = g
       /\ \A k \in 1 .. Len(stack) : stack[k].fn = "register" =>
             k \in 1 .. Len(stack') /\ stack'[k] = stack[k] /\ stack[k].dev \in Known
  <2>1. \A k \in 1 .. Len(stack) : stack[k].fn = "register" => stack[k].dev \in Known
    BY DEF StackInv, StackTyped, FrameTyped
  <2> QED BY <1>7, <1>9, <2>1
<1>11. OneRegister'
  <2> SUFFICES ASSUME NEW k \in 1 .. Len(stack'), NEW l \in 1 .. Len(stack'), stack'[k].fn = "register",
                      stack'[l].fn = "register", stack'[k].dev = stack'[l].dev
               PROVE  k = l
    BY DEF OneRegister
  <2> QED BY <1>2, <1>3, <1>6, <1>10 DEF CountsInv, OneRegister
<1>12. \A d : \A i \in Known : Registering(d, i)' <=> Registering(d, i)
  <2>1. ASSUME NEW d, NEW i \in Known, Registering(d, i) PROVE Registering(d, i)'
    BY <1>1, <1>10, <2>1 DEF Registering
  <2>2. ASSUME NEW d, NEW i \in Known, Registering(d, i)' PROVE Registering(d, i)
    <3>1. PICK k \in 1 .. Len(stack') :
             /\ stack'[k].fn = "register" /\ stack'[k].dev = i
             /\ \E j \in 1 .. Len(drivers) : j > stack'[k].at /\ drivers[j] = d
      BY <1>1, <2>2 DEF Registering
    <3>2. k \in 1 .. Len(stack) /\ stack'[k] = stack[k]
      BY <1>2, <1>3, <1>6, <1>10, <2>2, <3>1
    <3> QED BY <3>1, <3>2 DEF Registering
  <2> QED BY <2>1, <2>2
<1>13. \A d \in ToSet(drivers) : Registering(d, n)'
  <2>1. ASSUME NEW d \in ToSet(drivers) PROVE Registering(d, n)'
    <3>1. PICK j \in 1 .. Len(drivers) : drivers[j] = d /\ j > 0
      BY <1>1
    <3>2. PICK k \in 1 .. Len(stack') : stack'[k] = g
      BY <1>7, <1>9
    <3> QED BY <1>1, <1>6, <3>1, <3>2 DEF Registering
  <2> QED BY <2>1
<1>14. \A x : \A i \in Listed : Behind(x, i)' <=> Behind(x, i)
  <2>1. ASSUME NEW x, NEW i \in Listed, Behind(x, i) PROVE Behind(x, i)'
    <3>1. PICK a, b \in 1 .. Len(devices) : a < b /\ devices[a] = x /\ devices[b] = i
      BY <2>1 DEF Behind, Before
    <3>2. a \in 1 .. Len(devices') /\ b \in 1 .. Len(devices')
      BY <1>1, <1>4
    <3> QED BY <1>4, <3>1, <3>2 DEF Behind, Before
  <2>2. ASSUME NEW x, NEW i \in Listed, Behind(x, i)' PROVE Behind(x, i)
    <3>1. PICK a, b \in 1 .. Len(devices') : a < b /\ devices'[a] = x /\ devices'[b] = i
      BY <2>2 DEF Behind, Before
    <3>2. b # Len(devices) + 1
      BY <1>1, <1>2, <1>3, <1>4, <2>2, <3>1
    <3>3. a \in 1 .. Len(devices) /\ b \in 1 .. Len(devices)
      BY <1>1, <1>4, <3>1, <3>2
    <3> QED BY <1>4, <3>1, <3>3 DEF Behind, Before
  <2> QED BY <2>1, <2>2
<1>15. \A d : \A i \in Listed : Pending(d, i)' <=> Pending(d, i)
  <2>1. stack'[1] = stack[1] /\ Len(stack') > 0 /\ Len(stack) > 0
    BY <1>7, <1>9
  <2>2. \A d : \A i \in Listed : Exploring(d, i)' <=> Exploring(d, i)
    <3>1. PICK x : x = stack[1].dev
      OBVIOUS
    <3>2. \A d, i : Exploring(d, i) <=> stack[1].fn = "first" /\ stack[1].drv = d /\ (x = NoDevice \/ Behind(x, i))
      BY <2>1, <3>1 DEF Exploring
    <3>3. \A d, i : Exploring(d, i)' <=> stack[1].fn = "first" /\ stack[1].drv = d /\ (x = NoDevice \/ Behind(x, i)')
      BY <2>1, <3>1 DEF Exploring, Behind
    <3> QED BY <1>14, <3>2, <3>3
  <2> QED BY <1>1, <1>12, <2>2 DEF Pending
<1>16. CountsTyped'
  BY <1>1, <1>2 DEF CountsInv, CountsTyped
<1>17. Counts'
  <2> SUFFICES ASSUME Known' \subseteq Ids, NEW d \in ToSet(drivers), NEW i \in Listed', ~disabled[d], DependsOn(d, i)'
               PROVE  probed[d][i] = IF Pending(d, i)' THEN 0 ELSE 1
    BY <1>1 DEF Counts
  <2>1. CASE i \in Listed
    <3>1. DependsOn(d, i)
      BY <1>1, <1>2, <2>1 DEF DependsOn
    <3>2. probed[d][i] = IF Pending(d, i) THEN 0 ELSE 1
      BY <1>2, <2>1, <3>1 DEF CountsInv, Counts
    <3> QED BY <1>15, <2>1, <3>2
  <2>2. CASE i = n
    <3>1. d \in Drivers
      BY <1>1, ElementsOf
    <3>2. n \in Ids /\ n \notin Known
      BY <1>2, <1>3
    <3>3. probed[d][n] = 0
      BY <3>1, <3>2 DEF CountsInv, CountsTyped
    <3> QED BY <1>13, <2>2, <3>3 DEF Pending
  <2> QED BY <1>4, <2>1, <2>2
<1> QED BY <1>11, <1>16, <1>17 DEF CountsInv

(* The probes. *)
LEMMA CountsProbe ==
    ASSUME StackInv, CountsInv, ProbeStep
    PROVE  CountsInv'
<1>1. ASSUME NEW d, Probing(d), Skip \/ Done PROVE CountsInv'
  <2>1. stack # <<>> /\ Top.fn = "probe" /\ Top \in Activations
    BY <1>1, ProbingFacts
  <2>2. UNCHANGED <<drivers, devices, dev, disabled, probed>>
    BY <1>1 DEF Skip, Done
  <2>3. PICK fr : fr = [Top EXCEPT !.at = @ + 1]
    OBVIOUS
  <2>4. fr.fn = Top.fn /\ fr.drv = Top.drv /\ fr.dev = Top.dev
    BY <2>1, <2>3 DEF Activations
  <2>5. Return \/ Continue(fr)
    BY <1>1, <2>3 DEF Skip, Done
  <2> QED BY <2>1, <2>2, <2>4, <2>5, CountsCalm DEF SameTypes
<1>2. ASSUME Panic PROVE CountsInv'
  BY <1>2, CountsSame DEF Panic
<1>3. ASSUME NEW d, Probing(d), NEW new, Make(new) PROVE CountsInv'
  <2>1. stack # <<>> /\ Top.fn = "probe" /\ Top \in Activations
    BY <1>3, ProbingFacts
  <2>2. PICK fr : fr = [Top EXCEPT !.at = @ + 1]
    OBVIOUS
  <2>3. fr.fn = "probe"
    BY <2>1, <2>2 DEF Activations
  <2>4. device_register(fr, dev, new) /\ UNCHANGED <<drivers, disabled, probed>>
    BY <1>3, <2>2 DEF Make
  <2>5. PICK table \in Seq(Machines) : table = dev
    BY DEF StackInv, DevicesTyped
  <2>6. device_register(fr, table, new) /\ Len(table) = Len(dev)
        /\ \A i \in Known : table[i].type = dev[i].type
    BY <2>4, <2>5 DEF device_register
  <2> QED BY <2>1, <2>3, <2>4, <2>6, CountsMade
<1>4. ASSUME NEW d, Probing(d), NEW prefix, NEW type, NEW unit, NEW subs, MakeNumbered(prefix, type, unit, subs)
      PROVE  CountsInv'
  <2>1. Panic \/ \E new : Make(new)
    BY <1>4 DEF MakeNumbered
  <2> QED BY <1>2, <1>3, <1>4, <2>1
<1>5. CASE SerialProbe
  <2>1. Probing("serial") /\ (Done \/ \E new : Make(new))
    BY <1>5 DEF SerialProbe
  <2> QED BY <1>1, <1>3, <2>1
<1>6. CASE VgaProbe
  <2>1. Probing("vga") /\ (Done \/ \E new : Make(new))
    BY <1>6 DEF VgaProbe
  <2> QED BY <1>1, <1>3, <2>1
<1>7. CASE VesaProbe
  <2>1. Probing("vesa") /\ (Done \/ \E prefix, type, unit, subs : MakeNumbered(prefix, type, unit, subs))
    BY <1>7 DEF VesaProbe
  <2> QED BY <1>1, <1>4, <2>1
<1>8. CASE BdriveProbe
  <2>1. Probing("bdrive") /\ (Done \/ Skip \/ \E prefix, type, unit, subs : MakeNumbered(prefix, type, unit, subs))
    BY <1>8 DEF BdriveProbe
  <2> QED BY <1>1, <1>4, <2>1
<1>9. CASE FatProbe
  <2>1. Probing("fat") /\ (Done \/ \E prefix, type, unit, subs : MakeNumbered(prefix, type, unit, subs))
    BY <1>9 DEF FatProbe
  <2> QED BY <1>1, <1>4, <2>1
<1>10. CASE ModuleProbe
  BY <1>1, <1>10 DEF ModuleProbe
<1>11. CASE FbconVisit
  <2>1. /\ Probing("fbcon") /\ stack # <<>> /\ Top.fn = "probe" /\ Top \in Activations
        /\ ProbeTyped(Top) /\ Top.drv = "fbcon"
    BY <1>11, ProbingFacts DEF FbconVisit
  <2>2. NextDevice(Top.at) \in Listed \cup {NoDevice} /\ Listed \subseteq Known
    BY <2>1, NextFacts DEF ProbeTyped, StackInv, ListsTyped
  <2>3. PICK i \in Listed \cup {NoDevice} : i = NextDevice(Top.at)
    BY <2>2
  <2>4. CASE i = NoDevice
    BY <1>1, <1>11, <2>1, <2>3, <2>4 DEF FbconVisit
  <2>5. CASE i # NoDevice /\ Bindable(i) /\ SuffixFails(<<"fbcon">>)
    BY <1>2, <1>11, <2>3, <2>5 DEF FbconVisit
  <2>6. CASE i # NoDevice /\ ~Bindable(i)
    <3>1. PICK fr : fr = [Top EXCEPT !.at = i]
      OBVIOUS
    <3>2. Continue(fr) /\ UNCHANGED <<drivers, devices, dev, disabled, probed>>
      BY <1>11, <2>3, <2>6, <3>1 DEF FbconVisit
    <3>3. fr.fn = Top.fn /\ fr.drv = Top.drv /\ fr.dev = Top.dev
      BY <2>1, <3>1 DEF Activations
    <3> QED BY <2>1, <3>2, <3>3, CountsCalm DEF SameTypes
  <2>7. CASE i # NoDevice /\ Bindable(i) /\ ~SuffixFails(<<"fbcon">>)
    <3>1. PICK fr : fr = [Top EXCEPT !.at = i, !.new = NewId]
      OBVIOUS
    <3>2. PICK table : table = [dev EXCEPT ![i].subdevices = <<NewId>>]
      OBVIOUS
    <3>3. PICK new : new = Device(<<"fbcon", FirstAvailableSuffix(<<"fbcon">>)>>, "con", 0, <<>>)
      OBVIOUS
    <3>4. device_register(fr, table, new) /\ UNCHANGED <<drivers, disabled, probed>>
      BY <1>11, <2>3, <2>7, <3>1, <3>2, <3>3 DEF FbconVisit
    <3>5. fr.fn = "probe"
      BY <2>1, <3>1 DEF Activations
    <3>6. /\ dev \in Seq(Machines) /\ i \in 1 .. Len(dev) /\ dev[i] \in Machines /\ NewId \in Nat
      BY <2>2, <2>7, DeviceFacts DEF StackInv, DevicesTyped, NewId, Known
    <3>7. PICK m \in Machines : m = [dev[i] EXCEPT !.subdevices = <<NewId>>]
      <4>1. <<NewId>> \in Seq(Nat)
        BY <3>6
      <4> QED BY <3>6, <4>1 DEF Machines
    <3>8. m.type = dev[i].type
      BY <3>6, <3>7 DEF Machines
    <3>9. table = [dev EXCEPT ![i] = m]
      BY <3>2, <3>7
    <3>10. table \in Seq(Machines) /\ Len(table) = Len(dev) /\ \A j \in Known : table[j].type = dev[j].type
      <4>1. table \in Seq(Machines) /\ Len(table) = Len(dev)
            /\ \A j \in 1 .. Len(dev) : table[j] = IF j = i THEN m ELSE dev[j]
        BY <3>6, <3>9
      <4> QED BY <3>8, <4>1 DEF Known
    <3> QED BY <2>1, <3>4, <3>5, <3>10, CountsMade
  <2> QED BY <2>4, <2>5, <2>6, <2>7
<1>12. CASE FbconTakeOver
  <2>1. stack # <<>> /\ Top.fn = "probe" /\ Top \in Activations
    BY <1>12, ProbingFacts DEF FbconTakeOver
  <2>2. UNCHANGED <<drivers, devices, dev, disabled, probed>>
    BY <1>12 DEF FbconTakeOver
  <2>3. CASE OldConsole # NoDevice
    <3>1. PICK g : g = Frame("deregister", None, OldConsole, 0, NoDevice)
      OBVIOUS
    <3>2. Call(Top, g) /\ g.fn # "register"
      BY <1>12, <2>3, <3>1 DEF FbconTakeOver, Frame
    <3> QED BY <2>1, <2>2, <3>2, CountsCalm DEF SameTypes
  <2>4. CASE OldConsole = NoDevice
    <3>1. PICK fr : fr = [Top EXCEPT !.new = NoDevice]
      OBVIOUS
    <3>2. Continue(fr)
      BY <1>12, <2>4, <3>1 DEF FbconTakeOver
    <3>3. fr.fn = Top.fn /\ fr.drv = Top.drv /\ fr.dev = Top.dev
      BY <2>1, <3>1 DEF Activations
    <3> QED BY <2>1, <2>2, <3>2, <3>3, CountsCalm DEF SameTypes
  <2> QED BY <2>3, <2>4
<1> QED BY <1>5, <1>6, <1>7, <1>8, <1>9, <1>10, <1>11, <1>12 DEF ProbeStep

(* A driver is registered or enabled, with nothing counted for it, and its first probe
   begins, or it is disabled. *)
LEMMA CountsBegin ==
    ASSUME StackInv, CountsInv, stack = <<>>, NEW d \in Drivers, NEW b \in BOOLEAN,
           UNCHANGED <<devices, dev>>, ToSet(drivers') \subseteq ToSet(drivers) \cup {d},
           disabled' = [disabled EXCEPT ![d] = b], probed' = Uncounted(d),
           \/ stack' = <<Frame("first", d, NoDevice, 0, NoDevice)>>
           \/ stack' = <<>> /\ b
    PROVE  CountsInv'
<1>1. /\ devices' = devices /\ dev' = dev /\ Listed' = Listed /\ Known' = Known
      /\ disabled \in [Drivers -> BOOLEAN] /\ ToSet(drivers) \subseteq Drivers
      /\ probed \in [Drivers -> [Ids -> Nat]]
  BY IdleFacts DEF Listed, Known, CountsInv, CountsTyped
<1>2. /\ probed' \in [Drivers -> [Ids -> Nat]]
      /\ \A i \in Ids : probed'[d][i] = 0
      /\ \A e \in Drivers : e # d => probed'[e] = probed[e]
  BY <1>1 DEF Uncounted
<1>3. CountsTyped'
  BY <1>1, <1>2 DEF CountsInv, CountsTyped
<1>4. \A k \in 1 .. Len(stack') : stack'[k].fn # "register"
  <2>1. CASE stack' = <<>>
    BY <2>1
  <2>2. CASE stack' = <<Frame("first", d, NoDevice, 0, NoDevice)>>
    <3>1. PICK f : f = Frame("first", d, NoDevice, 0, NoDevice)
      OBVIOUS
    <3>2. f.fn = "first" /\ stack' = <<f>>
      BY <2>2, <3>1 DEF Frame
    <3>3. \A k \in 1 .. Len(stack') : stack'[k] = f
      BY <3>2
    <3> QED BY <3>2, <3>3
  <2> QED BY <2>1, <2>2
<1>5. OneRegister' /\ \A e, i : ~Registering(e, i)'
  BY <1>4 DEF OneRegister, Registering
<1>6. \A e, i : ~Pending(e, i)
  BY DEF Pending, Registering, Exploring
<1>7. \A e, i : Pending(e, i)' <=> e = d /\ stack' # <<>>
  <2>1. CASE stack' = <<>>
    BY <1>5, <2>1 DEF Pending, Exploring
  <2>2. CASE stack' = <<Frame("first", d, NoDevice, 0, NoDevice)>>
    <3>1. PICK f : f = Frame("first", d, NoDevice, 0, NoDevice)
      OBVIOUS
    <3>2. f.fn = "first" /\ f.drv = d /\ f.dev = NoDevice /\ stack' = <<f>>
      BY <2>2, <3>1 DEF Frame
    <3>3. Len(stack') > 0 /\ stack'[1] = f /\ stack' # <<>>
      BY <3>2
    <3> QED BY <1>5, <3>2, <3>3 DEF Pending, Exploring
  <2> QED BY <2>1, <2>2
<1>8. Counts'
  <2> SUFFICES ASSUME Known \subseteq Ids, NEW e \in ToSet(drivers'), NEW i \in Listed, ~disabled'[e], DependsOn(e, i)
               PROVE  probed'[e][i] = IF Pending(e, i)' THEN 0 ELSE 1
    BY <1>1 DEF Counts, DependsOn
  <2>1. i \in Ids
    BY DEF StackInv, ListsTyped
  <2>2. CASE e = d
    <3>1. disabled'[d] = b
      BY <1>1
    <3>2. ~b
      BY <2>2, <3>1
    <3>3. \A f : <<f>> # <<>>
      OBVIOUS
    <3>4. stack' # <<>>
      BY <3>2, <3>3
    <3> QED BY <1>2, <1>7, <2>1, <2>2, <3>4
  <2>3. CASE e # d
    <3>1. e \in ToSet(drivers) /\ e \in Drivers /\ ~disabled[e]
      BY <1>1, <2>3
    <3>2. probed[e][i] = 1
      BY <1>6, <3>1 DEF CountsInv, Counts
    <3> QED BY <1>2, <1>7, <2>3, <3>1, <3>2
  <2> QED BY <2>2, <2>3
<1> QED BY <1>3, <1>5, <1>8 DEF CountsInv

(* Nothing is counted by what a module asks for besides. *)
LEMMA CountsOutside ==
    ASSUME StackInv, CountsInv, stack = <<>>, UNCHANGED <<devices, dev, disabled, probed>>,
           ToSet(drivers') \subseteq ToSet(drivers),
           stack' = <<>> \/ \E f : stack' = <<f>> /\ f.fn \notin {"first", "register"}
    PROVE  CountsInv'
<1>1. /\ devices' = devices /\ dev' = dev /\ Listed' = Listed /\ Known' = Known
      /\ disabled' = disabled /\ probed' = probed
  BY DEF Listed, Known
<1>2. CountsTyped'
  BY <1>1 DEF CountsInv, CountsTyped
<1>3. \A k \in 1 .. Len(stack') : stack'[k].fn \notin {"first", "register"}
  <2>1. CASE stack' = <<>>
    BY <2>1
  <2>2. ASSUME NEW f, stack' = <<f>>, f.fn \notin {"first", "register"}
        PROVE  \A k \in 1 .. Len(stack') : stack'[k].fn \notin {"first", "register"}
    <3>1. \A k \in 1 .. Len(stack') : stack'[k] = f
      BY <2>2
    <3> QED BY <2>2, <3>1
  <2> QED BY <2>1, <2>2
<1>4. Len(stack') > 0 => 1 \in 1 .. Len(stack')
  <2>1. Len(stack') \in Nat
    <3>1. ASSUME NEW f, stack' = <<f>> PROVE Len(stack') \in Nat
      BY <3>1
    <3> QED BY <3>1
  <2> QED BY <2>1
<1>5. OneRegister' /\ \A e, i : ~Pending(e, i)'
  BY <1>3, <1>4 DEF OneRegister, Pending, Registering, Exploring
<1>6. \A e, i : ~Pending(e, i)
  BY DEF Pending, Registering, Exploring
<1>7. Counts'
  BY <1>1, <1>5, <1>6 DEF CountsInv, Counts, DependsOn
<1> QED BY <1>2, <1>5, <1>7 DEF CountsInv

(* Every step keeps what has been counted, and what waits to be. *)
LEMMA CountsStep ==
    ASSUME StackInv, CountsInv, [Next]_vars
    PROVE  CountsInv'
<1>1. ASSUME NEW d \in Drivers, driver_register(d) PROVE CountsInv'
  <2>1. /\ stack = <<>> /\ UNCHANGED <<devices, dev>> /\ drivers' = Append(drivers, d)
        /\ disabled' = [disabled EXCEPT ![d] = Attr[d].disabled] /\ probed' = Uncounted(d)
        /\ IF Attr[d].disabled THEN stack' = stack ELSE stack' = <<Frame("first", d, NoDevice, 0, NoDevice)>>
    BY <1>1 DEF driver_register, Idle, FirstProbe
  <2>2. Attr[d].disabled \in BOOLEAN
    BY AttrAssumption
  <2>3. ToSet(drivers') = ToSet(drivers) \cup {d}
    BY <2>1, IdleFacts, ElementsOf
  <2> QED BY <2>1, <2>2, <2>3, CountsBegin
<1>2. ASSUME NEW d \in ToSet(drivers), driver_enable(d) PROVE CountsInv'
  <2>1. /\ stack = <<>> /\ UNCHANGED <<devices, dev>> /\ drivers' = drivers
        /\ disabled' = [disabled EXCEPT ![d] = FALSE] /\ probed' = Uncounted(d)
        /\ stack' = <<Frame("first", d, NoDevice, 0, NoDevice)>>
    BY <1>2 DEF driver_enable, Idle, FirstProbe
  <2>2. d \in Drivers
    BY <2>1, IdleFacts
  <2> QED BY <2>1, <2>2, CountsBegin
<1>3. ASSUME driver_deregister(ModuleDriver) PROVE CountsInv'
  <2>1. /\ stack = <<>> /\ stack' = <<>> /\ UNCHANGED <<devices, dev, disabled, probed>>
        /\ ModuleDriver \in ToSet(drivers) /\ drivers' = RemoveFirst(drivers, ModuleDriver)
    BY <1>3 DEF driver_deregister, Idle
  <2>2. drivers \in Seq(Drivers) /\ \A a, b \in 1 .. Len(drivers) : drivers[a] = drivers[b] => a = b
    BY DEF StackInv, ListsTyped
  <2>3. ToSet(drivers') \subseteq ToSet(drivers)
    BY <2>1, <2>2, Removed
  <2> QED BY <2>1, <2>3, CountsOutside
<1>4. ASSUME NEW i, device_deregister(i) PROVE CountsInv'
  <2>1. PICK f : f = Frame("deregister", None, i, 0, NoDevice)
    OBVIOUS
  <2>2. /\ stack = <<>> /\ stack' = <<f>> /\ UNCHANGED <<devices, dev, disabled, probed>> /\ drivers' = drivers
    BY <1>4, <2>1 DEF device_deregister, Idle
  <2>3. f.fn = "deregister"
    BY <2>1 DEF Frame
  <2> QED BY <2>2, <2>3, CountsOutside
<1>5. ASSUME NEW t, driver_probe_for(t) PROVE CountsInv'
  <2>1. PICK f : f = Frame("probeFor", t, NoDevice, 0, NoDevice)
    OBVIOUS
  <2>2. /\ stack = <<>> /\ stack' = <<f>> /\ UNCHANGED <<devices, dev, disabled, probed>> /\ drivers' = drivers
    BY <1>5, <2>1 DEF driver_probe_for, Idle
  <2>3. f.fn = "probeFor"
    BY <2>1 DEF Frame
  <2> QED BY <2>2, <2>3, CountsOutside
<1>6. CASE BootDriver
  <2>1. PICK d \in TreeDrivers \ ToSet(drivers) : driver_register(d)
    BY <1>6 DEF BootDriver
  <2> QED BY <1>1, <2>1, TreeFacts
<1>7. CASE TakeVga
  BY <1>7, CountsSame DEF TakeVga, managerVars
<1>8. CASE Endrv
  BY <1>2, <1>8 DEF Endrv
<1>9. CASE ModuleCalls
  BY <1>1, <1>3, <1>4, <1>5, <1>9 DEF ModuleCalls
<1>10. CASE ManagerStep
  BY <1>10, CountsRegister, CountsDeregister, CountsFirst, CountsProbeFor DEF ManagerStep
<1>11. CASE ProbeStep
  BY <1>11, CountsProbe
<1>12. CASE UNCHANGED vars
  BY <1>12, CountsSame DEF vars, managerVars
<1> QED BY <1>6, <1>7, <1>8, <1>9, <1>10, <1>11, <1>12 DEF Next, Steps

(* Nothing is counted, and nothing is registered. *)
LEMMA CountsStart ==
    ASSUME Init
    PROVE  CountsInv
<1>1. drivers = <<>> /\ devices = <<>> /\ dev = <<>> /\ stack = <<>>
      /\ probed = [d \in Drivers |-> [i \in Ids |-> 0]]
  BY DEF Init, ManagerInit
<1>2. CountsTyped
  BY <1>1 DEF CountsTyped
<1>3. OneRegister
  BY <1>1 DEF OneRegister
<1>4. Counts
  <2>1. ToSet(drivers) = {}
    BY <1>1 DEF ToSet
  <2> QED BY <2>1 DEF Counts
<1> QED BY <1>2, <1>3, <1>4 DEF CountsInv

(* How often each driver was probed with each device is known in every state: once, or
   not yet because the device or the driver is still being registered. *)
THEOREM CountsInvariance == Spec => [](StackInv /\ CountsInv)
<1>1. StackInv /\ NamesInv /\ CountsInv /\ [Next]_vars => CountsInv'
  BY CountsStep
<1>2. Init => CountsInv
  BY CountsStart
<1> QED BY <1>1, <1>2, StackInvariance, PTL DEF Spec

(* However the link orders the drivers and whatever is registered later, an enabled
   driver that depends on a type has been probed once with each device of that type
   (driver.c, device_register and driver_first_probe), as long as there is room for
   the devices. *)
THEOREM ProbedOnceHolds == Spec => [](DOMAIN dev \subseteq Ids => ProbedOnce)
<1>1. ASSUME StackInv, CountsInv PROVE DOMAIN dev \subseteq Ids => ProbedOnce
  <2> SUFFICES ASSUME DOMAIN dev \subseteq Ids, Idle, NEW d \in ToSet(drivers), NEW i \in ToSet(devices),
                      ~disabled[d], DependsOn(d, i)
               PROVE  probed[d][i] = 1
    BY DEF ProbedOnce
  <2>1. Known \subseteq Ids
    BY <1>1, DeviceFacts DEF StackInv
  <2>2. ~Pending(d, i)
    BY DEF Idle, Pending, Registering, Exploring
  <2> QED BY <1>1, <2>1, <2>2 DEF CountsInv, Counts, Listed
<1> QED BY <1>1, CountsInvariance, PTL

----------------------------------------------------------------------------
(* The console. *)

\* Until the kernel takes it for its console, vga0 is there or about to be made.
VgaListed == \E i \in Listed : dev[i].name = <<"vga", 0>>
VgaComes ==
    "vga" \in ToSet(drivers) =>
        \/ VgaListed
        \/ firstProbe["vga"] /\ Len(stack) = 1 /\ stack[1].at = 0
        \/ firstProbe["vga"] /\ Len(stack) = 2 /\ stack[2].at = 0

\* The boot makes no framebuffer, and so no console that takes over.
BeforeBoot ==
    ~booted =>
        /\ \A i \in Known : dev[i].type # "framebuffer"
        /\ \A k \in 1 .. Len(stack) : stack[k].fn \in {"first", "register", "probe"}
        /\ ~firstProbe["vesa"]
        /\ VgaComes

\* The console is a registered one, or about to be replaced.
ConsoleThere ==
    booted => \/ console \in Listed /\ dev[console].type = "con"
              \/ \E k \in 1 .. Len(stack) : Takes(stack[k])

\* What a module takes away.
OnlyRemoved ==
    Len(stack) > 0 /\ stack[1].fn = "deregister" =>
        stack[1].dev \in Known /\ dev[stack[1].dev].type \in ModuleRemoves

ConsoleInv == BeforeBoot /\ ConsoleThere /\ OnlyRemoved

(* The VGA driver is registered enabled. *)
LEMMA VgaEnabled == ~Attr["vga"].disabled
<1>1. Attr["vga"] = TreeAttr["vga"]
  BY TreeAssumption DEF TreeDrivers
<1>2. TreeAttr["vga"] = VgaDriver
  BY DEF TreeAttr, TreeDrivers
<1> QED BY <1>1, <1>2 DEF VgaDriver, Fields

(* Where the first probe of the VGA driver is until it has made vga0. *)
LEMMA VgaWhere ==
    ASSUME StackInv, ConsoleInv, stack # <<>>, ~booted, "vga" \in ToSet(drivers)
    PROVE  \/ VgaListed
           \/ /\ firstProbe["vga"] /\ Len(stack) = 1 /\ Top.at = 0
              /\ Top.fn = "first" /\ Top.drv = "vga"
           \/ /\ firstProbe["vga"] /\ Len(stack) = 2 /\ Top.at = 0
              /\ Top.fn = "probe" /\ Top.drv = "vga"
<1>1. Len(stack) \in Nat \ {0} /\ Top = stack[Len(stack)]
  BY TopFacts
<1>2. VgaComes
  BY DEF ConsoleInv, BeforeBoot
<1>3. firstProbe["vga"] => stack[1].fn = "first" /\ stack[1].drv = "vga"
  BY TreeFacts DEF StackInv, FirstOnly, TreeDrivers
<1>4. CASE firstProbe["vga"] /\ Len(stack) = 1 /\ stack[1].at = 0
  BY <1>1, <1>3, <1>4
<1>5. CASE firstProbe["vga"] /\ Len(stack) = 2 /\ stack[2].at = 0
  <2>1. Follows(stack[1], stack[2])
    <3>1. 1 \in 1 .. Len(stack) - 1 /\ 1 + 1 = 2
      BY <1>5
    <3>2. Follows(stack[1], stack[1 + 1])
      BY <3>1 DEF StackInv, StackTyped
    <3> QED BY <3>1, <3>2
  <2> QED BY <1>1, <1>3, <1>5, <2>1 DEF Follows, Takes
<1> QED BY <1>2, <1>4, <1>5 DEF VgaComes

(* Other steps leave vga0 where it is. *)
LEMMA VgaElse ==
    ASSUME StackInv, ConsoleInv, stack # <<>>, ~booted, SameWorld, Listed \subseteq Listed',
           ~(Top.fn \in {"first", "probe"} /\ Top.drv = "vga" /\ Top.at = 0 /\ firstProbe["vga"])
    PROVE  VgaComes'
<1>1. "vga" \in ToSet(drivers) => VgaListed
  BY VgaWhere
<1>2. VgaListed => VgaListed'
  BY DEF VgaListed, SameWorld, StackInv, ListsTyped
<1> QED BY <1>1, <1>2 DEF VgaComes, SameWorld

(* A step of what is under way that removes no device and does not replace the console. *)
LEMMA ConsoleStays ==
    ASSUME StackInv, ConsoleInv, stack # <<>>, UNCHANGED <<booted, console>>,
           SameWorld, Listed \subseteq Listed', firstProbe'["vesa"] => firstProbe["vesa"],
           ~booted => /\ \A i \in Known' : i \in Known \/ dev'[i].type # "framebuffer"
                      /\ VgaComes',
           \/ Return /\ ~Takes(Top)
           \/ \E fr, g : /\ \/ Continue(fr)
                            \/ Call(fr, g) /\ (booted \/ g.fn \in {"register", "probe"})
                         /\ fr.fn = Top.fn /\ (Top.fn = "deregister" => fr.dev = Top.dev) /\ (Takes(Top) => Takes(fr))
    PROVE  ConsoleInv'
<1>1. Len(stack) \in Nat \ {0} /\ Top = stack[Len(stack)]
  BY TopFacts
<1>2. \A n \in Nat \ {0} : /\ \A k \in 1 .. n : k \in 1 .. n - 1 \/ k = n
                           /\ \A k \in 1 .. n + 1 : k \in 1 .. n - 1 \/ k = n \/ k = n + 1
                           /\ \A k \in 1 .. n - 1 : k \in 1 .. n /\ k \in 1 .. n + 1
                           /\ n \in 1 .. n /\ n \in 1 .. n + 1 /\ n > 0 /\ n + 1 > 0
                           /\ n = 1 \/ 1 \in 1 .. n - 1
                           /\ n - 1 > 0 => n # 1
  OBVIOUS
<1>3. /\ booted' = booted /\ console' = console
      /\ Known \subseteq Known' /\ \A i \in Known : dev'[i].type = dev[i].type
      /\ Listed \subseteq Known
  BY DEF SameWorld, Known, StackInv, ListsTyped
\* What is under way after the step, but the innermost activation.
<1>4. /\ \A k \in 1 .. Len(stack') : \/ k \in 1 .. Len(stack) /\ stack'[k].fn = stack[k].fn
                                     \/ booted \/ stack'[k].fn \in {"register", "probe"}
      /\ \A k \in 1 .. Len(stack) : Takes(stack[k]) => k \in 1 .. Len(stack') /\ Takes(stack'[k])
      /\ Len(stack') > 0 => /\ Len(stack) > 0 /\ stack'[1].fn = stack[1].fn
                            /\ stack[1].fn = "deregister" => stack'[1].dev = stack[1].dev
  <2>1. CASE Return /\ ~Takes(Top)
    <3>1. Len(stack') = Len(stack) - 1 /\ \A k \in 1 .. Len(stack) - 1 : stack'[k] = stack[k]
      BY <2>1, Shapes
    <3>2. Len(stack') > 0 => 1 \in 1 .. Len(stack) - 1
      BY <1>1, <1>2, <3>1
    <3>3. \A k \in 1 .. Len(stack) : Takes(stack[k]) => k \in 1 .. Len(stack) - 1
      BY <1>1, <1>2, <2>1
    <3> QED BY <1>1, <1>2, <3>1, <3>2, <3>3
  <2>2. ASSUME NEW fr, NEW g, Continue(fr), fr.fn = Top.fn,
               Top.fn = "deregister" => fr.dev = Top.dev, Takes(Top) => Takes(fr)
        PROVE  <1>4!:
    <3>1. /\ Len(stack') = Len(stack) /\ stack'[Len(stack)] = fr
          /\ \A k \in 1 .. Len(stack) - 1 : stack'[k] = stack[k]
      BY <2>2, Shapes
    <3> QED BY <1>1, <1>2, <2>2, <3>1
  <2>3. ASSUME NEW fr, NEW g, Call(fr, g), booted \/ g.fn \in {"register", "probe"},
               fr.fn = Top.fn,
               Top.fn = "deregister" => fr.dev = Top.dev, Takes(Top) => Takes(fr)
        PROVE  <1>4!:
    <3>1. /\ Len(stack') = Len(stack) + 1 /\ stack'[Len(stack)] = fr /\ stack'[Len(stack) + 1] = g
          /\ \A k \in 1 .. Len(stack) - 1 : stack'[k] = stack[k]
      BY <2>3, Shapes
    <3> QED BY <1>1, <1>2, <2>3, <3>1
  <2> QED BY <2>1, <2>2, <2>3
<1>5. BeforeBoot'
  <2> SUFFICES ASSUME ~booted PROVE BeforeBoot'
    BY <1>3 DEF BeforeBoot
  <2>1. /\ \A i \in Known : dev[i].type # "framebuffer" /\ ~firstProbe["vesa"]
        /\ \A k \in 1 .. Len(stack) : stack[k].fn \in {"first", "register", "probe"}
    BY DEF ConsoleInv, BeforeBoot
  <2>2. ~firstProbe'["vesa"]
    BY DEF ConsoleInv, BeforeBoot
  <2>3. \A k \in 1 .. Len(stack') : stack'[k].fn \in {"first", "register", "probe"}
    BY <1>4, <2>1
  <2>4. \A i \in Known' : dev'[i].type # "framebuffer"
    BY <1>3, <2>1
  <2> QED BY <2>2, <2>3, <2>4 DEF BeforeBoot
<1>6. ConsoleThere'
  <2>1. \A k \in 1 .. Len(stack) : Takes(stack[k]) => k \in 1 .. Len(stack') /\ Takes(stack[k])'
    BY <1>4 DEF Takes
  <2> QED BY <1>3, <2>1 DEF ConsoleInv, ConsoleThere, Takes
<1>7. OnlyRemoved'
  BY <1>3, <1>4 DEF ConsoleInv, OnlyRemoved
<1> QED BY <1>5, <1>6, <1>7 DEF ConsoleInv

\* What the manager's loops leave alone.
Unmoved == UNCHANGED <<drivers, devices, dev, disabled, booted, console>>

(* Then the devices are what they were. *)
LEMMA UnmovedFacts ==
    ASSUME StackInv, Unmoved
    PROVE  /\ booted' = booted /\ console' = console /\ SameWorld
           /\ Listed' = Listed /\ Known' = Known /\ Listed \subseteq Listed'
<1>1. Len(dev) \in Nat /\ Len(dev) <= Len(dev)
  BY DeviceFacts DEF StackInv
<1> QED BY <1>1 DEF Unmoved, SameWorld, Listed, Known

(* device_register, driver_probe_for, driver_first_probe. *)
LEMMA ConsoleLoops ==
    ASSUME StackInv, ConsoleInv, RegisterStep \/ FirstStep \/ ProbeForStep,
           UNCHANGED <<partitions, booted, console>>
    PROVE  ConsoleInv'
<1>1. stack # <<>> /\ Unmoved
  BY DEF RegisterStep, FirstStep, ProbeForStep, Running, Idle, Unmoved
<1>2. /\ booted' = booted /\ console' = console /\ SameWorld /\ Known' = Known /\ Listed' = Listed
      /\ Listed \subseteq Listed' /\ drivers' = drivers
      /\ Top \in Activations /\ FrameTyped(Top)
  BY <1>1, UnmovedFacts, TopFacts DEF SameWorld
<1>3. CASE RegisterStep
  <2>1. Top.fn = "register" /\ firstProbe' = firstProbe
    BY <1>3 DEF RegisterStep, Running
  <2>2. ~booted => VgaComes'
    BY <1>1, <1>2, <2>1, VgaElse
  <2>3. PICK fr : fr = [Top EXCEPT !.at = @ + 1]
    OBVIOUS
  <2>4. PICK g : g = Probe(drivers[Top.at + 1], Top.dev)
    OBVIOUS
  <2>5. fr.fn = Top.fn /\ fr.dev = Top.dev /\ ~Takes(Top) /\ g.fn = "probe"
    BY <1>2, <2>1, <2>3, <2>4 DEF Activations, Takes, Probe, Frame
  <2>6. Return \/ Call(fr, g) \/ Continue(fr)
    BY <1>3, <2>3, <2>4 DEF RegisterStep
  <2> QED BY <1>1, <1>2, <2>1, <2>2, <2>5, <2>6, ConsoleStays
<1>4. CASE ProbeForStep
  <2>1. Top.fn = "probeFor" /\ firstProbe' = firstProbe
    BY <1>4 DEF ProbeForStep, Running
  <2>2. ~booted => VgaComes'
    BY <1>1, <1>2, <2>1, VgaElse
  <2>3. PICK fr : fr = [Top EXCEPT !.at = @ + 1]
    OBVIOUS
  <2>4. PICK g : g = Probe(drivers[Top.at + 1], NoDevice)
    OBVIOUS
  <2>5. fr.fn = Top.fn /\ fr.dev = Top.dev /\ ~Takes(Top) /\ g.fn = "probe"
    BY <1>2, <2>1, <2>3, <2>4 DEF Activations, Takes, Probe, Frame
  <2>6. Return \/ Call(fr, g) \/ Continue(fr)
    BY <1>4, <2>3, <2>4 DEF ProbeForStep
  <2> QED BY <1>1, <1>2, <2>1, <2>2, <2>5, <2>6, ConsoleStays
<1>5. CASE FirstStep
  <2>1. /\ Top.fn = "first" /\ Len(stack) = 1 /\ Top = stack[1] /\ FirstTyped(Top) /\ ~Takes(Top)
    <3>1. Top.fn = "first"
      BY <1>5 DEF FirstStep, Running
    <3>2. Len(stack) = 1 /\ Top = stack[Len(stack)]
      BY <1>1, <3>1, TopFacts
    <3> QED BY <1>2, <3>1, <3>2 DEF FrameTyped, Takes
  <2>2. PICK d : d = Top.drv
    OBVIOUS
  <2>3. PICK i : i = NextDevice(Top.dev)
    OBVIOUS
  <2>4. CASE Loops(d) /\ i # NoDevice
    <3>1. firstProbe' = firstProbe
      BY <1>5, <2>2, <2>3, <2>4 DEF FirstStep, Loops
    <3>2. d # "vga"
      BY <2>4, TreeFacts
    <3>3. ~booted => VgaComes'
      BY <1>1, <1>2, <2>2, <3>2, VgaElse
    <3>4. PICK fr : fr = [Top EXCEPT !.dev = i]
      OBVIOUS
    <3>5. PICK g : g = Probe(d, i)
      OBVIOUS
    <3>6. Call(fr, g) \/ Continue(fr)
      BY <1>5, <2>2, <2>3, <2>4, <3>4, <3>5 DEF FirstStep, Loops
    <3>7. fr.fn = "first" /\ g.fn = "probe"
      BY <1>2, <2>1, <3>4, <3>5 DEF Activations, Probe, Frame
    <3> QED BY <1>1, <1>2, <2>1, <3>1, <3>3, <3>6, <3>7, ConsoleStays
  <2>5. CASE ~Loops(d) /\ Top.at = 0
    <3>1. PICK fr : fr = [Top EXCEPT !.at = 1]
      OBVIOUS
    <3>2. PICK g : g = Probe(d, NoDevice)
      OBVIOUS
    <3>3. Call(fr, g) /\ firstProbe' = firstProbe
      BY <1>5, <2>2, <2>5, <3>1, <3>2 DEF FirstStep, Loops
    <3>4. fr.fn = "first" /\ fr.dev = Top.dev /\ g.fn = "probe" /\ g.at = 0
      BY <1>2, <2>1, <3>1, <3>2 DEF Activations, Probe, Frame
    <3>5. ASSUME ~booted PROVE VgaComes'
      <4>1. Len(stack') = 2 /\ stack'[2].at = 0
        <5>1. Len(stack') = Len(stack) + 1 /\ stack'[Len(stack) + 1] = g
          BY <1>1, <3>3, Shapes
        <5> QED BY <2>1, <3>4, <5>1
      <4>2. CASE d = "vga"
        <5>1. firstProbe["vga"]
          BY <2>1, <2>2, <4>2 DEF FirstTyped
        <5> QED BY <3>3, <4>1, <5>1 DEF VgaComes
      <4>3. CASE d # "vga"
        BY <1>1, <1>2, <2>2, <3>5, <4>3, VgaElse
      <4> QED BY <4>2, <4>3
    <3> QED BY <1>1, <1>2, <2>1, <3>3, <3>4, <3>5, ConsoleStays
  <2>6. CASE ~(Loops(d) /\ i # NoDevice) /\ ~(~Loops(d) /\ Top.at = 0)
    <3>1. Return /\ firstProbe' = [firstProbe EXCEPT ![d] = FALSE]
      BY <1>5, <2>2, <2>3, <2>6 DEF FirstStep, Loops
    <3>2. firstProbe'["vesa"] => firstProbe["vesa"]
      <4>1. "vesa" \in Drivers /\ firstProbe \in [Drivers -> BOOLEAN]
        BY TreeFacts DEF StackInv, ListsTyped, TreeDrivers
      <4> QED BY <3>1, <4>1
    <3>3. ~booted => VgaComes'
      <4>1. ~(d = "vga" /\ Top.at = 0)
        BY <2>6, TreeFacts
      <4> QED BY <1>1, <1>2, <2>2, <4>1, VgaElse
    <3> QED BY <1>1, <1>2, <2>1, <3>1, <3>2, <3>3, ConsoleStays
  <2> QED BY <2>4, <2>5, <2>6
<1> QED BY <1>3, <1>4, <1>5

\* What a module may deregister is neither a console nor a framebuffer.
KeepsConsoles == ModuleRemoves \cap {"con", "framebuffer"} = {}

(* A device leaves the list: not the console, unless another takes over. *)
LEMMA ConsoleRemoval ==
    ASSUME KeepsConsoles, StackInv, ConsoleInv, stack # <<>>, Top.fn = "deregister", Return,
           Top.dev \in Listed, devices' = RemoveFirst(devices, Top.dev),
           dev' = [dev EXCEPT ![Top.dev].subdevices = <<>>], UNCHANGED <<booted, console>>
    PROVE  ConsoleInv'
<1>1. /\ Len(stack) \in Nat \ {0} /\ Top = stack[Len(stack)] /\ Len(stack') = Len(stack) - 1
      /\ \A k \in 1 .. Len(stack) - 1 : stack'[k] = stack[k]
      /\ stack \in Seq(Activations)
  BY Shapes DEF StackInv, StackTyped
<1>2. \A n \in Nat \ {0} : /\ n \in 1 .. n
                           /\ n - 1 > 0 => /\ 1 \in 1 .. n - 1 /\ 1 \in 1 .. n /\ 2 \in 1 .. n /\ n > 0
                                           /\ n - 1 \in 1 .. n - 1 /\ n - 1 \in 1 .. n
                           /\ n = 1 \/ n - 1 > 0
  OBVIOUS
<1>3. booted
  <2>1. ~(stack[Len(stack)].fn \in {"first", "register", "probe"})
    BY <1>1
  <2> QED BY <1>1, <1>2, <2>1 DEF ConsoleInv, BeforeBoot
<1>4. /\ Known' = Known /\ \A i \in Known : dev'[i].type = dev[i].type
      /\ Listed' = Listed \ {Top.dev} /\ Listed \subseteq Known
  <2>1. ToSet(RemoveFirst(devices, Top.dev)) = ToSet(devices) \ {Top.dev}
    BY Removed DEF StackInv, ListsTyped, Listed
  <2>2. Listed \subseteq Known
    BY DEF StackInv, ListsTyped
  <2> QED BY <2>1, <2>2, Unbound DEF Listed, Known
<1>5. BeforeBoot'
  BY <1>3 DEF BeforeBoot
<1>6. OnlyRemoved'
  <2>1. Len(stack') > 0 => Len(stack) > 0 /\ stack'[1] = stack[1]
    BY <1>1, <1>2
  <2> QED BY <1>4, <2>1 DEF ConsoleInv, OnlyRemoved
<1>7. ConsoleThere'
  <2>1. CASE \A k \in 1 .. Len(stack) : stack[k].fn = "deregister"
    <3>1. Len(stack) > 0 /\ stack[1].fn = "deregister"
      BY <1>1, <1>2, <2>1
    <3>2. stack[1].dev \in Known /\ dev[stack[1].dev].type \notin {"con", "framebuffer"}
      BY <3>1 DEF ConsoleInv, OnlyRemoved, KeepsConsoles
    <3>3. Len(stack) = 1
      <4>1. SUFFICES ASSUME Len(stack) # 1 PROVE FALSE
        OBVIOUS
      <4>2. 1 \in 1 .. Len(stack) - 1 /\ 1 \in 1 .. Len(stack) /\ 2 \in 1 .. Len(stack) /\ 1 + 1 = 2
        BY <1>1, <1>2, <4>1
      <4>3. Follows(stack[1], stack[1 + 1])
        BY <4>2 DEF StackInv, StackTyped
      <4>4. Follows(stack[1], stack[2])
        BY <4>2, <4>3
      <4>5. stack[2].fn = "deregister"
        BY <2>1, <4>2
      <4> QED BY <3>1, <3>2, <4>4, <4>5 DEF Follows, Takes
    <3>4. \A k \in 1 .. Len(stack) : ~Takes(stack[k])
      BY <2>1 DEF Takes
    <3>5. console \in Listed /\ dev[console].type = "con"
      BY <1>3, <3>4 DEF ConsoleInv, ConsoleThere
    <3>6. console # Top.dev
      BY <1>1, <3>2, <3>3, <3>5
    <3> QED BY <1>4, <3>5, <3>6 DEF ConsoleThere
  <2>2. CASE \A k \in 1 .. Len(stack) :
               stack[k].fn = "deregister" => k = Len(stack) /\ k > 1 /\ Takes(stack[k - 1])
    <3>1. Len(stack) > 1 /\ Takes(stack[Len(stack) - 1])
      <4>1. Len(stack) \in 1 .. Len(stack) /\ stack[Len(stack)].fn = "deregister"
        BY <1>1, <1>2
      <4> QED BY <2>2, <4>1
    <3>2. Len(stack) - 1 \in 1 .. Len(stack') /\ stack'[Len(stack) - 1] = stack[Len(stack) - 1]
      BY <1>1, <3>1
    <3>3. PICK k \in 1 .. Len(stack') : stack'[k] = stack[k] /\ Takes(stack[k])
      BY <3>1, <3>2
    <3>4. Takes(stack[k])'
      BY <3>3 DEF Takes
    <3> QED BY <3>4 DEF ConsoleThere
  <2> QED BY <2>1, <2>2 DEF StackInv, Removals
<1> QED BY <1>5, <1>6, <1>7 DEF ConsoleInv

(* device_deregister. *)
LEMMA ConsoleDeregister ==
    ASSUME KeepsConsoles, StackInv, ConsoleInv, DeregisterStep, UNCHANGED <<partitions, booted, console>>
    PROVE  ConsoleInv'
<1>1. /\ stack # <<>> /\ Top.fn = "deregister" /\ ~Takes(Top)
      /\ UNCHANGED <<drivers, disabled, firstProbe>>
  BY DEF DeregisterStep, Running, Idle, Takes
<1>2. CASE Top.dev \in Listed /\ ~(Top.at < Len(Doomed(Top.dev)))
  <2>1. /\ dev' = [dev EXCEPT ![Top.dev].subdevices = <<>>]
        /\ devices' = RemoveFirst(devices, Top.dev) /\ Return
    BY <1>2 DEF DeregisterStep, Listed
  <2> QED BY <1>1, <1>2, <2>1, ConsoleRemoval
<1>3. CASE ~(Top.dev \in Listed /\ ~(Top.at < Len(Doomed(Top.dev))))
  <2>1. Unmoved /\ Top \in Activations
    BY <1>1, <1>3, TopFacts DEF DeregisterStep, Listed, Unmoved
  <2>2. SameWorld /\ Listed \subseteq Listed' /\ Known' = Known
    BY <2>1, UnmovedFacts
  <2>3. booted
    <3>1. /\ Len(stack) \in 1 .. Len(stack) /\ Top = stack[Len(stack)]
      <4>1. Len(stack) \in Nat \ {0} /\ Top = stack[Len(stack)]
        BY <1>1, TopFacts
      <4> QED BY <4>1
    <3> QED BY <1>1, <3>1 DEF ConsoleInv, BeforeBoot
  <2>4. PICK fr : fr = [Top EXCEPT !.at = @ + 1]
    OBVIOUS
  <2>5. PICK g : g = Frame("deregister", None, Doomed(Top.dev)[Top.at + 1], 0, NoDevice)
    OBVIOUS
  <2>6. fr.fn = Top.fn /\ fr.dev = Top.dev
    BY <2>1, <2>4 DEF Activations
  <2>7. Return \/ Call(fr, g)
    BY <1>3, <2>4, <2>5 DEF DeregisterStep, Listed
  <2> QED BY <1>1, <2>2, <2>3, <2>6, <2>7, ConsoleStays
<1> QED BY <1>2, <1>3

(* Nothing moves. *)
LEMMA ConsoleSame ==
    ASSUME ConsoleInv, UNCHANGED <<drivers, devices, dev, firstProbe, stack, booted, console>>
    PROVE  ConsoleInv'
<1>1. /\ drivers' = drivers /\ devices' = devices /\ dev' = dev /\ firstProbe' = firstProbe
      /\ stack' = stack /\ booted' = booted /\ console' = console /\ Listed' = Listed /\ Known' = Known
  BY DEF Listed, Known
<1>2. BeforeBoot'
  BY <1>1 DEF ConsoleInv, BeforeBoot, VgaComes, VgaListed
<1>3. ConsoleThere'
  BY <1>1 DEF ConsoleInv, ConsoleThere, Takes
<1>4. OnlyRemoved'
  BY <1>1 DEF ConsoleInv, OnlyRemoved
<1> QED BY <1>2, <1>3, <1>4 DEF ConsoleInv

(* What device_register leaves. *)
LEMMA MadeFacts ==
    ASSUME StackInv, NEW fr, NEW table \in Seq(Machines), NEW new, device_register(fr, table, new),
           UNCHANGED <<drivers, disabled>>, Len(table) = Len(dev),
           \A i \in Known : table[i].name = dev[i].name /\ table[i].type = dev[i].type
    PROVE  /\ SameWorld /\ Listed \subseteq Listed' /\ NewId \in Listed' /\ dev'[NewId] = new
           /\ Known' = Known \cup {NewId} /\ Call(fr, Frame("register", None, NewId, 0, NoDevice))
<1>1. /\ dev' = Append(table, new) /\ devices' = Append(devices, NewId) /\ Len(dev) \in Nat
      /\ devices \in Seq(Nat)
      /\ drivers' = drivers /\ disabled' = disabled
      /\ Call(fr, Frame("register", None, NewId, 0, NoDevice))
  BY DeviceFacts DEF device_register, StackInv, ListsTyped
<1>2. PICK S : S = Machines \cup {new}
  OBVIOUS
<1>3. table \in Seq(S) /\ new \in S
  <2>1. \A i \in 1 .. Len(table) : table[i] \in S
    BY <1>2
  <2> QED BY <1>2, <2>1
<1>4. /\ Len(dev') = Len(dev) + 1 /\ dev'[Len(dev) + 1] = new
      /\ \A i \in 1 .. Len(dev) : dev'[i] = table[i]
  BY <1>1, <1>3
<1>5. \A n \in Nat : 1 .. n + 1 = 1 .. n \cup {n + 1} /\ n + 1 \in Nat /\ n <= n + 1
  OBVIOUS
<1>6. PICK n \in Nat : n = NewId
  BY <1>1, <1>5 DEF NewId
<1>7. ToSet(Append(devices, n)) = ToSet(devices) \cup {n}
  <2>1. devices \in Seq(Nat)
    BY <1>1
  <2>2. /\ Append(devices, n) \in Seq(Nat) /\ ToSet(Append(devices, n)) = ToSet(devices) \cup {n}
    BY <2>1, ElementsOf
  <2> QED BY <2>2
<1>8. SameWorld
  BY <1>1, <1>4, <1>5 DEF SameWorld, Known
<1> QED BY <1>1, <1>4, <1>5, <1>6, <1>7, <1>8 DEF Listed, Known, NewId

(* A probe registers a device. *)
LEMMA ConsoleMade ==
    ASSUME StackInv, ConsoleInv, stack # <<>>, Top.fn = "probe", ~Takes(Top), NEW fr, fr.fn = "probe",
           NEW table \in Seq(Machines), NEW new, device_register(fr, table, new),
           UNCHANGED <<drivers, disabled, firstProbe, booted, console>>, Len(table) = Len(dev),
           \A i \in Known : table[i].name = dev[i].name /\ table[i].type = dev[i].type,
           ~booted => new.type # "framebuffer" /\ (Top.drv = "vga" => new.name = <<"vga", 0>>)
    PROVE  ConsoleInv'
<1>1. /\ SameWorld /\ Listed \subseteq Listed' /\ NewId \in Listed' /\ dev'[NewId] = new
      /\ Known' = Known \cup {NewId} /\ Call(fr, Frame("register", None, NewId, 0, NoDevice))
  BY MadeFacts
<1>2. ASSUME ~booted PROVE VgaComes'
  <2>1. CASE Top.drv = "vga"
    <3>1. VgaListed'
      BY <1>1, <1>2, <2>1 DEF VgaListed
    <3> QED BY <3>1 DEF VgaComes
  <2>2. CASE Top.drv # "vga"
    BY <1>1, <1>2, <2>2, VgaElse
  <2> QED BY <2>1, <2>2
<1>3. PICK g : g = Frame("register", None, NewId, 0, NoDevice)
  OBVIOUS
<1>4. g.fn = "register" /\ Call(fr, g)
  BY <1>1, <1>3 DEF Frame
<1>5. ~booted => \A i \in Known' : i \in Known \/ dev'[i].type # "framebuffer"
  BY <1>1
<1> QED BY <1>1, <1>2, <1>4, <1>5, ConsoleStays

(* The probes but that of fbcon. *)
LEMMA ConsoleProbe ==
    ASSUME StackInv, ConsoleInv,
           SerialProbe \/ VgaProbe \/ VesaProbe \/ BdriveProbe \/ FatProbe \/ ModuleProbe
    PROVE  ConsoleInv'
<1>1. ASSUME NEW d, Probing(d), ~Takes(Top), Skip \/ Done,
             d = "vga" => ~(firstProbe["vga"] /\ Top.at = 0)
      PROVE  ConsoleInv'
  <2>1. stack # <<>> /\ Top.fn = "probe" /\ Top.drv = d /\ Top \in Activations
    BY <1>1, ProbingFacts
  <2>2. Unmoved /\ firstProbe' = firstProbe
    BY <1>1 DEF Skip, Done, Unmoved
  <2>3. booted' = booted /\ console' = console /\ SameWorld /\ Listed \subseteq Listed' /\ Known' = Known
    BY <2>2, UnmovedFacts
  <2>4. PICK fr : fr = [Top EXCEPT !.at = @ + 1]
    OBVIOUS
  <2>5. fr.fn = Top.fn
    BY <2>1, <2>4 DEF Activations
  <2>6. Return \/ Continue(fr)
    BY <1>1, <2>4 DEF Skip, Done
  <2>7. ~booted => VgaComes'
    BY <1>1, <2>1, <2>3, VgaElse
  <2> QED BY <1>1, <2>1, <2>2, <2>3, <2>5, <2>6, <2>7, ConsoleStays
<1>2. ASSUME Panic PROVE ConsoleInv'
  BY <1>2, ConsoleSame DEF Panic
<1>3. ASSUME NEW d, Probing(d), ~Takes(Top), NEW name, NEW type, NEW unit, NEW subs,
             Make(Device(name, type, unit, subs)), ~booted => type # "framebuffer",
             d = "vga" => name = <<"vga", 0>>
      PROVE  ConsoleInv'
  <2>1. stack # <<>> /\ Top.fn = "probe" /\ Top.drv = d /\ Top \in Activations
    BY <1>3, ProbingFacts
  <2>2. PICK new : new = Device(name, type, unit, subs)
    OBVIOUS
  <2>3. new.name = name /\ new.type = type
    BY <2>2 DEF Device
  <2>4. PICK fr : fr = [Top EXCEPT !.at = @ + 1]
    OBVIOUS
  <2>5. fr.fn = "probe"
    BY <2>1, <2>4 DEF Activations
  <2>6. PICK table \in Seq(Machines) : table = dev
    BY DEF StackInv, DevicesTyped
  <2>7. /\ device_register(fr, table, new) /\ UNCHANGED <<drivers, disabled, firstProbe, booted, console>>
        /\ Len(table) = Len(dev)
        /\ \A i \in Known : table[i].name = dev[i].name /\ table[i].type = dev[i].type
    BY <1>3, <2>2, <2>4, <2>6 DEF Make, device_register
  <2> QED BY <1>3, <2>1, <2>3, <2>5, <2>7, ConsoleMade
<1>4. ASSUME NEW d, Probing(d), ~Takes(Top), NEW prefix, NEW type, NEW unit, NEW subs,
             MakeNumbered(prefix, type, unit, subs), ~booted => type # "framebuffer", d # "vga"
      PROVE  ConsoleInv'
  <2>1. Panic \/ Make(Device(Append(prefix, FirstAvailableSuffix(prefix)), type, unit, subs))
    BY <1>4 DEF MakeNumbered
  <2> QED BY <1>2, <1>3, <1>4, <2>1
<1>5. \A d : d # "fbcon" /\ Probing(d) => ~Takes(Top)
  BY DEF Probing, Takes
<1>6. CASE SerialProbe
  <2>1. Probing("serial") /\ (Done \/ Make(Device(<<"sp", Top.at>>, "char", 0, <<>>)))
    BY <1>6 DEF SerialProbe
  <2> QED BY <1>1, <1>3, <1>5, <2>1
<1>7. CASE VgaProbe
  <2>1. Probing("vga") /\ \/ Done /\ ~(firstProbe["vga"] /\ Top.at = 0)
                          \/ Make(Device(<<"vga", 0>>, "con", 0, <<>>))
    BY <1>7 DEF VgaProbe
  <2> QED BY <1>1, <1>3, <1>5, <2>1
<1>8. CASE VesaProbe
  <2>1. Probing("vesa") /\ \/ Done
                           \/ /\ firstProbe["vesa"]
                              /\ \E left \in LeftInMemory : MakeNumbered(<<"vesafb">>, "framebuffer", 0, left)
    BY <1>8 DEF VesaProbe
  <2>2. firstProbe["vesa"] => booted
    BY DEF ConsoleInv, BeforeBoot
  <2> QED BY <1>1, <1>4, <1>5, <2>1, <2>2
<1>9. CASE BdriveProbe
  <2>1. Probing("bdrive") /\ (Done \/ Skip \/ MakeNumbered(<<"hd">>, "block", Top.at, <<>>))
    BY <1>9 DEF BdriveProbe
  <2> QED BY <1>1, <1>4, <1>5, <2>1
<1>10. CASE FatProbe
  <2>1. Probing("fat") /\ (Done \/ \E prefix, unit : MakeNumbered(prefix, "fs", unit, <<>>))
    BY <1>10 DEF FatProbe
  <2> QED BY <1>1, <1>4, <1>5, <2>1
<1>11. CASE ModuleProbe
  <2>1. Probing(ModuleDriver) /\ Done /\ ModuleDriver \notin {"fbcon", "vga"}
    BY <1>11 DEF ModuleProbe, ModuleDriver
  <2> QED BY <1>1, <1>5, <2>1
<1> QED BY <1>6, <1>7, <1>8, <1>9, <1>10, <1>11

(* fbcon. *)
LEMMA ConsoleFbcon ==
    ASSUME StackInv, ConsoleInv, FbconVisit
    PROVE  ConsoleInv'
<1>1. /\ Probing("fbcon") /\ stack # <<>> /\ Top.fn = "probe" /\ Top \in Activations
      /\ ProbeTyped(Top) /\ Top.drv = "fbcon" /\ ~Takes(Top)
  BY ProbingFacts DEF FbconVisit, Takes
<1>2. NextDevice(Top.at) \in Listed \cup {NoDevice} /\ Listed \subseteq Known
  BY <1>1, NextFacts DEF ProbeTyped, StackInv, ListsTyped
<1>3. PICK i \in Listed \cup {NoDevice} : i = NextDevice(Top.at)
  BY <1>2
<1>4. CASE i # NoDevice /\ Bindable(i) /\ SuffixFails(<<"fbcon">>)
  BY <1>3, <1>4, ConsoleSame DEF FbconVisit, Panic
<1>5. CASE i = NoDevice \/ ~Bindable(i)
  <2>1. PICK fr : fr = [Top EXCEPT !.at = i]
    OBVIOUS
  <2>2. (Return \/ Continue(fr)) /\ Unmoved /\ firstProbe' = firstProbe
    BY <1>3, <1>5, <2>1 DEF FbconVisit, Done, Unmoved
  <2>3. fr.fn = Top.fn
    BY <1>1, <2>1 DEF Activations
  <2>4. booted' = booted /\ console' = console /\ SameWorld /\ Listed \subseteq Listed' /\ Known' = Known
    BY <2>2, UnmovedFacts
  <2>5. ~booted => VgaComes'
    BY <1>1, <2>4, VgaElse
  <2> QED BY <1>1, <2>2, <2>3, <2>4, <2>5, ConsoleStays
<1>6. CASE i # NoDevice /\ Bindable(i) /\ ~SuffixFails(<<"fbcon">>)
  <2>1. PICK fr : fr = [Top EXCEPT !.at = i, !.new = NewId]
    OBVIOUS
  <2>2. i \in Known /\ dev[i].type = "framebuffer"
    BY <1>2, <1>6 DEF Bindable
  <2>3. booted
    BY <2>2 DEF ConsoleInv, BeforeBoot
  <2>4. PICK new : new = Device(<<"fbcon", FirstAvailableSuffix(<<"fbcon">>)>>, "con", 0, <<>>)
    OBVIOUS
  <2>5. fr.fn = "probe"
    BY <1>1, <2>1 DEF Activations
  <2>6. /\ dev \in Seq(Machines) /\ i \in 1 .. Len(dev) /\ dev[i] \in Machines /\ NewId \in Nat
    BY <2>2, DeviceFacts DEF StackInv, DevicesTyped, NewId, Known
  <2>7. PICK m \in Machines : m = [dev[i] EXCEPT !.subdevices = <<NewId>>]
    <3>1. <<NewId>> \in Seq(Nat)
      BY <2>6
    <3> QED BY <2>6, <3>1 DEF Machines
  <2>8. m.type = dev[i].type /\ m.name = dev[i].name
    BY <2>6, <2>7 DEF Machines
  <2>9. PICK table : table = [dev EXCEPT ![i] = m]
    OBVIOUS
  <2>10. table \in Seq(Machines) /\ Len(table) = Len(dev)
         /\ \A j \in Known : table[j].name = dev[j].name /\ table[j].type = dev[j].type
    <3>1. table \in Seq(Machines) /\ Len(table) = Len(dev)
          /\ \A j \in 1 .. Len(dev) : table[j] = IF j = i THEN m ELSE dev[j]
      BY <2>6, <2>9
    <3> QED BY <2>8, <3>1 DEF Known
  <2>11. table = [dev EXCEPT ![i].subdevices = <<NewId>>]
    BY <2>7, <2>9
  <2>12. device_register(fr, table, new) /\ UNCHANGED <<drivers, disabled, firstProbe, booted, console>>
    BY <1>3, <1>6, <2>1, <2>4, <2>11 DEF FbconVisit
  <2> QED BY <1>1, <2>3, <2>5, <2>10, <2>12, ConsoleMade
<1> QED BY <1>4, <1>5, <1>6

(* fbcon takes the console over. *)
LEMMA ConsoleTakeOver ==
    ASSUME StackInv, ConsoleInv, FbconTakeOver
    PROVE  ConsoleInv'
<1>1. /\ stack # <<>> /\ Top.fn = "probe" /\ Top.drv = "fbcon" /\ Top \in Activations
      /\ ProbeTyped(Top) /\ Takes(Top) /\ UNCHANGED <<drivers, devices, dev, disabled, firstProbe, booted>>
  BY ProbingFacts DEF FbconTakeOver, Takes
<1>2. /\ Top.at \in Listed /\ dev[Top.at].type = "framebuffer" /\ Top.new \in Listed
      /\ dev[Top.new].type = "con" /\ Listed \subseteq Known
  BY <1>1 DEF ProbeTyped, Takes, StackInv, ListsTyped
<1>3. booted
  BY <1>2 DEF ConsoleInv, BeforeBoot
<1>4. CASE OldConsole # NoDevice
  <2>1. Unmoved
    BY <1>1, <1>4 DEF FbconTakeOver, Unmoved
  <2>2. booted' = booted /\ console' = console /\ SameWorld /\ Listed \subseteq Listed' /\ Known' = Known
    BY <2>1, UnmovedFacts
  <2>3. PICK top : top = Top
    OBVIOUS
  <2>4. PICK g : g = Frame("deregister", None, OldConsole, 0, NoDevice)
    OBVIOUS
  <2>5. Call(top, g)
    BY <1>4, <2>3, <2>4 DEF FbconTakeOver
  <2> QED BY <1>1, <1>3, <2>2, <2>3, <2>5, ConsoleStays
<1>5. CASE OldConsole = NoDevice
  <2>1. PICK fr : fr = [Top EXCEPT !.new = NoDevice]
    OBVIOUS
  <2>2. Continue(fr) /\ console' = Top.new
    BY <1>5, <2>1 DEF FbconTakeOver, NewConsole
  <2>3. ConsoleThere'
    BY <1>1, <1>2, <2>2 DEF ConsoleThere, Listed
  <2>4. BeforeBoot'
    BY <1>1, <1>3 DEF BeforeBoot
  <2>5. OnlyRemoved'
    <3>1. /\ Len(stack) \in Nat \ {0} /\ Len(stack) # 1 /\ Len(stack') = Len(stack)
          /\ \A k \in 1 .. Len(stack) - 1 : stack'[k] = stack[k]
      BY <1>1, <2>2, Shapes, TopFacts
    <3>2. \A n \in Nat \ {0} : n # 1 => n > 0 /\ 1 \in 1 .. n - 1
      OBVIOUS
    <3>3. Len(stack) > 0 /\ stack'[1] = stack[1]
      BY <3>1, <3>2
    <3> QED BY <1>1, <3>3 DEF ConsoleInv, OnlyRemoved, Known
  <2> QED BY <2>3, <2>4, <2>5 DEF ConsoleInv
<1> QED BY <1>4, <1>5

(* The calls of the kernel, of a command and of a module begin. *)
LEMMA ConsoleBegin ==
    ASSUME StackInv, ConsoleInv, stack = <<>>, UNCHANGED <<devices, dev, booted, console>>,
           \/ stack' = <<>>
           \/ \E f : /\ stack' = <<f>> /\ (~booted => f.fn = "first")
                     /\ f.fn = "deregister" => f.dev \in Listed /\ dev[f.dev].type \in ModuleRemoves,
           ~booted => ~firstProbe'["vesa"] /\ VgaComes'
    PROVE  ConsoleInv'
<1>1. /\ devices' = devices /\ dev' = dev /\ Listed' = Listed /\ Known' = Known
      /\ booted' = booted /\ console' = console /\ Listed \subseteq Known
  BY DEF Listed, Known, StackInv, ListsTyped
<1>2. /\ ~booted => \A k \in 1 .. Len(stack') : stack'[k].fn = "first"
      /\ Len(stack') > 0 /\ stack'[1].fn = "deregister" =>
            stack'[1].dev \in Known /\ dev[stack'[1].dev].type \in ModuleRemoves
  <2>1. CASE stack' = <<>>
    BY <2>1
  <2>2. ASSUME NEW f, stack' = <<f>>, ~booted => f.fn = "first",
               f.fn = "deregister" => f.dev \in Listed /\ dev[f.dev].type \in ModuleRemoves
        PROVE  <1>2!:
    <3>1. Len(stack') = 1 /\ \A k \in 1 .. Len(stack') : stack'[k] = f /\ stack'[1] = f
      BY <2>2
    <3> QED BY <1>1, <2>2, <3>1
  <2> QED BY <2>1, <2>2
<1>3. BeforeBoot'
  BY <1>1, <1>2 DEF ConsoleInv, BeforeBoot
<1>4. ConsoleThere'
  <2>1. \A k \in 1 .. Len(stack) : ~Takes(stack[k])
    OBVIOUS
  <2> QED BY <1>1, <2>1 DEF ConsoleInv, ConsoleThere
<1>5. OnlyRemoved'
  BY <1>1, <1>2 DEF OnlyRemoved
<1> QED BY <1>3, <1>4, <1>5 DEF ConsoleInv

(* Between the calls vga0 is there, if its driver is. *)
LEMMA VgaIdle ==
    ASSUME StackInv, ConsoleInv, stack = <<>>, ~booted
    PROVE  ~firstProbe["vesa"] /\ ("vga" \in ToSet(drivers) => VgaListed)
<1>1. ~firstProbe["vesa"] /\ VgaComes
  BY DEF ConsoleInv, BeforeBoot
<1>2. Len(stack) = 0
  OBVIOUS
<1> QED BY <1>1, <1>2 DEF VgaComes

(* The initialisers of the drivers. *)
LEMMA ConsoleBoot ==
    ASSUME StackInv, ConsoleInv, BootDriver
    PROVE  ConsoleInv'
<1>1. PICK d \in TreeDrivers \ ToSet(drivers) : driver_register(d)
  BY DEF BootDriver
<1>2. /\ stack = <<>> /\ ~booted /\ UNCHANGED <<devices, dev, booted, console>>
      /\ drivers' = Append(drivers, d)
  BY <1>1 DEF BootDriver, driver_register, Idle
<1>3. ~firstProbe["vesa"] /\ ("vga" \in ToSet(drivers) => VgaListed)
  BY <1>2, VgaIdle
<1>4. /\ ToSet(drivers') = ToSet(drivers) \cup {d} /\ d \in Drivers
      /\ firstProbe \in [Drivers -> BOOLEAN] /\ "vesa" \in Drivers
  BY <1>1, <1>2, IdleFacts, ElementsOf, TreeFacts DEF TreeDrivers
<1>5. PICK f : f = Frame("first", d, NoDevice, 0, NoDevice)
  OBVIOUS
<1>6. f.fn = "first" /\ f.at = 0
  BY <1>5 DEF Frame
<1>7. CASE Attr[d].disabled
  <2>1. d # "vga" /\ stack' = <<>> /\ firstProbe' = firstProbe
    BY <1>1, <1>2, <1>7, VgaEnabled DEF driver_register
  <2>2. VgaComes'
    BY <1>2, <1>3, <1>4, <2>1 DEF VgaComes, VgaListed, Listed
  <2> QED BY <1>2, <1>3, <2>1, <2>2, ConsoleBegin
<1>8. CASE ~Attr[d].disabled
  <2>1. d # "vesa" /\ stack' = <<f>> /\ firstProbe' = [firstProbe EXCEPT ![d] = TRUE]
    BY <1>1, <1>5, <1>8, TreeFacts DEF driver_register, FirstProbe
  <2>2. ~firstProbe'["vesa"]
    BY <1>3, <1>4, <2>1
  <2>3. Len(stack') = 1 /\ stack'[1].at = 0
    BY <1>6, <2>1
  <2>4. VgaComes'
    <3>1. CASE d = "vga"
      <4>1. firstProbe'["vga"]
        BY <1>4, <2>1, <3>1
      <4> QED BY <2>3, <4>1 DEF VgaComes
    <3>2. CASE d # "vga"
      BY <1>2, <1>3, <1>4, <3>2 DEF VgaComes, VgaListed, Listed
    <3> QED BY <3>1, <3>2
  <2> QED BY <1>2, <1>6, <2>1, <2>2, <2>4, ConsoleBegin
<1> QED BY <1>7, <1>8

(* Every step keeps what is known of the console. *)
LEMMA ConsoleStep ==
    ASSUME KeepsConsoles, StackInv, ConsoleInv, [Next]_vars
    PROVE  ConsoleInv'
<1>1. CASE TakeVga
  <2>1. /\ ~booted /\ stack = <<>> /\ "vga" \in ToSet(drivers) /\ booted'
        /\ console' = device_get_by_name(<<"vga", 0>>)
        /\ UNCHANGED <<drivers, devices, dev, stack>>
    BY <1>1 DEF TakeVga, Idle, TreeDrivers, managerVars
  <2>2. VgaListed
    BY <2>1, VgaIdle
  <2>3. console' \in Listed /\ dev[console'].name = <<"vga", 0>>
    BY <2>1, <2>2, ByName DEF VgaListed
  <2>4. dev[console'].type = "con"
    BY <2>3, DeviceFacts DEF StackInv, ListsTyped
  <2>5. BeforeBoot'
    BY <2>1 DEF BeforeBoot
  <2>6. ConsoleThere'
    BY <2>1, <2>3, <2>4 DEF ConsoleThere, Listed
  <2>7. OnlyRemoved'
    <3>1. Len(stack') = 0
      BY <2>1
    <3> QED BY <3>1 DEF OnlyRemoved
  <2> QED BY <2>5, <2>6, <2>7 DEF ConsoleInv
<1>2. CASE Endrv
  <2>1. PICK d : driver_enable(d)
    BY <1>2 DEF Endrv
  <2>2. PICK f : f = Frame("first", d, NoDevice, 0, NoDevice)
    OBVIOUS
  <2>3. booted /\ stack = <<>> /\ stack' = <<f>> /\ f.fn = "first" /\ UNCHANGED <<devices, dev, booted, console>>
    BY <1>2, <2>1, <2>2 DEF Endrv, driver_enable, FirstProbe, Idle, Frame
  <2> QED BY <2>3, ConsoleBegin
<1>3. CASE ModuleCalls
  <2>0. booted /\ UNCHANGED <<booted, console>>
    BY <1>3 DEF ModuleCalls
  <2>1. ASSUME driver_register(ModuleDriver) PROVE ConsoleInv'
    <3>1. PICK f : f = Frame("first", ModuleDriver, NoDevice, 0, NoDevice)
      OBVIOUS
    <3>2. f.fn = "first" /\ stack = <<>> /\ (stack' = <<>> \/ stack' = <<f>>) /\ UNCHANGED <<devices, dev>>
      BY <2>1, <3>1 DEF driver_register, FirstProbe, Idle, Frame
    <3> QED BY <2>0, <3>2, ConsoleBegin
  <2>2. ASSUME driver_deregister(ModuleDriver) PROVE ConsoleInv'
    <3>1. stack = <<>> /\ stack' = <<>> /\ UNCHANGED <<devices, dev>>
      BY <2>2 DEF driver_deregister, Idle
    <3> QED BY <2>0, <3>1, ConsoleBegin
  <2>3. ASSUME NEW i \in ToSet(devices), dev[i].type \in ModuleRemoves, device_deregister(i)
        PROVE  ConsoleInv'
    <3>1. PICK f : f = Frame("deregister", None, i, 0, NoDevice)
      OBVIOUS
    <3>2. f.dev = i /\ stack = <<>> /\ stack' = <<f>> /\ UNCHANGED <<devices, dev>>
      BY <2>3, <3>1 DEF device_deregister, Idle, Frame
    <3> QED BY <2>0, <2>3, <3>2, ConsoleBegin DEF Listed
  <2>4. ASSUME NEW t, driver_probe_for(t) PROVE ConsoleInv'
    <3>1. PICK f : f = Frame("probeFor", t, NoDevice, 0, NoDevice)
      OBVIOUS
    <3>2. f.fn = "probeFor" /\ stack = <<>> /\ stack' = <<f>> /\ UNCHANGED <<devices, dev>>
      BY <2>4, <3>1 DEF driver_probe_for, Idle, Frame
    <3> QED BY <2>0, <3>2, ConsoleBegin
  <2> QED BY <1>3, <2>1, <2>2, <2>3, <2>4 DEF ModuleCalls
<1>4. CASE ManagerStep /\ UNCHANGED <<partitions, booted, console>>
  BY <1>4, ConsoleLoops, ConsoleDeregister DEF ManagerStep
<1>5. CASE ProbeStep
  BY <1>5, ConsoleProbe, ConsoleFbcon, ConsoleTakeOver DEF ProbeStep
<1>6. CASE UNCHANGED vars
  BY <1>6, ConsoleSame DEF vars, managerVars
<1>7. CASE BootDriver
  BY <1>7, ConsoleBoot
<1> QED BY <1>1, <1>2, <1>3, <1>4, <1>5, <1>6, <1>7 DEF Next, Steps

(* Before the boot there is no console. *)
LEMMA ConsoleStart ==
    ASSUME Init
    PROVE  ConsoleInv
<1>1. /\ drivers = <<>> /\ dev = <<>> /\ stack = <<>> /\ booted = FALSE
      /\ firstProbe = [d \in Drivers |-> FALSE]
  BY DEF Init, ManagerInit
<1>2. ToSet(drivers) = {} /\ Known = {} /\ Len(stack) = 0 /\ ~firstProbe["vesa"]
  BY <1>1, TreeFacts DEF ToSet, Known, TreeDrivers
<1> QED BY <1>1, <1>2 DEF ConsoleInv, BeforeBoot, VgaComes, ConsoleThere, OnlyRemoved

(* Between commands the console is a registered one (main.c, fbcon.c), also after a
   framebuffer console has taken over from vga0 and deregistered it, as long as no module
   deregisters consoles and framebuffers itself. *)
THEOREM ConsoleHolds ==
    ASSUME KeepsConsoles
    PROVE  Spec => []ConsoleRegistered
<1>1. StackInv /\ NamesInv /\ ConsoleInv /\ [Next]_vars => ConsoleInv'
  BY ConsoleStep
<1>2. Init => ConsoleInv
  BY ConsoleStart
<1>3. StackInv /\ ConsoleInv => ConsoleRegistered
  <2>1. stack = <<>> => \A k \in 1 .. Len(stack) : ~Takes(stack[k])
    OBVIOUS
  <2> QED BY <2>1 DEF ConsoleInv, ConsoleThere, ConsoleRegistered, Listed, Idle
<1> QED BY <1>1, <1>2, <1>3, StackInvariance, PTL DEF Spec

----------------------------------------------------------------------------
(* The disks and their partitions. *)

\* How far the first probe of bdrive has come through the drives.
Reached ==
    IF "bdrive" \notin ToSet(drivers) THEN 0
    ELSE IF ~firstProbe["bdrive"] THEN 4
    ELSE IF Len(stack) = 1 THEN IF stack[1].at = 0 THEN 0 ELSE 4
    ELSE stack[2].at

Block(i) == dev[i].type = "block"
Partition(i) == dev[i].type = "fs"

\* What was ever made of a disk's partitions, and the activation that makes them.
Made(u) == {i \in Known : Partition(i) /\ dev[i].unit = u}
Mounter(f) == f.fn = "probe" /\ f.drv = "fat" /\ f.dev # NoDevice
Mounting(i) == \E k \in 1 .. Len(stack) : Mounter(stack[k]) /\ stack[k].dev = i

\* The disks found so far are those the first probe has come past, each once.
DisksFound ==
    /\ \A i \in Known : Block(i) =>
          /\ dev[i].unit \in Disks /\ dev[i].unit < Reached
          /\ \A j \in Known : Block(j) /\ dev[j].unit = dev[i].unit => i = j
    /\ Registers(Cardinality(Disks)) =>
          \A u \in Disks : u < Reached => \E i \in Known : Block(i) /\ dev[i].unit = u

\* A partition was made for a disk, and has its name.
HasDisk(i) ==
    \E j \in Known : Block(j) /\ dev[j].unit = dev[i].unit /\ dev[j].name[2] = dev[i].name[2]
PartitionsOfDisks == \A i \in Known : Partition(i) => "fat" \in ToSet(drivers) /\ HasDisk(i)

\* The partitions of a disk are made by the one probe with it.
DiskMade(i) ==
    IF probed["fat"][i] = 0 THEN Made(dev[i].unit) = {}
    ELSE Mounting(i) \/ Cardinality(Made(dev[i].unit)) = partitions[dev[i].unit]
FrameMade(f) ==
    /\ probed["fat"][f.dev] # 0
    /\ f.at <= partitions[dev[f.dev].unit]
    /\ Cardinality(Made(dev[f.dev].unit)) = f.at
MadeSoFar ==
    Known \subseteq Ids =>
        /\ \A i \in Known : Block(i) => DiskMade(i)
        /\ \A k \in 1 .. Len(stack) : Mounter(stack[k]) => FrameMade(stack[k])

\* Nobody deregisters a disk while it is registered, nor anything of a disk before the
\* boot is over.
DisksListed ==
    /\ \A k \in 1 .. Len(stack) :
          stack[k].fn = "register" /\ Block(stack[k].dev) => stack[k].dev \in Listed
    /\ ~booted => /\ Len(stack) > 0 => stack[1].fn = "first"
                  /\ \A i \in Known : Block(i) \/ Partition(i) => i \in Listed

DisksTyped ==
    /\ \E n \in DiskCounts : partitions \in [0 .. n - 1 -> 0 .. MaxPartitions]
    /\ ~disabled["fat"]

MountInv == DisksTyped /\ DisksFound /\ PartitionsOfDisks /\ MadeSoFar /\ DisksListed

(* The probe of fat with a disk: it was called by fat's first probe, or when bdrive
   registered the disk. *)
LEMMA MounterWhere ==
    ASSUME StackInv, NEW k \in 1 .. Len(stack), Mounter(stack[k])
    PROVE  /\ stack[k].dev \in Known /\ Block(stack[k].dev) /\ stack[k].at \in Nat
           /\ \/ k = 2
              \/ k = 4 /\ 2 \in 1 .. Len(stack) /\ stack[2].drv = "bdrive"
<1>1. /\ Len(stack) \in Nat /\ k \in Nat \ {0} /\ k # 1 /\ stack[k] \in Activations
  <2>1. stack \in Seq(Activations)
    BY DEF StackInv, StackTyped
  <2>2. Len(stack) \in Nat /\ k \in Nat \ {0} /\ stack[k] \in Activations
    BY <2>1
  <2>3. k # 1
    BY DEF StackInv, StackTyped, Mounter
  <2> QED BY <2>2, <2>3
<1>2. k - 1 \in 1 .. Len(stack) /\ k - 1 \in 1 .. Len(stack) - 1 /\ k - 1 + 1 = k
  BY <1>1
<1>3. PICK l \in 1 .. Len(stack) : l = k - 1
  BY <1>2
<1>4. FrameTyped(stack[l]) /\ FrameTyped(stack[k]) /\ Follows(stack[l], stack[k])
  <2>1. Follows(stack[k - 1], stack[k - 1 + 1])
    BY <1>2 DEF StackInv, StackTyped
  <2> QED BY <1>2, <1>3, <2>1 DEF StackInv, StackTyped
<1>5. stack[k].dev \in Known /\ stack[k].at \in Nat
  BY <1>1, <1>4 DEF FrameTyped, ProbeTyped, Mounter, Activations
<1>6. stack[l].fn \in {"first", "register"} /\ DependsOn("fat", stack[k].dev)
  BY <1>4, TreeFacts DEF Follows, Mounter, Takes
<1>7. Block(stack[k].dev)
  BY <1>6, TreeFacts DEF DependsOn, Block
<1>8. CASE stack[l].fn = "first"
  <2>1. l = 1
    BY <1>8 DEF StackInv, StackTyped
  <2> QED BY <1>2, <1>3, <1>5, <1>7, <2>1
<1>9. CASE stack[l].fn = "register"
  <2>1. stack[l].dev = stack[k].dev
    BY <1>4, <1>9 DEF Follows, Mounter, Takes
  <2>2. /\ l - 1 \in 1 .. Len(stack) /\ stack[l - 1].fn = "probe"
        /\ stack[l - 1].drv \in TreeDrivers /\ dev[stack[l].dev].type = Makes(stack[l - 1].drv)
    BY <1>9, RegisterUnder
  <2>3. PICK m \in 1 .. Len(stack) : m = l - 1
    BY <2>2
  <2>4. stack[m].drv = "bdrive"
    BY <1>7, <2>1, <2>2, <2>3 DEF Block, Makes, TreeDrivers
  <2>5. m = 2
    BY <2>2, <2>3, <2>4, ProbeWithout
  <2> QED BY <1>1, <1>3, <1>5, <1>7, <2>3, <2>4, <2>5
<1> QED BY <1>6, <1>8, <1>9

(* There is never more than one. *)
LEMMA OneMounter ==
    ASSUME StackInv, NEW k \in 1 .. Len(stack), NEW l \in 1 .. Len(stack),
           Mounter(stack[k]), Mounter(stack[l])
    PROVE  k = l
BY MounterWhere DEF Mounter

\* The loop over the drives goes past no disk that it should have found.
NoneSkipped ==
    \A u \in Disks : /\ u < Reached => u < Reached'
                     /\ Registers(Cardinality(Disks)) /\ u < Reached' => u < Reached

(* The loop over the drives stays where it is. *)
LEMMA ReachedStays ==
    ASSUME StackInv, stack # <<>>, drivers' = drivers, firstProbe' = firstProbe, NEW fr, NEW g,
           Return \/ Continue(fr) \/ Call(fr, g),
           Top.fn \in {"first", "probe"} /\ Top.drv = "bdrive" /\ firstProbe["bdrive"] =>
              Top.fn = "probe" /\ Return /\ Top.at = 4
    PROVE  NoneSkipped
<1> SUFFICES Reached' = Reached
  BY DEF NoneSkipped
<1>1. CASE "bdrive" \notin ToSet(drivers) \/ ~firstProbe["bdrive"]
  BY <1>1 DEF Reached
<1>2. CASE "bdrive" \in ToSet(drivers) /\ firstProbe["bdrive"]
  <2>1. /\ Len(stack) \in Nat \ {0} /\ Top = stack[Len(stack)]
        /\ Len(stack') \in Len(stack) - 1 .. Len(stack) + 1
        /\ \A k \in 1 .. Len(stack) - 1 : stack'[k] = stack[k]
        /\ Return => Len(stack') = Len(stack) - 1
    <3>1. \A n \in Nat \ {0} : n - 1 \in n - 1 .. n + 1 /\ n \in n - 1 .. n + 1 /\ n + 1 \in n - 1 .. n + 1
      OBVIOUS
    <3> QED BY <3>1, Shapes
  <2>2. stack[1].fn = "first" /\ stack[1].drv = "bdrive"
    BY <1>2, TreeFacts DEF StackInv, FirstOnly, TreeDrivers
  <2>3. Len(stack) # 1
    BY <1>2, <2>1, <2>2
  <2>4. CASE Len(stack) = 2
    <3>1. 1 \in 1 .. Len(stack) - 1 /\ 1 + 1 = 2
      BY <2>4
    <3>2. Follows(stack[1], stack[1 + 1])
      BY <3>1 DEF StackInv, StackTyped
    <3>3. stack[2].drv = "bdrive" /\ stack[2].fn = "probe" /\ stack[1].at = 1
      BY <2>2, <3>1, <3>2, TreeFacts DEF Follows, Takes
    <3>4. Len(stack') = 1 /\ stack'[1].at = 1 /\ stack[2].at = 4
      BY <1>2, <2>1, <2>4, <3>1, <3>3
    <3> QED BY <1>2, <2>4, <3>4 DEF Reached
  <2>5. CASE Len(stack) # 2
    <3>1. \A n \in Nat \ {0} : n # 1 /\ n # 2 => 2 \in 1 .. n - 1 /\ \A m \in n - 1 .. n + 1 : m # 1
      OBVIOUS
    <3>2. Len(stack') # 1 /\ stack'[2] = stack[2]
      BY <2>1, <2>3, <2>5, <3>1
    <3> QED BY <1>2, <2>3, <3>2 DEF Reached
  <2> QED BY <2>4, <2>5
<1> QED BY <1>1, <1>2

\* The devices there are keep their names, types and units.
SameMachines ==
    /\ Len(dev') = Len(dev) /\ partitions' = partitions
    /\ \A i \in Known : /\ dev'[i].name = dev[i].name /\ dev'[i].type = dev[i].type
                        /\ dev'[i].unit = dev[i].unit

(* What is on the disks is what it was. *)
LEMMA MachinesStay ==
    ASSUME SameMachines
    PROVE  /\ Known' = Known /\ Disks' = Disks
           /\ \A i \in Known : (Block(i)' <=> Block(i)) /\ (Partition(i)' <=> Partition(i))
           /\ \A u : Made(u)' = Made(u)
<1>1. Known' = Known /\ Disks' = Disks
  BY DEF SameMachines, Known, Disks
<1>2. \A i \in Known : (Block(i)' <=> Block(i)) /\ (Partition(i)' <=> Partition(i))
  BY DEF SameMachines, Block, Partition
<1>3. \A u : Made(u)' = Made(u)
  BY <1>1, <1>2 DEF SameMachines, Made
<1> QED BY <1>1, <1>2, <1>3

\* What is not about how many partitions were made.
OfDisks == DisksTyped /\ DisksFound /\ PartitionsOfDisks /\ DisksListed

(* A step that makes no device. *)
LEMMA DisksStay ==
    ASSUME StackInv, OfDisks, SameMachines, NoneSkipped, ~disabled'["fat"],
           "fat" \in ToSet(drivers) => "fat" \in ToSet(drivers'),
           \A k \in 1 .. Len(stack') : stack'[k].fn = "register" =>
              \E l \in 1 .. Len(stack) : stack[l].fn = "register" /\ stack[l].dev = stack'[k].dev,
           \/ \A i \in Listed : i \in Listed' \/ ~(Block(i) \/ Partition(i))
           \/ booted' /\ \A k \in 1 .. Len(stack') : stack'[k].fn # "register",
           ~booted' => ~booted /\ (Len(stack') > 0 => stack'[1].fn = "first")
    PROVE  OfDisks'
<1>1. /\ Known' = Known /\ Disks' = Disks
      /\ \A i \in Known : (Block(i)' <=> Block(i)) /\ (Partition(i)' <=> Partition(i))
      /\ \A u : Made(u)' = Made(u)
      /\ \A i \in Known : dev'[i].name = dev[i].name /\ dev'[i].unit = dev[i].unit
      /\ partitions' = partitions
  BY MachinesStay DEF SameMachines
<1>2. \A k \in 1 .. Len(stack) : /\ Mounter(stack[k]) => stack[k].dev \in Known
                                 /\ stack[k].fn = "register" => stack[k].dev \in Known
  BY MounterWhere DEF StackInv, StackTyped, FrameTyped
<1>3. DisksTyped'
  BY <1>1 DEF OfDisks, DisksTyped
<1>4. DisksFound'
  <2>1. \A i \in Known : Block(i)' =>
          /\ dev'[i].unit \in Disks' /\ dev'[i].unit < Reached'
          /\ \A j \in Known : Block(j)' /\ dev'[j].unit = dev'[i].unit => i = j
    BY <1>1 DEF OfDisks, DisksFound, NoneSkipped
  <2>2. Registers(Cardinality(Disks)) =>
          \A u \in Disks : u < Reached' => \E i \in Known : Block(i)' /\ dev'[i].unit = u
    BY <1>1 DEF OfDisks, DisksFound, NoneSkipped
  <2> QED BY <1>1, <2>1, <2>2 DEF DisksFound, Registers
<1>5. PartitionsOfDisks'
  <2>1. \A i \in Known : HasDisk(i) => HasDisk(i)'
    BY <1>1 DEF HasDisk
  <2> QED BY <1>1, <2>1 DEF OfDisks, PartitionsOfDisks
<1>6. DisksListed'
  <2>1. ASSUME NEW k \in 1 .. Len(stack'), stack'[k].fn = "register", NEW i, i = stack'[k].dev, Block(i)'
        PROVE  i \in Listed'
    <3>1. PICK l \in 1 .. Len(stack) : stack[l].fn = "register" /\ stack[l].dev = i
      BY <2>1
    <3>2. i \in Known
      BY <1>2, <3>1
    <3>3. Block(i)
      BY <1>1, <2>1, <3>2
    <3>4. i \in Listed
      BY <3>1, <3>3 DEF OfDisks, DisksListed
    <3> QED BY <2>1, <3>3, <3>4
  <2>2. ASSUME ~booted', NEW i \in Known, Block(i)' \/ Partition(i)' PROVE i \in Listed'
    BY <1>1, <2>2 DEF OfDisks, DisksListed
  <2>3. ~booted' => (Len(stack') > 0 => stack'[1].fn = "first")
    OBVIOUS
  <2> QED BY <1>1, <2>1, <2>2, <2>3 DEF DisksListed
<1> QED BY <1>3, <1>4, <1>5, <1>6 DEF OfDisks

(* A step that makes no device, and begins no probe of fat with one. *)
LEMMA MountStays ==
    ASSUME StackInv, MountInv, SameMachines, NoneSkipped, ~disabled'["fat"],
           "fat" \in ToSet(drivers) => "fat" \in ToSet(drivers'),
           \A i \in Known : i \in Ids => probed'["fat"][i] = probed["fat"][i],
           \A k \in 1 .. Len(stack') : Mounter(stack'[k]) =>
              \E l \in 1 .. Len(stack) : Mounter(stack[l]) /\ stack[l].dev = stack'[k].dev
                                         /\ stack[l].at = stack'[k].at,
           \A i \in Known : Mounting(i) => Mounting(i)'
                              \/ (Known \subseteq Ids => Cardinality(Made(dev[i].unit)) = partitions[dev[i].unit]),
           \A k \in 1 .. Len(stack') : stack'[k].fn = "register" =>
              \E l \in 1 .. Len(stack) : stack[l].fn = "register" /\ stack[l].dev = stack'[k].dev,
           \/ \A i \in Listed : i \in Listed' \/ ~(Block(i) \/ Partition(i))
           \/ booted' /\ \A k \in 1 .. Len(stack') : stack'[k].fn # "register",
           ~booted' => ~booted /\ (Len(stack') > 0 => stack'[1].fn = "first")
    PROVE  MountInv'
<1>1. /\ Known' = Known /\ Disks' = Disks
      /\ \A i \in Known : (Block(i)' <=> Block(i)) /\ (Partition(i)' <=> Partition(i))
      /\ \A u : Made(u)' = Made(u)
      /\ \A i \in Known : dev'[i].name = dev[i].name /\ dev'[i].unit = dev[i].unit
      /\ partitions' = partitions
  BY MachinesStay DEF SameMachines
<1>2. \A k \in 1 .. Len(stack) : /\ Mounter(stack[k]) => stack[k].dev \in Known
                                 /\ stack[k].fn = "register" => stack[k].dev \in Known
  BY MounterWhere DEF StackInv, StackTyped, FrameTyped
<1>3. OfDisks'
  BY DisksStay DEF MountInv, OfDisks
<1>4. MadeSoFar'
  <2>1. SUFFICES ASSUME Known \subseteq Ids
                 PROVE  /\ \A i \in Known : Block(i) => DiskMade(i)'
                        /\ \A k \in 1 .. Len(stack') : \A f : f = stack'[k] /\ Mounter(f) => FrameMade(f)'
    <3>1. \A i \in Known' : Block(i)' <=> Block(i)
      BY <1>1
    <3>2. \A f : Mounter(f)' <=> Mounter(f)
      BY DEF Mounter
    <3> QED BY <1>1, <3>1, <3>2 DEF MadeSoFar
  <2>2. \A i \in Known : Block(i) => DiskMade(i)
    BY <2>1 DEF MountInv, MadeSoFar
  <2>3. \A k \in 1 .. Len(stack) : Mounter(stack[k]) => FrameMade(stack[k])
    BY <2>1 DEF MountInv, MadeSoFar
  <2>4. ASSUME NEW i \in Known, Block(i) PROVE DiskMade(i)'
    <3>1. DiskMade(i) /\ probed'["fat"][i] = probed["fat"][i]
      BY <2>1, <2>2, <2>4
    <3>2. Mounting(i) => Mounting(i)' \/ Cardinality(Made(dev[i].unit)) = partitions[dev[i].unit]
      BY <2>1
    <3> QED BY <1>1, <3>1, <3>2 DEF DiskMade
  <2>5. ASSUME NEW k \in 1 .. Len(stack'), NEW f, f = stack'[k], Mounter(f) PROVE FrameMade(f)'
    <3>1. PICK l \in 1 .. Len(stack) : Mounter(stack[l]) /\ stack[l].dev = f.dev /\ stack[l].at = f.at
      BY <2>5
    <3>2. FrameMade(stack[l]) /\ f.dev \in Known
      BY <1>2, <2>3, <3>1
    <3>3. probed'["fat"][f.dev] = probed["fat"][f.dev]
      BY <2>1, <3>2
    <3> QED BY <1>1, <3>1, <3>2, <3>3 DEF FrameMade
  <2> QED BY <2>4, <2>5
<1> QED BY <1>3, <1>4 DEF MountInv, OfDisks

(* Nothing moves. *)
LEMMA MountSame ==
    ASSUME StackInv, MountInv,
           UNCHANGED <<drivers, devices, dev, disabled, firstProbe, stack, probed, partitions, booted>>
    PROVE  MountInv'
<1>1. Listed' = Listed /\ SameMachines /\ NoneSkipped
  BY DEF Listed, SameMachines, Reached, NoneSkipped
<1>2. \A i : Mounting(i)' <=> Mounting(i)
  BY DEF Mounting
<1>3. ~disabled'["fat"]
  BY DEF MountInv, DisksTyped
<1>4. ~booted' => ~booted /\ (Len(stack') > 0 => stack'[1].fn = "first")
  BY DEF MountInv, DisksListed
<1> QED BY <1>1, <1>2, <1>3, <1>4, MountStays

(* What is under way after a step that returns, goes on, or calls. *)
LEMMA AfterStep ==
    ASSUME StackInv, stack # <<>>, NEW fr, NEW g, Return \/ Continue(fr) \/ Call(fr, g)
    PROVE  /\ \A k \in 1 .. Len(stack) : (k \in 1 .. Len(stack') /\ stack'[k] = stack[k]) \/ stack[k] = Top
           /\ \A k \in 1 .. Len(stack') :
                 \/ k \in 1 .. Len(stack) /\ stack'[k] = stack[k]
                 \/ ~Return /\ stack'[k] = fr
                 \/ Call(fr, g) /\ stack'[k] = g
           /\ Len(stack') > 0 => stack'[1] = stack[1] \/ (stack[1] = Top /\ stack'[1] = fr)
           /\ Call(fr, g) => \E k \in 1 .. Len(stack') : stack'[k] = g
           /\ ~Return => \E k \in 1 .. Len(stack') : stack'[k] = fr
           /\ \E k \in 1 .. Len(stack) : stack[k] = Top
<1>1. /\ Len(stack) \in Nat \ {0} /\ Top = stack[Len(stack)]
      /\ Return => Len(stack') = Len(stack) - 1
      /\ Continue(fr) => Len(stack') = Len(stack) /\ stack'[Len(stack)] = fr
      /\ Call(fr, g) => /\ Len(stack') = Len(stack) + 1 /\ stack'[Len(stack)] = fr
                        /\ stack'[Len(stack) + 1] = g
      /\ \A k \in 1 .. Len(stack) - 1 : stack'[k] = stack[k]
  BY Shapes
<1>2. \A n \in Nat \ {0} : \A k \in 1 .. n : k = n \/ (k \in 1 .. n - 1 /\ k \in 1 .. n + 1)
  OBVIOUS
<1>3. \A n \in Nat \ {0} : \A k \in 1 .. n + 1 : k = n + 1 \/ k = n \/ (k \in 1 .. n - 1 /\ k \in 1 .. n)
  OBVIOUS
<1>4. \A n \in Nat \ {0} : /\ n \in 1 .. n /\ n \in 1 .. n + 1 /\ n + 1 \in 1 .. n + 1
                           /\ n = 1 \/ (1 \in 1 .. n - 1 /\ n - 1 > 0)
                           /\ ~(1 - 1 > 0)
                           /\ \A k \in 1 .. n - 1 : k \in 1 .. n
  OBVIOUS
<1>5. CASE Return
  <2>1. Len(stack') > 0 => stack'[1] = stack[1]
    BY <1>1, <1>4, <1>5
  <2>2. ~Call(fr, g)
    <3>1. \A n \in Nat \ {0} : n - 1 # n + 1
      OBVIOUS
    <3> QED BY <1>1, <1>5, <3>1
  <2> QED BY <1>1, <1>2, <1>4, <1>5, <2>1, <2>2
<1>6. CASE Continue(fr) /\ ~Return
  <2>1. ~Call(fr, g)
    <3>1. \A n \in Nat \ {0} : n # n + 1
      OBVIOUS
    <3> QED BY <1>1, <1>6, <3>1
  <2> QED BY <1>1, <1>2, <1>4, <1>6, <2>1
<1>7. CASE Call(fr, g) /\ ~Return
  <2>1. Len(stack') = Len(stack) + 1 /\ stack'[Len(stack)] = fr /\ stack'[Len(stack) + 1] = g
    BY <1>1, <1>7
  <2>2. \A k \in 1 .. Len(stack) : (k \in 1 .. Len(stack') /\ stack'[k] = stack[k]) \/ stack[k] = Top
    BY <1>1, <1>2, <2>1
  <2>3. \A k \in 1 .. Len(stack') : (k \in 1 .. Len(stack) /\ stack'[k] = stack[k]) \/ stack'[k] = fr \/ stack'[k] = g
    BY <1>1, <1>3, <2>1
  <2>4. stack'[1] = stack[1] \/ (stack[1] = Top /\ stack'[1] = fr)
    BY <1>1, <1>4, <2>1
  <2> QED BY <1>1, <1>4, <1>7, <2>1, <2>2, <2>3, <2>4
<1> QED BY <1>5, <1>6, <1>7

(* A step of what is under way that makes no device, and begins no probe of fat with one. *)
LEMMA MountQuiet ==
    ASSUME StackInv, MountInv, stack # <<>>, SameMachines, NoneSkipped,
           drivers' = drivers, disabled' = disabled, booted' = booted,
           \A i \in Known : i \in Ids => probed'["fat"][i] = probed["fat"][i],
           \A i \in Listed : i \in Listed' \/ ~(Block(i) \/ Partition(i)),
           NEW fr, NEW g,
           \/ Return /\ (Mounter(Top) /\ Known \subseteq Ids =>
                            Cardinality(Made(dev[Top.dev].unit)) = partitions[dev[Top.dev].unit])
           \/ /\ Continue(fr) \/ (Call(fr, g) /\ g.fn # "register" /\ ~Mounter(g))
              /\ ~Mounter(Top) /\ ~Mounter(fr)
              /\ fr.fn = Top.fn /\ (Top.fn = "register" => fr.dev = Top.dev)
    PROVE  MountInv'
<1>1. /\ \A k \in 1 .. Len(stack) : (k \in 1 .. Len(stack') /\ stack'[k] = stack[k]) \/ stack[k] = Top
      /\ \A k \in 1 .. Len(stack') :
            \/ k \in 1 .. Len(stack) /\ stack'[k] = stack[k]
            \/ ~Return /\ stack'[k] = fr
            \/ Call(fr, g) /\ stack'[k] = g
      /\ Len(stack') > 0 => stack'[1] = stack[1] \/ (stack[1] = Top /\ stack'[1] = fr)
      /\ \E k \in 1 .. Len(stack) : stack[k] = Top
  <2>1. Return \/ Continue(fr) \/ Call(fr, g)
    OBVIOUS
  <2> QED BY <2>1, AfterStep
<1>2. /\ Return => ~Call(fr, g) /\ (Len(stack') > 0 => stack'[1] = stack[1])
      /\ Continue(fr) => ~Call(fr, g)
      /\ ~Return => Continue(fr) \/ Call(fr, g)
  <2>1. /\ Len(stack) \in Nat \ {0} /\ (Return => Len(stack') = Len(stack) - 1)
        /\ Continue(fr) => Len(stack') = Len(stack)
        /\ Call(fr, g) => Len(stack') = Len(stack) + 1
        /\ \A k \in 1 .. Len(stack) - 1 : stack'[k] = stack[k]
    BY Shapes
  <2>2. \A n \in Nat \ {0} : n - 1 # n + 1 /\ n # n + 1 /\ (n - 1 > 0 => 1 \in 1 .. n - 1)
    OBVIOUS
  <2> QED BY <2>1, <2>2
<1>3. ~disabled'["fat"]
  BY DEF MountInv, DisksTyped
<1>4. \A k \in 1 .. Len(stack') : Mounter(stack'[k]) => k \in 1 .. Len(stack) /\ stack'[k] = stack[k]
  <2>1. CASE Return
    BY <1>1, <1>2, <2>1
  <2>2. CASE ~Return
    <3>1. ~Mounter(fr) /\ (Call(fr, g) => ~Mounter(g))
      BY <1>2, <2>2
    <3> QED BY <1>1, <3>1
  <2> QED BY <2>1, <2>2
<1>5. \A k \in 1 .. Len(stack') : stack'[k].fn = "register" =>
         \E l \in 1 .. Len(stack) : stack[l].fn = "register" /\ stack[l].dev = stack'[k].dev
  <2>1. CASE Return
    BY <1>1, <1>2, <2>1
  <2>2. CASE ~Return
    <3>1. /\ fr.fn = Top.fn /\ (Top.fn = "register" => fr.dev = Top.dev)
          /\ Call(fr, g) => g.fn # "register"
      BY <1>2, <2>2
    <3> QED BY <1>1, <3>1
  <2> QED BY <2>1, <2>2
<1>6. ASSUME NEW i \in Known, Mounting(i)
      PROVE  Mounting(i)' \/ (Known \subseteq Ids => Cardinality(Made(dev[i].unit)) = partitions[dev[i].unit])
  <2>1. PICK k \in 1 .. Len(stack) : Mounter(stack[k]) /\ stack[k].dev = i
    BY <1>6 DEF Mounting
  <2>2. CASE k \in 1 .. Len(stack') /\ stack'[k] = stack[k]
    BY <2>1, <2>2 DEF Mounting, Mounter
  <2>3. CASE stack[k] = Top
    BY <1>2, <2>1, <2>3
  <2> QED BY <1>1, <2>2, <2>3
<1>7. ~booted' => ~booted /\ (Len(stack') > 0 => stack'[1].fn = "first")
  <2>1. Len(stack) > 0
    <3>1. Len(stack) \in Nat \ {0}
      BY TopFacts
    <3> QED BY <3>1
  <2> QED BY <1>1, <1>2, <2>1 DEF MountInv, DisksListed
<1> QED BY <1>3, <1>4, <1>5, <1>6, <1>7, MountStays

(* What is made for a disk is a number of devices. *)
LEMMA MadeFinite ==
    ASSUME StackInv, NEW u
    PROVE  IsFiniteSet(Made(u)) /\ Cardinality(Made(u)) \in Nat
<1>1. Len(dev) \in Nat
  BY DeviceFacts DEF StackInv
<1>2. IsFiniteSet(Known)
  BY <1>1, FS_Interval DEF Known
<1>3. Made(u) \subseteq Known
  BY DEF Made
<1> QED BY <1>2, <1>3, FS_Subset, FS_CardinalityType

(* fat is probed with a disk, for the first time. *)
LEMMA MountBegins ==
    ASSUME StackInv, MountInv, CountsInv, CountsInv', stack # <<>>,
           UNCHANGED <<drivers, devices, dev, disabled, partitions, booted>>, NoneSkipped,
           Top.fn \in {"first", "register"}, NEW i \in Listed, Block(i), "fat" \in ToSet(drivers),
           probed' = Counted("fat", i), NEW fr, fr.fn = Top.fn,
           Top.fn = "register" => fr.dev = Top.dev, Call(fr, Probe("fat", i))
    PROVE  MountInv'
<1>1. PICK g : g = Probe("fat", i)
  OBVIOUS
<1>2. g.fn = "probe" /\ g.drv = "fat" /\ g.dev = i /\ g.at = 0 /\ ~Mounter(fr) /\ ~Mounter(Top)
      /\ Call(fr, g)
  BY <1>1 DEF Probe, Frame, Mounter
<1>3. /\ \A k \in 1 .. Len(stack) : (k \in 1 .. Len(stack') /\ stack'[k] = stack[k]) \/ stack[k] = Top
      /\ \A k \in 1 .. Len(stack') :
            \/ k \in 1 .. Len(stack) /\ stack'[k] = stack[k]
            \/ ~Return /\ stack'[k] = fr
            \/ Call(fr, g) /\ stack'[k] = g
      /\ Len(stack') > 0 => stack'[1] = stack[1] \/ (stack[1] = Top /\ stack'[1] = fr)
      /\ \E k \in 1 .. Len(stack') : stack'[k] = g
      /\ \E k \in 1 .. Len(stack) : stack[k] = Top
      /\ Len(stack) > 0
  <2>1. Len(stack) \in Nat \ {0}
    BY TopFacts
  <2> QED BY <1>2, <2>1, AfterStep
<1>4. i \in Known /\ i # NoDevice /\ Listed' = Listed /\ Known' = Known
      /\ SameMachines /\ "fat" \in Drivers
  <2>1. Listed \subseteq Known
    BY DEF StackInv, ListsTyped
  <2>2. i \in Known /\ i # NoDevice
    BY <2>1 DEF Known, NoDevice
  <2> QED BY <2>2, TreeFacts DEF Listed, Known, SameMachines, TreeDrivers
<1>5. /\ \A j \in Known : (Block(j)' <=> Block(j)) /\ (Partition(j)' <=> Partition(j))
      /\ \A u : Made(u)' = Made(u)
  BY <1>4, MachinesStay
<1>6. OfDisks'
  <2>1. ~disabled'["fat"]
    BY DEF MountInv, DisksTyped
  <2>2. \A k \in 1 .. Len(stack') : stack'[k].fn = "register" =>
           \E l \in 1 .. Len(stack) : stack[l].fn = "register" /\ stack[l].dev = stack'[k].dev
    BY <1>2, <1>3
  <2>3. ~booted' => ~booted /\ (Len(stack') > 0 => stack'[1].fn = "first")
    BY <1>3 DEF MountInv, DisksListed
  <2> QED BY <1>4, <2>1, <2>2, <2>3, DisksStay DEF MountInv, OfDisks
<1>7. ASSUME Known \subseteq Ids
      PROVE  /\ \A j \in Known : Block(j) => DiskMade(j)'
             /\ \A k \in 1 .. Len(stack') : \A f : f = stack'[k] /\ Mounter(f) => FrameMade(f)'
  <2>1. /\ \A j \in Known : Block(j) => DiskMade(j)
        /\ \A k \in 1 .. Len(stack) : Mounter(stack[k]) => FrameMade(stack[k])
    BY <1>7 DEF MountInv, MadeSoFar
  <2>2. /\ probed'["fat"][i] = probed["fat"][i] + 1
        /\ \A j \in Known : j # i => probed'["fat"][j] = probed["fat"][j]
        /\ probed["fat"][i] \in Nat
    <3>1. probed["fat"][i] \in Nat
      BY <1>4, <1>7 DEF CountsInv, CountsTyped
    <3> QED BY <1>4, <1>7, <3>1, CountedOnce
  <2>3. probed'["fat"][i] \in {0, 1}
    <3>1. /\ Known' \subseteq Ids /\ "fat" \in ToSet(drivers') /\ i \in Listed' /\ ~disabled'["fat"]
          /\ DependsOn("fat", i)'
      <4>1. DependsOn("fat", i)
        BY TreeFacts DEF DependsOn, Block
      <4>2. DependsOn("fat", i)'
        BY <4>1 DEF DependsOn
      <4>3. ~disabled'["fat"]
        BY DEF MountInv, DisksTyped
      <4> QED BY <1>4, <1>7, <4>2, <4>3
    <3>2. probed'["fat"][i] = IF Pending("fat", i)' THEN 0 ELSE 1
      BY <3>1 DEF CountsInv, Counts
    <3> QED BY <3>2
  <2>4. probed["fat"][i] = 0 /\ probed'["fat"][i] = 1
    <3>1. \A n \in Nat : n + 1 \in {0, 1} => n = 0
      OBVIOUS
    <3>2. probed["fat"][i] = 0
      BY <2>2, <2>3, <3>1
    <3> QED BY <2>2, <3>2
  <2>5. Made(dev[i].unit) = {}
    BY <1>4, <2>1, <2>4 DEF DiskMade
  <2>6. ASSUME NEW j \in Known, Block(j) PROVE DiskMade(j)'
    <3>1. CASE j = i
      <4>1. Mounting(i)'
        <5>1. PICK k \in 1 .. Len(stack') : stack'[k] = g
          BY <1>3
        <5>2. \A f : f.fn = "probe" /\ f.drv = "fat" /\ f.dev # NoDevice => Mounter(f)
          BY DEF Mounter
        <5>3. \E l \in 1 .. Len(stack') : Mounter(stack'[l]) /\ stack'[l].dev = i
          BY <1>2, <1>4, <5>1, <5>2
        <5> QED BY <5>3 DEF Mounting, Mounter
      <4> QED BY <2>4, <3>1, <4>1 DEF DiskMade
    <3>2. CASE j # i
      <4>1. DiskMade(j) /\ probed'["fat"][j] = probed["fat"][j]
        BY <2>1, <2>2, <2>6, <3>2
      <4>2. Mounting(j) => Mounting(j)'
        <5>1. \A k \in 1 .. Len(stack) : Mounter(stack[k]) => k \in 1 .. Len(stack') /\ stack'[k] = stack[k]
          BY <1>2, <1>3
        <5> QED BY <5>1 DEF Mounting, Mounter
      <4> QED BY <1>5, <4>1, <4>2 DEF DiskMade
    <3> QED BY <3>1, <3>2
  <2>7. ASSUME NEW k \in 1 .. Len(stack'), NEW f, f = stack'[k], Mounter(f) PROVE FrameMade(f)'
    <3>1. CASE f = g
      <4>1. partitions[dev[i].unit] \in Nat
        <5>1. dev[i].unit \in Disks
          BY <1>4 DEF MountInv, DisksFound
        <5>2. PICK n \in DiskCounts : partitions \in [0 .. n - 1 -> 0 .. MaxPartitions]
          BY DEF MountInv, DisksTyped
        <5>3. partitions[dev[i].unit] \in 0 .. MaxPartitions
          BY <5>1, <5>2 DEF Disks
        <5> QED BY <5>3, TreeAssumption
      <4>2. Cardinality(Made(dev[i].unit)) = 0
        BY <2>5, FS_EmptySet
      <4> QED BY <1>2, <1>5, <2>4, <3>1, <4>1, <4>2 DEF FrameMade
    <3>2. CASE f # g
      <4>1. k \in 1 .. Len(stack) /\ f = stack[k]
        BY <1>2, <1>3, <2>7, <3>2
      <4>2. f.dev \in Known /\ FrameMade(f)
        BY <2>1, <2>7, <4>1, MounterWhere
      <4>3. f.dev # i
        BY <2>4, <4>2 DEF FrameMade
      <4>4. probed'["fat"][f.dev] = probed["fat"][f.dev]
        BY <2>2, <4>2, <4>3
      <4> QED BY <1>5, <4>2, <4>4 DEF FrameMade
    <3> QED BY <3>1, <3>2
  <2> QED BY <2>6, <2>7
<1>8. MadeSoFar'
  <2>1. \A f : Mounter(f)' <=> Mounter(f)
    BY DEF Mounter
  <2>2. \A j \in Known' : Block(j)' <=> Block(j)
    BY <1>4, <1>5
  <2> QED BY <1>4, <1>7, <2>1, <2>2 DEF MadeSoFar
<1> QED BY <1>6, <1>8 DEF MountInv, OfDisks

(* device_register goes through the drivers. *)
LEMMA MountRegister ==
    ASSUME StackInv, MountInv, CountsInv, CountsInv', RegisterStep, UNCHANGED <<partitions, booted, console>>
    PROVE  MountInv'
<1>1. /\ stack # <<>> /\ Top.fn = "register" /\ ~Mounter(Top)
      /\ UNCHANGED <<drivers, devices, dev, disabled, firstProbe, partitions, booted>>
  BY DEF RegisterStep, Running, Idle, Mounter
<1>2. Top \in Activations /\ Top.dev \in Known /\ Top = stack[Len(stack)] /\ Len(stack) \in 1 .. Len(stack)
      /\ Top.at \in Nat /\ Top.at <= Len(drivers)
  <2>1. Top \in Activations /\ FrameTyped(Top) /\ Top = stack[Len(stack)] /\ Len(stack) \in Nat \ {0}
        /\ Top.at \in Nat
    BY <1>1, TopFacts
  <2> QED BY <1>1, <2>1 DEF FrameTyped
<1>3. SameMachines /\ Listed' = Listed /\ Known' = Known
  BY <1>1 DEF SameMachines, Listed, Known
<1>4. PICK d : d = drivers[Top.at + 1]
  OBVIOUS
<1>5. PICK fr : fr = [Top EXCEPT !.at = @ + 1]
  OBVIOUS
<1>6. PICK g : g = Probe(d, Top.dev)
  OBVIOUS
<1>7. fr.fn = "register" /\ fr.dev = Top.dev /\ g.fn = "probe" /\ g.drv = d /\ ~Mounter(fr) /\ (Mounter(g) => d = "fat")
  BY <1>1, <1>2, <1>5, <1>6 DEF Activations, Probe, Frame, Mounter
<1>8. \/ Return /\ probed' = probed
      \/ Continue(fr) /\ probed' = probed
      \/ /\ Top.at # Len(drivers) /\ Call(fr, g) /\ DependsOn(d, Top.dev) /\ probed' = Counted(d, Top.dev)
  BY <1>4, <1>5, <1>6 DEF RegisterStep
<1>9. NoneSkipped
  BY <1>1, <1>8, ReachedStays
<1>10. CASE probed' = probed /\ (Return \/ Continue(fr))
  BY <1>1, <1>3, <1>7, <1>9, <1>10, MountQuiet
<1>11. CASE Top.at # Len(drivers) /\ Call(fr, g) /\ DependsOn(d, Top.dev) /\ probed' = Counted(d, Top.dev)
  <2>1. d \in ToSet(drivers) /\ d \in Drivers
    <3>1. drivers \in Seq(Drivers)
      BY DEF StackInv, ListsTyped
    <3>2. Len(drivers) \in Nat /\ \A k \in 1 .. Len(drivers) : drivers[k] \in ToSet(drivers)
          /\ ToSet(drivers) \subseteq Drivers
      BY <3>1, ElementsOf
    <3>3. \A n, m \in Nat : m <= n /\ m # n => m + 1 \in 1 .. n
      OBVIOUS
    <3>4. Top.at + 1 \in 1 .. Len(drivers)
      BY <1>2, <1>11, <3>2, <3>3
    <3> QED BY <1>4, <3>2, <3>4
  <2>2. CASE d = "fat"
    <3>1. Block(Top.dev)
      BY <1>11, <2>2, TreeFacts DEF DependsOn, Block
    <3>2. Top.dev \in Listed
      BY <1>1, <1>2, <3>1 DEF MountInv, DisksListed
    <3>3. Call(fr, Probe("fat", Top.dev)) /\ probed' = Counted("fat", Top.dev)
      BY <1>6, <1>11, <2>2
    <3> QED BY <1>1, <1>7, <1>9, <2>1, <2>2, <3>1, <3>2, <3>3, MountBegins
  <2>3. CASE d # "fat"
    <3>1. \A i \in Known : i \in Ids => probed'["fat"][i] = probed["fat"][i]
      <4>1. "fat" \in Drivers
        BY TreeFacts DEF TreeDrivers
      <4> QED BY <1>2, <1>11, <2>1, <2>3, <4>1, CountedOnce
    <3> QED BY <1>1, <1>3, <1>7, <1>9, <1>11, <2>3, <3>1, MountQuiet
  <2> QED BY <2>2, <2>3
<1> QED BY <1>8, <1>10, <1>11

(* driver_probe_for. *)
LEMMA MountProbeFor ==
    ASSUME StackInv, MountInv, ProbeForStep, UNCHANGED <<partitions, booted, console>>
    PROVE  MountInv'
<1>1. /\ stack # <<>> /\ Top.fn = "probeFor" /\ ~Mounter(Top) /\ Top \in Activations
      /\ UNCHANGED <<drivers, devices, dev, disabled, firstProbe, probed, partitions, booted>>
  <2>1. stack # <<>> /\ Top.fn = "probeFor" /\ ~Mounter(Top)
        /\ UNCHANGED <<drivers, devices, dev, disabled, firstProbe, probed, partitions, booted>>
    BY DEF ProbeForStep, Running, Idle, Mounter
  <2> QED BY <2>1, TopFacts
<1>2. SameMachines /\ Listed' = Listed
  BY <1>1 DEF SameMachines, Listed
<1>3. PICK fr : fr = [Top EXCEPT !.at = @ + 1]
  OBVIOUS
<1>4. PICK g : g = Probe(drivers[Top.at + 1], NoDevice)
  OBVIOUS
<1>5. fr.fn = Top.fn /\ g.fn = "probe" /\ ~Mounter(fr) /\ ~Mounter(g)
  BY <1>1, <1>3, <1>4 DEF Activations, Probe, Frame, Mounter
<1>6. Return \/ Continue(fr) \/ Call(fr, g)
  BY <1>3, <1>4 DEF ProbeForStep
<1>7. NoneSkipped
  BY <1>1, <1>6, ReachedStays
<1> QED BY <1>1, <1>2, <1>5, <1>6, <1>7, MountQuiet

(* driver_first_probe. *)
LEMMA MountFirst ==
    ASSUME StackInv, MountInv, CountsInv, CountsInv', FirstStep, UNCHANGED <<partitions, booted, console>>
    PROVE  MountInv'
<1>1. /\ stack # <<>> /\ Top.fn = "first" /\ ~Mounter(Top)
      /\ UNCHANGED <<drivers, devices, dev, disabled, partitions, booted>>
  BY DEF FirstStep, Running, Idle, Mounter
<1>2. Top \in Activations /\ FirstTyped(Top) /\ Top = stack[1] /\ Len(stack) = 1
  <2>1. Top \in Activations /\ FrameTyped(Top) /\ Top = stack[Len(stack)] /\ Len(stack) = 1
    BY <1>1, TopFacts
  <2> QED BY <1>1, <2>1 DEF FrameTyped
<1>3. SameMachines /\ Listed' = Listed /\ Known' = Known
  BY <1>1 DEF SameMachines, Listed, Known
<1>4. PICK d : d = Top.drv
  OBVIOUS
<1>5. d \in ToSet(drivers) /\ d \in Drivers /\ firstProbe[d] /\ firstProbe \in [Drivers -> BOOLEAN]
      /\ Top.dev \in Listed \cup {NoDevice} /\ Top.at \in {0, 1} /\ Listed \subseteq Known
  <2>1. drivers \in Seq(Drivers) /\ firstProbe \in [Drivers -> BOOLEAN] /\ Listed \subseteq Known
    BY DEF StackInv, ListsTyped
  <2>2. ToSet(drivers) \subseteq Drivers
    BY <2>1, ElementsOf
  <2> QED BY <1>2, <1>4, <2>1, <2>2 DEF FirstTyped
<1>6. PICK i \in Listed \cup {NoDevice} : i = NextDevice(Top.dev)
  BY <1>5, NextFacts
<1>7. CASE Loops(d) /\ i # NoDevice
  <2>1. PICK fr : fr = [Top EXCEPT !.dev = i]
    OBVIOUS
  <2>2. PICK g : g = Probe(d, i)
    OBVIOUS
  <2>3. /\ firstProbe' = firstProbe
        /\ \/ Continue(fr) /\ probed' = probed
           \/ Call(fr, g) /\ DependsOn(d, i) /\ probed' = Counted(d, i)
    BY <1>4, <1>6, <1>7, <2>1, <2>2 DEF FirstStep, Loops
  <2>4. fr.fn = "first" /\ g.fn = "probe" /\ g.drv = d /\ ~Mounter(fr) /\ (Mounter(g) => d = "fat")
    BY <1>1, <1>2, <2>1, <2>2 DEF Activations, Probe, Frame, Mounter
  <2>5. d # "bdrive"
    BY <1>7, TreeFacts
  <2>6. NoneSkipped
    BY <1>1, <1>4, <2>3, <2>5, ReachedStays
  <2>7. i \in Listed /\ i \in Known
    BY <1>5, <1>7
  <2>8. CASE Continue(fr) /\ probed' = probed
    BY <1>1, <1>3, <2>4, <2>6, <2>8, MountQuiet
  <2>9. CASE Call(fr, g) /\ DependsOn(d, i) /\ probed' = Counted(d, i) /\ d = "fat"
    <3>1. Block(i)
      BY <2>9, TreeFacts DEF DependsOn, Block
    <3>2. Call(fr, Probe("fat", i)) /\ probed' = Counted("fat", i) /\ "fat" \in ToSet(drivers)
      BY <1>5, <2>2, <2>9
    <3> QED BY <1>1, <2>4, <2>6, <2>7, <3>1, <3>2, MountBegins
  <2>10. CASE Call(fr, g) /\ DependsOn(d, i) /\ probed' = Counted(d, i) /\ d # "fat"
    <3>1. \A j \in Known : j \in Ids => probed'["fat"][j] = probed["fat"][j]
      <4>1. "fat" \in Drivers
        BY TreeFacts DEF TreeDrivers
      <4> QED BY <1>5, <2>7, <2>10, <4>1, CountedOnce
    <3> QED BY <1>1, <1>3, <2>4, <2>6, <2>10, <3>1, MountQuiet
  <2> QED BY <2>3, <2>8, <2>9, <2>10
<1>8. CASE ~Loops(d) /\ Top.at = 0
  <2>1. PICK fr : fr = [Top EXCEPT !.at = 1]
    OBVIOUS
  <2>2. PICK g : g = Probe(d, NoDevice)
    OBVIOUS
  <2>3. Call(fr, g) /\ firstProbe' = firstProbe /\ probed' = probed
    BY <1>4, <1>8, <2>1, <2>2 DEF FirstStep, Loops
  <2>4. fr.fn = "first" /\ g.fn = "probe" /\ g.at = 0 /\ ~Mounter(fr) /\ ~Mounter(g)
    BY <1>1, <1>2, <2>1, <2>2 DEF Activations, Probe, Frame, Mounter
  <2>5. NoneSkipped
    <3>1. CASE d = "bdrive"
      <4>1. Len(stack') = 2 /\ stack'[2] = g
        <5>1. Len(stack') = Len(stack) + 1 /\ stack'[Len(stack) + 1] = g
          BY <1>1, <2>3, Shapes
        <5> QED BY <1>2, <5>1
      <4>2. Reached' = 0
        BY <1>1, <1>5, <2>3, <2>4, <3>1, <4>1 DEF Reached
      <4>3. Reached = 0
        BY <1>2, <1>5, <1>8, <3>1 DEF Reached
      <4> QED BY <4>2, <4>3 DEF NoneSkipped
    <3>2. CASE d # "bdrive"
      BY <1>1, <1>4, <2>3, <3>2, ReachedStays
    <3> QED BY <3>1, <3>2
  <2> QED BY <1>1, <1>3, <2>3, <2>4, <2>5, MountQuiet
<1>9. CASE ~(Loops(d) /\ i # NoDevice) /\ ~(~Loops(d) /\ Top.at = 0)
  <2>1. Return /\ firstProbe' = [firstProbe EXCEPT ![d] = FALSE] /\ probed' = probed
    BY <1>4, <1>6, <1>9 DEF FirstStep, Loops
  <2>2. Len(stack') = 0
    <3>1. Len(stack') = Len(stack) - 1
      BY <1>1, <2>1, Shapes
    <3> QED BY <1>2, <3>1
  <2>3. NoneSkipped
    <3>0. "bdrive" \in Drivers
      BY TreeFacts DEF TreeDrivers
    <3>1. CASE d = "bdrive"
      <4>1. Top.at = 1
        BY <1>5, <1>9, <3>1, TreeFacts
      <4>2. Reached = 4
        BY <1>2, <1>5, <3>1, <4>1 DEF Reached
      <4>3. ~firstProbe'["bdrive"]
        BY <1>5, <2>1, <3>0, <3>1
      <4>4. Reached' = 4
        BY <1>1, <1>5, <3>1, <4>3 DEF Reached
      <4> QED BY <4>2, <4>4 DEF NoneSkipped
    <3>2. CASE d # "bdrive"
      <4>1. firstProbe'["bdrive"] = firstProbe["bdrive"]
        BY <1>5, <2>1, <3>0, <3>2
      <4>2. ~firstProbe["bdrive"]
        BY <1>2, <1>4, <3>0, <3>2 DEF StackInv, FirstOnly
      <4>3. Reached' = Reached
        BY <1>1, <4>1, <4>2 DEF Reached
      <4> QED BY <4>3 DEF NoneSkipped
    <3> QED BY <3>1, <3>2
  <2> QED BY <1>1, <1>3, <2>1, <2>3, MountQuiet
<1> QED BY <1>7, <1>8, <1>9

(* device_deregister: what leaves is neither a disk that is being registered nor, before
   the boot is over, a disk or a partition. *)
LEMMA MountDeregister ==
    ASSUME StackInv, MountInv, DeregisterStep, UNCHANGED <<partitions, booted, console>>
    PROVE  MountInv'
<1>1. /\ stack # <<>> /\ Top.fn = "deregister" /\ ~Mounter(Top)
      /\ UNCHANGED <<drivers, disabled, firstProbe, probed, partitions, booted>>
  BY DEF DeregisterStep, Running, Idle, Mounter
<1>2. /\ Top \in Activations /\ Len(stack) \in Nat \ {0} /\ Top = stack[Len(stack)]
  BY <1>1, TopFacts
<1>3. CASE ~(Top.dev \in Listed /\ ~(Top.at < Len(Doomed(Top.dev))))
  <2>1. SameMachines /\ Listed' = Listed
    BY <1>1, <1>3 DEF DeregisterStep, Listed, SameMachines
  <2>2. PICK fr : fr = [Top EXCEPT !.at = @ + 1]
    OBVIOUS
  <2>3. PICK g : g = Frame("deregister", None, Doomed(Top.dev)[Top.at + 1], 0, NoDevice)
    OBVIOUS
  <2>4. fr.fn = Top.fn /\ g.fn = "deregister" /\ ~Mounter(fr) /\ ~Mounter(g)
    BY <1>1, <1>2, <2>2, <2>3 DEF Activations, Frame, Mounter
  <2>5. Return \/ Call(fr, g)
    BY <1>3, <2>2, <2>3 DEF DeregisterStep, Listed
  <2>6. NoneSkipped
    BY <1>1, <2>5, ReachedStays
  <2> QED BY <1>1, <2>1, <2>4, <2>5, <2>6, MountQuiet
<1>4. CASE Top.dev \in Listed /\ ~(Top.at < Len(Doomed(Top.dev)))
  <2>1. /\ dev' = [dev EXCEPT ![Top.dev].subdevices = <<>>]
        /\ devices' = RemoveFirst(devices, Top.dev) /\ Return
    BY <1>4 DEF DeregisterStep, Listed
  <2>2. /\ Listed' = Listed \ {Top.dev} /\ Listed \subseteq Known
    <3>1. ToSet(RemoveFirst(devices, Top.dev)) = ToSet(devices) \ {Top.dev}
      BY <1>4, Removed DEF StackInv, ListsTyped, Listed
    <3>2. Listed \subseteq Known
      BY DEF StackInv, ListsTyped
    <3> QED BY <2>1, <3>1, <3>2 DEF Listed
  <2>3. SameMachines
    <3>1. dev \in Seq(Machines)
      BY DEF StackInv, DevicesTyped
    <3>2. \A i \in Known : dev[i] \in Machines
      BY <3>1 DEF Known
    <3>3. \A i \in Known : dev'[i].unit = dev[i].unit
      <4>1. DOMAIN dev = Known
        BY <3>1 DEF Known
      <4> QED BY <2>1, <3>2, <4>1 DEF Machines
    <3> QED BY <1>1, <1>4, <2>1, <3>3, Unbound DEF SameMachines
  <2>4. NoneSkipped
    BY <1>1, <2>1, ReachedStays
  <2>5. (\A k \in 1 .. Len(stack) : stack[k].fn = "deregister") \/ ~(Block(Top.dev) \/ Partition(Top.dev))
    <3>1. CASE \A k \in 1 .. Len(stack) :
                  stack[k].fn = "deregister" => k = Len(stack) /\ k > 1 /\ Takes(stack[k - 1])
      <4>1. Len(stack) > 1 /\ Takes(stack[Len(stack) - 1])
        BY <1>1, <1>2, <3>1
      <4>2. Follows(stack[Len(stack) - 1], Top)
        BY <1>1, <4>1, TopFacts
      <4>3. Top.dev \in Known /\ dev[Top.dev].name = <<"vga", 0>>
        BY <1>1, <4>1, <4>2 DEF Follows, Takes
      <4>4. dev[Top.dev].type = "con"
        BY <4>3, DeviceFacts DEF StackInv
      <4> QED BY <4>4 DEF Block, Partition
    <3> QED BY <3>1 DEF StackInv, Removals
  <2>6. CASE ~(Block(Top.dev) \/ Partition(Top.dev))
    <3>1. \A i \in Listed : i \in Listed' \/ ~(Block(i) \/ Partition(i))
      BY <2>2, <2>6
    <3> QED BY <1>1, <2>1, <2>3, <2>4, <3>1, MountQuiet
  <2>7. CASE \A k \in 1 .. Len(stack) : stack[k].fn = "deregister"
    <3>1. booted /\ booted'
      <4>1. 1 \in 1 .. Len(stack) /\ Len(stack) > 0
        BY <1>2
      <4> QED BY <1>1, <2>7, <4>1 DEF MountInv, DisksListed
    <3>2. \A k \in 1 .. Len(stack') : stack'[k].fn = "deregister"
      <4>1. Len(stack') = Len(stack) - 1 /\ \A k \in 1 .. Len(stack) - 1 : stack'[k] = stack[k]
        BY <1>1, <2>1, Shapes
      <4>2. \A k \in 1 .. Len(stack) - 1 : k \in 1 .. Len(stack)
        BY <1>2
      <4> QED BY <2>7, <4>1, <4>2
    <3>3. \A i : ~Mounting(i)
      BY <2>7 DEF Mounting, Mounter
    <3>4. /\ \A k \in 1 .. Len(stack') : ~Mounter(stack'[k]) /\ stack'[k].fn # "register"
          /\ ~disabled'["fat"]
      BY <1>1, <3>2 DEF Mounter, MountInv, DisksTyped
    <3> QED BY <1>1, <2>3, <2>4, <3>1, <3>3, <3>4, MountStays
  <2> QED BY <2>5, <2>6, <2>7
<1> QED BY <1>3, <1>4

----------------------------------------------------------------------------
(* The probes. *)

(* What a probe that registers a device does to the disks and their partitions. *)
LEMMA NewMachine ==
    ASSUME StackInv, DisksListed, stack # <<>>, Top.fn = "probe", NEW fr, fr.fn = "probe",
           NEW table \in Seq(Machines), NEW new, device_register(fr, table, new),
           UNCHANGED <<drivers, disabled, booted>>, Len(table) = Len(dev),
           \A i \in Known : /\ table[i].name = dev[i].name /\ table[i].type = dev[i].type
                            /\ table[i].unit = dev[i].unit
    PROVE  /\ Known' = Known \cup {NewId} /\ NewId \notin Known /\ dev'[NewId] = new
           /\ \A i \in Known : /\ dev'[i].name = dev[i].name /\ dev'[i].unit = dev[i].unit
                               /\ (Block(i)' <=> Block(i)) /\ (Partition(i)' <=> Partition(i))
           /\ \A i : i = NewId => (Block(i)' <=> new.type = "block") /\ (Partition(i)' <=> new.type = "fs")
           /\ \A u : Made(u)' = IF new.type = "fs" /\ new.unit = u THEN Made(u) \cup {NewId} ELSE Made(u)
           /\ \A k \in 1 .. Len(stack) : (k \in 1 .. Len(stack') /\ stack'[k] = stack[k]) \/ stack[k] = Top
           /\ \A k \in 1 .. Len(stack') :
                 \/ k \in 1 .. Len(stack) /\ stack'[k] = stack[k]
                 \/ stack'[k] = fr
                 \/ stack'[k].fn = "register"
           /\ \E k \in 1 .. Len(stack') : stack'[k] = fr
           /\ \E k \in 1 .. Len(stack) : stack[k] = Top
           /\ DisksListed'
<1>1. PICK g : g = Frame("register", None, NewId, 0, NoDevice)
  OBVIOUS
<1>2. /\ SameWorld /\ Listed \subseteq Listed' /\ NewId \in Listed' /\ dev'[NewId] = new
      /\ Known' = Known \cup {NewId} /\ Call(fr, g) /\ g.fn = "register" /\ g.dev = NewId
      /\ NewId \notin Known
  <2>1. NewId \notin Known
    <3>1. Len(dev) \in Nat
      BY DeviceFacts DEF StackInv
    <3> QED BY <3>1 DEF NewId, Known
  <2> QED BY <1>1, <2>1, MadeFacts DEF Frame
<1>3. \A i \in Known : dev'[i].unit = dev[i].unit /\ dev'[i].name = dev[i].name /\ dev'[i].type = dev[i].type
  <2>1. dev' = Append(table, new)
    BY DEF device_register
  <2>2. PICK S : S = Machines \cup {new}
    OBVIOUS
  <2>3. table \in Seq(S) /\ new \in S
    <3>1. \A i \in 1 .. Len(table) : table[i] \in S
      BY <2>2
    <3> QED BY <2>2, <3>1
  <2>4. \A i \in 1 .. Len(table) : dev'[i] = table[i]
    BY <2>1, <2>3
  <2> QED BY <2>4 DEF Known
<1>4. /\ \A i \in Known : (Block(i)' <=> Block(i)) /\ (Partition(i)' <=> Partition(i))
      /\ \A i : i = NewId => (Block(i)' <=> new.type = "block") /\ (Partition(i)' <=> new.type = "fs")
  BY <1>2, <1>3 DEF Block, Partition
<1>5. ASSUME NEW u
      PROVE  Made(u)' = IF new.type = "fs" /\ new.unit = u THEN Made(u) \cup {NewId} ELSE Made(u)
  <2>1. \A i : i \in Made(u)' <=> i \in Known' /\ Partition(i)' /\ dev'[i].unit = u
    BY DEF Made
  <2>2. \A i : i \in Made(u) <=> i \in Known /\ Partition(i) /\ dev[i].unit = u
    BY DEF Made
  <2>3. \A i : i \in Made(u)' <=> i \in Made(u) \/ (i = NewId /\ new.type = "fs" /\ new.unit = u)
    BY <1>2, <1>3, <1>4, <2>1, <2>2
  <2> QED BY <2>3
<1>6. /\ \A k \in 1 .. Len(stack) : (k \in 1 .. Len(stack') /\ stack'[k] = stack[k]) \/ stack[k] = Top
      /\ \A k \in 1 .. Len(stack') :
            \/ k \in 1 .. Len(stack) /\ stack'[k] = stack[k]
            \/ stack'[k] = fr
            \/ stack'[k] = g
      /\ Len(stack') > 0 => stack'[1] = stack[1] \/ (stack[1] = Top /\ stack'[1] = fr)
      /\ \E k \in 1 .. Len(stack') : stack'[k] = fr
      /\ \E k \in 1 .. Len(stack) : stack[k] = Top
  <2>1. ~Return
    <3>1. /\ Len(stack) \in Nat \ {0} /\ (Return => Len(stack') = Len(stack) - 1)
          /\ Len(stack') = Len(stack) + 1
      BY <1>2, Shapes
    <3>2. \A n \in Nat \ {0} : n - 1 # n + 1
      OBVIOUS
    <3> QED BY <3>1, <3>2
  <2>2. Return \/ Continue(fr) \/ Call(fr, g)
    BY <1>2
  <2> QED BY <1>2, <2>1, <2>2, AfterStep
<1>7. DisksListed'
  <2>1. ASSUME NEW k \in 1 .. Len(stack'), stack'[k].fn = "register", NEW i, i = stack'[k].dev, Block(i)'
        PROVE  i \in Listed'
    <3>1. CASE k \in 1 .. Len(stack) /\ stack'[k] = stack[k]
      <4>1. i \in Known
        BY <2>1, <3>1 DEF StackInv, StackTyped, FrameTyped
      <4>2. i \in Listed
        BY <1>4, <2>1, <3>1, <4>1 DEF DisksListed
      <4> QED BY <1>2, <4>2
    <3>2. CASE stack'[k] = fr
      BY <2>1, <3>2
    <3>3. CASE stack'[k] = g
      BY <1>2, <2>1, <3>3
    <3> QED BY <1>6, <3>1, <3>2, <3>3
  <2>2. ASSUME ~booted PROVE Len(stack') > 0 => stack'[1].fn = "first"
    <3>1. Len(stack) > 0
      <4>1. Len(stack) \in Nat \ {0}
        BY TopFacts
      <4> QED BY <4>1
    <3> QED BY <1>6, <2>2, <3>1 DEF DisksListed
  <2>3. ASSUME ~booted, NEW i \in Known', Block(i)' \/ Partition(i)' PROVE i \in Listed'
    BY <1>2, <1>4, <2>3 DEF DisksListed
  <2> QED BY <2>1, <2>2, <2>3 DEF DisksListed
<1> QED BY <1>2, <1>3, <1>4, <1>5, <1>6, <1>7

(* A probe registers a device that is neither a disk nor a partition. *)
LEMMA MountOther ==
    ASSUME StackInv, MountInv, stack # <<>>, Top.fn = "probe", Top.drv \notin {"bdrive", "fat"},
           NEW fr, fr.fn = "probe", fr.drv = Top.drv,
           NEW table \in Seq(Machines), NEW new, device_register(fr, table, new),
           UNCHANGED <<drivers, disabled, firstProbe, probed, partitions, booted>>, Len(table) = Len(dev),
           \A i \in Known : /\ table[i].name = dev[i].name /\ table[i].type = dev[i].type
                            /\ table[i].unit = dev[i].unit,
           new.type \notin {"block", "fs"}
    PROVE  MountInv'
<1>1. /\ Known' = Known \cup {NewId} /\ NewId \notin Known
      /\ \A i \in Known : /\ dev'[i].name = dev[i].name /\ dev'[i].unit = dev[i].unit
                          /\ (Block(i)' <=> Block(i)) /\ (Partition(i)' <=> Partition(i))
      /\ \A i : i = NewId => ~Block(i)' /\ ~Partition(i)'
      /\ \A u : Made(u)' = Made(u)
      /\ \A k \in 1 .. Len(stack) : (k \in 1 .. Len(stack') /\ stack'[k] = stack[k]) \/ stack[k] = Top
      /\ \A k \in 1 .. Len(stack') :
            \/ k \in 1 .. Len(stack) /\ stack'[k] = stack[k]
            \/ stack'[k] = fr
            \/ stack'[k].fn = "register"
      /\ DisksListed'
  <2>1. DisksListed
    BY DEF MountInv
  <2> QED BY <2>1, NewMachine
<1>2. NoneSkipped /\ Disks' = Disks
  <2>1. Call(fr, Frame("register", None, NewId, 0, NoDevice))
    BY DEF device_register
  <2> QED BY <2>1, ReachedStays DEF Disks
<1>3. DisksTyped'
  BY DEF MountInv, DisksTyped
<1>4. DisksFound'
  <2>1. \A i \in Known' : Block(i)' =>
          /\ dev'[i].unit \in Disks /\ dev'[i].unit < Reached'
          /\ \A j \in Known' : Block(j)' /\ dev'[j].unit = dev'[i].unit => i = j
    BY <1>1, <1>2 DEF MountInv, DisksFound, NoneSkipped
  <2>2. Registers(Cardinality(Disks)) =>
          \A u \in Disks : u < Reached' => \E i \in Known' : Block(i)' /\ dev'[i].unit = u
    BY <1>1, <1>2 DEF MountInv, DisksFound, NoneSkipped
  <2> QED BY <1>2, <2>1, <2>2 DEF DisksFound, Registers
<1>5. PartitionsOfDisks'
  <2>1. \A i \in Known : HasDisk(i) => HasDisk(i)'
    BY <1>1 DEF HasDisk
  <2> QED BY <1>1, <2>1 DEF MountInv, PartitionsOfDisks
<1>6. MadeSoFar'
  <2>1. SUFFICES ASSUME Known \subseteq Ids
                 PROVE  /\ \A i \in Known : Block(i) => DiskMade(i)'
                        /\ \A k \in 1 .. Len(stack') : \A f : f = stack'[k] /\ Mounter(f) => FrameMade(f)'
    <3>1. \A i \in Known' : Block(i)' => i \in Known /\ Block(i)
      BY <1>1
    <3>2. \A f : Mounter(f)' <=> Mounter(f)
      BY DEF Mounter
    <3> QED BY <1>1, <3>1, <3>2 DEF MadeSoFar
  <2>2. \A k \in 1 .. Len(stack') : Mounter(stack'[k]) => k \in 1 .. Len(stack) /\ stack'[k] = stack[k]
    BY <1>1 DEF Mounter
  <2>3. \A k \in 1 .. Len(stack) : Mounter(stack[k]) => k \in 1 .. Len(stack') /\ stack'[k] = stack[k]
    BY <1>1 DEF Mounter
  <2>4. ASSUME NEW i \in Known, Block(i) PROVE DiskMade(i)'
    <3>1. DiskMade(i)
      BY <2>1, <2>4 DEF MountInv, MadeSoFar
    <3>2. Mounting(i) => Mounting(i)'
      BY <2>3 DEF Mounting, Mounter
    <3> QED BY <1>1, <3>1, <3>2 DEF DiskMade
  <2>5. ASSUME NEW k \in 1 .. Len(stack'), NEW f, f = stack'[k], Mounter(f) PROVE FrameMade(f)'
    <3>1. k \in 1 .. Len(stack) /\ f = stack[k]
      BY <2>2, <2>5
    <3>2. f.dev \in Known /\ FrameMade(f)
      BY <2>1, <2>5, <3>1, MounterWhere DEF MountInv, MadeSoFar
    <3> QED BY <1>1, <3>2 DEF FrameMade
  <2> QED BY <2>4, <2>5
<1> QED BY <1>1, <1>3, <1>4, <1>5, <1>6 DEF MountInv

(* bdrive goes on to the next drive. *)
LEMMA ReachedGoes ==
    ASSUME StackInv, stack # <<>>, Top.fn = "probe", Top.drv = "bdrive", firstProbe["bdrive"],
           drivers' = drivers, firstProbe' = firstProbe, NEW fr, fr.at = Top.at + 1, NEW g,
           Continue(fr) \/ Call(fr, g)
    PROVE  Reached = Top.at /\ Reached' = Top.at + 1 /\ Top.at \in Nat
<1>1. Len(stack) = 2 /\ Top = stack[Len(stack)] /\ FrameTyped(Top) /\ Top.at \in Nat
  BY ProbeDepth, TopFacts
<1>2. stack'[Len(stack)] = fr /\ (Len(stack') = Len(stack) \/ Len(stack') = Len(stack) + 1)
  BY Shapes
<1>3. "bdrive" \in ToSet(drivers)
  BY <1>1 DEF FrameTyped, ProbeTyped
<1>4. Len(stack') # 1 /\ Len(stack) # 1 /\ stack'[2] = fr /\ stack[2] = Top
  BY <1>1, <1>2
<1> QED BY <1>1, <1>3, <1>4 DEF Reached

(* bdrive registers a disk. *)
LEMMA MountDisk ==
    ASSUME StackInv, MountInv, CountsInv, stack # <<>>, Top.fn = "probe", Top.drv = "bdrive",
           firstProbe["bdrive"], Top.at \in Disks,
           NEW fr, fr.fn = "probe", fr.drv = "bdrive", fr.at = Top.at + 1,
           NEW table \in Seq(Machines), NEW new, device_register(fr, table, new),
           UNCHANGED <<drivers, disabled, firstProbe, probed, partitions, booted>>, Len(table) = Len(dev),
           \A i \in Known : /\ table[i].name = dev[i].name /\ table[i].type = dev[i].type
                            /\ table[i].unit = dev[i].unit,
           new.type = "block", new.unit = Top.at
    PROVE  MountInv'
<1>1. /\ Known' = Known \cup {NewId} /\ NewId \notin Known /\ dev'[NewId].unit = Top.at
      /\ \A i \in Known : /\ dev'[i].name = dev[i].name /\ dev'[i].unit = dev[i].unit
                          /\ (Block(i)' <=> Block(i)) /\ (Partition(i)' <=> Partition(i))
      /\ \A i : i = NewId => Block(i)' /\ ~Partition(i)'
      /\ \A u : Made(u)' = Made(u)
      /\ \A k \in 1 .. Len(stack) : (k \in 1 .. Len(stack') /\ stack'[k] = stack[k]) \/ stack[k] = Top
      /\ \A k \in 1 .. Len(stack') :
            \/ k \in 1 .. Len(stack) /\ stack'[k] = stack[k]
            \/ stack'[k] = fr
            \/ stack'[k].fn = "register"
      /\ DisksListed'
  <2>1. DisksListed
    BY DEF MountInv
  <2> QED BY <2>1, NewMachine
<1>2. Reached = Top.at /\ Reached' = Top.at + 1 /\ Disks' = Disks /\ Top.at \in Nat
  <2>1. Call(fr, Frame("register", None, NewId, 0, NoDevice))
    BY DEF device_register
  <2> QED BY <2>1, ReachedGoes DEF Disks
<1>3. DisksTyped' /\ \A u \in Disks : u \in Nat
  <2>1. DisksTyped'
    BY DEF MountInv, DisksTyped
  <2>2. PICK n \in DiskCounts : partitions \in [0 .. n - 1 -> 0 .. MaxPartitions]
    BY DEF MountInv, DisksTyped
  <2>3. Disks = 0 .. n - 1
    BY <2>2 DEF Disks
  <2> QED BY <2>1, <2>3
<1>4. \A i \in Known : Block(i) => dev[i].unit \in Disks /\ dev[i].unit < Top.at
  BY <1>2 DEF MountInv, DisksFound
<1>5. \A u \in Disks : (u < Top.at => u < Top.at + 1 /\ u # Top.at) /\ (u < Top.at + 1 => u < Top.at \/ u = Top.at)
      /\ Top.at < Top.at + 1
  BY <1>2, <1>3
<1>6. DisksFound'
  <2>1. \A i \in Known' : Block(i)' => dev'[i].unit \in Disks /\ dev'[i].unit < Reached'
    BY <1>1, <1>2, <1>4, <1>5
  <2>2. \A i \in Known', j \in Known' : Block(i)' /\ Block(j)' /\ dev'[j].unit = dev'[i].unit => i = j
    BY <1>1, <1>4, <1>5 DEF MountInv, DisksFound
  <2>3. Registers(Cardinality(Disks)) =>
          \A u \in Disks : u < Reached' => \E i \in Known' : Block(i)' /\ dev'[i].unit = u
    BY <1>1, <1>2, <1>5 DEF MountInv, DisksFound
  <2> QED BY <1>2, <2>1, <2>2, <2>3 DEF DisksFound, Registers
<1>7. PartitionsOfDisks'
  <2>1. \A i \in Known : HasDisk(i) => HasDisk(i)'
    BY <1>1 DEF HasDisk
  <2> QED BY <1>1, <2>1 DEF MountInv, PartitionsOfDisks
<1>8. MadeSoFar'
  <2>1. SUFFICES ASSUME Known' \subseteq Ids
                 PROVE  /\ \A i \in Known' : Block(i)' => DiskMade(i)'
                        /\ \A k \in 1 .. Len(stack') : \A f : f = stack'[k] /\ Mounter(f) => FrameMade(f)'
    <3>2. \A f : Mounter(f)' <=> Mounter(f)
      BY DEF Mounter
    <3> QED BY <3>2 DEF MadeSoFar
  <2>2. Known \subseteq Ids /\ NewId \in Ids
    BY <1>1, <2>1
  <2>3. \A k \in 1 .. Len(stack') : Mounter(stack'[k]) => k \in 1 .. Len(stack) /\ stack'[k] = stack[k]
    BY <1>1 DEF Mounter
  <2>4. \A k \in 1 .. Len(stack) : Mounter(stack[k]) => k \in 1 .. Len(stack') /\ stack'[k] = stack[k]
    BY <1>1 DEF Mounter
  <2>5. ASSUME NEW i \in Known, Block(i) PROVE DiskMade(i)'
    <3>1. DiskMade(i)
      BY <2>2, <2>5 DEF MountInv, MadeSoFar
    <3>2. Mounting(i) => Mounting(i)'
      BY <2>4 DEF Mounting, Mounter
    <3> QED BY <1>1, <3>1, <3>2 DEF DiskMade
  <2>6. ASSUME NEW i, i = NewId PROVE DiskMade(i)'
    <3>1. probed'["fat"][i] = 0
      BY <1>1, <2>2, <2>6, TreeFacts DEF CountsInv, CountsTyped, TreeDrivers
    <3>2. \A j \in Known : Partition(j) => dev[j].unit # Top.at
      BY <1>4, <1>5 DEF MountInv, PartitionsOfDisks, HasDisk
    <3>3. Made(Top.at) = {}
      BY <3>2 DEF Made
    <3> QED BY <1>1, <2>6, <3>1, <3>3 DEF DiskMade
  <2>7. ASSUME NEW k \in 1 .. Len(stack'), NEW f, f = stack'[k], Mounter(f) PROVE FrameMade(f)'
    <3>1. k \in 1 .. Len(stack) /\ f = stack[k]
      BY <2>3, <2>7
    <3>2. f.dev \in Known /\ FrameMade(f)
      BY <2>2, <2>7, <3>1, MounterWhere DEF MountInv, MadeSoFar
    <3> QED BY <1>1, <3>2 DEF FrameMade
  <2> QED BY <1>1, <2>5, <2>6, <2>7
<1> QED BY <1>1, <1>3, <1>6, <1>7, <1>8 DEF MountInv

(* fat registers a partition of the disk it was probed with. *)
LEMMA MountPartition ==
    ASSUME StackInv, MountInv, stack # <<>>, Mounter(Top),
           Top.at # partitions[dev[Top.dev].unit],
           NEW fr, fr.fn = "probe", fr.drv = "fat", fr.dev = Top.dev, fr.at = Top.at + 1,
           NEW table \in Seq(Machines), NEW new, device_register(fr, table, new),
           UNCHANGED <<drivers, disabled, firstProbe, probed, partitions, booted>>, Len(table) = Len(dev),
           \A i \in Known : /\ table[i].name = dev[i].name /\ table[i].type = dev[i].type
                            /\ table[i].unit = dev[i].unit,
           new.type = "fs", new.unit = dev[Top.dev].unit, new.name[2] = dev[Top.dev].name[2]
    PROVE  MountInv'
<1>1. PICK t \in 1 .. Len(stack) : t = Len(stack) /\ stack[t] = Top
  <2>1. Len(stack) \in Nat \ {0} /\ Top = stack[Len(stack)]
    BY TopFacts
  <2> QED BY <2>1
<1>2. PICK d : d = Top.dev
  OBVIOUS
<1>3. PICK u : u = dev[d].unit
  OBVIOUS
<1>4. d \in Known /\ Block(d) /\ Top.at \in Nat /\ Top.drv = "fat" /\ Top.fn = "probe" /\ d # NoDevice
      /\ "fat" \in ToSet(drivers) /\ Mounter(fr)
  <2>1. FrameTyped(Top)
    BY TopFacts
  <2>2. "fat" \in ToSet(drivers)
    BY <2>1 DEF FrameTyped, ProbeTyped, Mounter
  <2> QED BY <1>1, <1>2, <2>2, MounterWhere DEF Mounter
<1>5. /\ Known' = Known \cup {NewId} /\ NewId \notin Known /\ dev'[NewId] = new
      /\ \A i \in Known : /\ dev'[i].name = dev[i].name /\ dev'[i].unit = dev[i].unit
                          /\ (Block(i)' <=> Block(i)) /\ (Partition(i)' <=> Partition(i))
      /\ \A i : i = NewId => ~Block(i)'
      /\ \A v : Made(v)' = IF v = u THEN Made(v) \cup {NewId} ELSE Made(v)
      /\ \A k \in 1 .. Len(stack) : (k \in 1 .. Len(stack') /\ stack'[k] = stack[k]) \/ stack[k] = Top
      /\ \A k \in 1 .. Len(stack') :
            \/ k \in 1 .. Len(stack) /\ stack'[k] = stack[k]
            \/ stack'[k] = fr
            \/ stack'[k].fn = "register"
      /\ \E k \in 1 .. Len(stack') : stack'[k] = fr
      /\ DisksListed'
  <2>1. DisksListed
    BY DEF MountInv
  <2>2. \A v : Made(v)' = IF new.type = "fs" /\ new.unit = v THEN Made(v) \cup {NewId} ELSE Made(v)
    BY <1>4, <2>1, NewMachine
  <2>3. \A v : Made(v)' = IF v = u THEN Made(v) \cup {NewId} ELSE Made(v)
    BY <1>2, <1>3, <2>2
  <2>4. new.type # "block"
    OBVIOUS
  <2> QED BY <1>4, <2>1, <2>3, <2>4, NewMachine
<1>6. NoneSkipped /\ Disks' = Disks
  <2>1. Call(fr, Frame("register", None, NewId, 0, NoDevice))
    BY DEF device_register
  <2> QED BY <1>4, <2>1, ReachedStays DEF Disks
<1>7. DisksTyped'
  BY DEF MountInv, DisksTyped
<1>8. DisksFound'
  <2>1. \A i \in Known' : Block(i)' =>
          /\ dev'[i].unit \in Disks /\ dev'[i].unit < Reached'
          /\ \A j \in Known' : Block(j)' /\ dev'[j].unit = dev'[i].unit => i = j
    BY <1>5, <1>6 DEF MountInv, DisksFound, NoneSkipped
  <2>2. Registers(Cardinality(Disks)) =>
          \A v \in Disks : v < Reached' => \E i \in Known' : Block(i)' /\ dev'[i].unit = v
    BY <1>5, <1>6 DEF MountInv, DisksFound, NoneSkipped
  <2> QED BY <1>6, <2>1, <2>2 DEF DisksFound, Registers
<1>9. PartitionsOfDisks'
  <2>0. /\ Known \subseteq Known'
        /\ \A i \in Known : /\ dev'[i].name = dev[i].name /\ dev'[i].unit = dev[i].unit
                            /\ Block(i) => Block(i)'
    BY <1>5
  <2>1. \A i \in Known : HasDisk(i) => HasDisk(i)'
    <3> SUFFICES ASSUME NEW i \in Known, HasDisk(i) PROVE HasDisk(i)'
      OBVIOUS
    <3>1. PICK j \in Known : Block(j) /\ dev[j].unit = dev[i].unit /\ dev[j].name[2] = dev[i].name[2]
      BY DEF HasDisk
    <3>2. /\ j \in Known' /\ Block(j)'
          /\ dev'[j].unit = dev'[i].unit /\ dev'[j].name[2] = dev'[i].name[2]
      BY <2>0, <3>1
    <3> QED BY <3>2 DEF HasDisk
  <2>2. \A i : i = NewId => HasDisk(i)'
    <3>1. dev'[NewId].unit = dev[d].unit /\ dev'[NewId].name[2] = dev[d].name[2]
      BY <1>2, <1>5
    <3>2. d \in Known' /\ Block(d)' /\ dev'[d].unit = dev[d].unit /\ dev'[d].name = dev[d].name
      BY <1>4, <2>0
    <3>3. \E j \in Known' : /\ Block(j)' /\ dev'[j].unit = dev'[NewId].unit
                            /\ dev'[j].name[2] = dev'[NewId].name[2]
      BY <3>1, <3>2
    <3> QED BY <3>3 DEF HasDisk
  <2> QED BY <1>4, <1>5, <2>1, <2>2 DEF MountInv, PartitionsOfDisks
<1>10. MadeSoFar'
  <2>1. SUFFICES ASSUME Known \subseteq Ids
                 PROVE  /\ \A i \in Known : Block(i) => DiskMade(i)'
                        /\ \A k \in 1 .. Len(stack') : \A f : f = stack'[k] /\ Mounter(f) => FrameMade(f)'
    <3>1. \A i \in Known' : Block(i)' => i \in Known /\ Block(i)
      BY <1>5
    <3>2. \A f : Mounter(f)' <=> Mounter(f)
      BY DEF Mounter
    <3> QED BY <1>5, <3>1, <3>2 DEF MadeSoFar
  <2>2. /\ probed["fat"][d] # 0 /\ Top.at <= partitions[u] /\ Cardinality(Made(u)) = Top.at
        /\ partitions[u] \in Nat
    <3>1. FrameMade(stack[t])
      BY <1>1, <2>1 DEF MountInv, MadeSoFar
    <3>2. partitions[u] \in Nat
      <4>1. u \in Disks
        BY <1>3, <1>4 DEF MountInv, DisksFound
      <4>2. PICK n \in DiskCounts : partitions \in [0 .. n - 1 -> 0 .. MaxPartitions]
        BY DEF MountInv, DisksTyped
      <4>3. partitions[u] \in 0 .. MaxPartitions
        BY <4>1, <4>2 DEF Disks
      <4> QED BY <4>3, TreeAssumption
    <3> QED BY <1>1, <1>2, <1>3, <3>1, <3>2 DEF FrameMade
  <2>3. Top.at + 1 <= partitions[u] /\ Cardinality(Made(u) \cup {NewId}) = Top.at + 1
    <3>1. NewId \notin Made(u)
      BY <1>5 DEF Made
    <3>2. Cardinality(Made(u) \cup {NewId}) = Cardinality(Made(u)) + 1
      BY <3>1, MadeFinite, FS_AddElement
    <3>3. \A n, m \in Nat : n <= m /\ n # m => n + 1 <= m
      OBVIOUS
    <3>4. Top.at # partitions[u]
      BY <1>2, <1>3
    <3> QED BY <1>4, <2>2, <3>2, <3>3, <3>4
  <2>4. \A k \in 1 .. Len(stack) : Mounter(stack[k]) => k = t
    BY <1>1, OneMounter
  <2>5. \A k \in 1 .. Len(stack') : Mounter(stack'[k]) => stack'[k] = fr \/ stack'[k] = Top
    BY <1>1, <1>5, <2>4 DEF Mounter
  <2>6. \A k \in 1 .. Len(stack') : Mounter(stack'[k]) => stack'[k] = fr
    <3>1. Len(stack') = Len(stack) + 1 /\ stack'[Len(stack)] = fr
          /\ stack'[Len(stack) + 1] = Frame("register", None, NewId, 0, NoDevice)
      BY Shapes DEF device_register
    <3>2. ASSUME NEW k \in 1 .. Len(stack'), Mounter(stack'[k]), stack'[k] # fr PROVE FALSE
      <4>1. stack'[k].fn # "register"
        BY <3>2 DEF Mounter
      <4>2. k \in 1 .. Len(stack) /\ stack'[k] = stack[k]
        BY <1>5, <3>2, <4>1
      <4>3. k = t
        BY <2>4, <3>2, <4>2
      <4> QED BY <1>1, <3>1, <3>2, <4>3
    <3> QED BY <3>2
  <2>7. ASSUME NEW i \in Known, Block(i) PROVE DiskMade(i)'
    <3>0. DiskMade(i)
      BY <2>1, <2>7 DEF MountInv, MadeSoFar
    <3>1. CASE i = d
      <4>1. Mounting(i)'
        BY <1>2, <1>4, <1>5, <3>1 DEF Mounting, Mounter
      <4> QED BY <2>2, <3>1, <4>1 DEF DiskMade
    <3>2. CASE i # d
      <4>1. dev[i].unit # u
        BY <1>3, <1>4, <2>7, <3>2 DEF MountInv, DisksFound
      <4>2. ~Mounting(i)
        BY <1>1, <1>2, <2>4, <3>2 DEF Mounting
      <4> QED BY <1>5, <3>0, <4>1, <4>2 DEF DiskMade
    <3> QED BY <3>1, <3>2
  <2>8. ASSUME NEW k \in 1 .. Len(stack'), NEW f, f = stack'[k], Mounter(f) PROVE FrameMade(f)'
    <3>1. f.dev = d /\ f.at = Top.at + 1
      BY <1>2, <2>6, <2>8
    <3>2. dev'[d].unit = u /\ Made(u)' = Made(u) \cup {NewId}
      BY <1>3, <1>4, <1>5
    <3> QED BY <2>2, <2>3, <3>1, <3>2 DEF FrameMade
  <2> QED BY <2>7, <2>8
<1> QED BY <1>5, <1>7, <1>8, <1>9, <1>10 DEF MountInv

(* The probes but that of fbcon. *)
LEMMA MountProbe ==
    ASSUME StackInv, NamesInv, MountInv, CountsInv,
           SerialProbe \/ VgaProbe \/ VesaProbe \/ BdriveProbe \/ FatProbe \/ ModuleProbe
    PROVE  MountInv'
<1>1. ASSUME NEW d, Probing(d), Done, d = "bdrive" /\ firstProbe["bdrive"] => Top.at = 4,
             d = "fat" /\ Top.dev # NoDevice => Top.at = partitions[dev[Top.dev].unit]
      PROVE  MountInv'
  <2>1. stack # <<>> /\ Top.fn = "probe" /\ Top.drv = d /\ Top \in Activations
    BY <1>1, ProbingFacts
  <2>2. UNCHANGED <<drivers, devices, dev, disabled, firstProbe, probed, partitions, booted>> /\ Return
    BY <1>1 DEF Done
  <2>3. SameMachines /\ Listed' = Listed
    BY <2>2 DEF SameMachines, Listed
  <2>4. NoneSkipped
    BY <1>1, <2>1, <2>2, ReachedStays
  <2>5. Mounter(Top) /\ Known \subseteq Ids =>
           Cardinality(Made(dev[Top.dev].unit)) = partitions[dev[Top.dev].unit]
    <3>1. SUFFICES ASSUME Mounter(Top), Known \subseteq Ids
                   PROVE  Cardinality(Made(dev[Top.dev].unit)) = partitions[dev[Top.dev].unit]
      OBVIOUS
    <3>2. FrameMade(Top)
      <4>1. PICK t \in 1 .. Len(stack) : stack[t] = Top
        <5>1. Len(stack) \in Nat \ {0} /\ Top = stack[Len(stack)]
          BY <2>1, TopFacts
        <5> QED BY <5>1
      <4>2. FrameMade(stack[t])
        BY <3>1, <4>1 DEF MountInv, MadeSoFar
      <4> QED BY <4>1, <4>2
    <3> QED BY <1>1, <2>1, <3>1, <3>2 DEF FrameMade, Mounter
  <2> QED BY <2>1, <2>2, <2>3, <2>4, <2>5, MountQuiet
<1>2. ASSUME Panic PROVE MountInv'
  BY <1>2, MountSame DEF Panic
<1>3. ASSUME NEW d \in {"serial", "vga", "vesa"}, Probing(d), NEW name, NEW type, NEW unit, NEW subs,
             Make(Device(name, type, unit, subs)), type \notin {"block", "fs"}
      PROVE  MountInv'
  <2>1. stack # <<>> /\ Top.fn = "probe" /\ Top.drv = d /\ Top \in Activations
    BY <1>3, ProbingFacts
  <2>2. PICK new : new = Device(name, type, unit, subs)
    OBVIOUS
  <2>3. PICK fr : fr = [Top EXCEPT !.at = @ + 1]
    OBVIOUS
  <2>4. new.type = type /\ fr.fn = "probe" /\ fr.drv = d
    BY <2>1, <2>2, <2>3 DEF Device, Activations
  <2>5. PICK table \in Seq(Machines) : table = dev
    BY DEF StackInv, DevicesTyped
  <2>6. /\ device_register(fr, table, new)
        /\ UNCHANGED <<drivers, disabled, firstProbe, probed, partitions, booted>>
        /\ Len(table) = Len(dev)
        /\ \A i \in Known : /\ table[i].name = dev[i].name /\ table[i].type = dev[i].type
                            /\ table[i].unit = dev[i].unit
    BY <1>3, <2>2, <2>3, <2>5 DEF Make, device_register
  <2> QED BY <1>3, <2>1, <2>4, <2>6, MountOther
<1>4. CASE SerialProbe
  <2>1. Probing("serial") /\ (Done \/ Make(Device(<<"sp", Top.at>>, "char", 0, <<>>)))
    BY <1>4 DEF SerialProbe
  <2> QED BY <1>1, <1>3, <2>1
<1>5. CASE VgaProbe
  <2>1. Probing("vga") /\ (Done \/ Make(Device(<<"vga", 0>>, "con", 0, <<>>)))
    BY <1>5 DEF VgaProbe
  <2> QED BY <1>1, <1>3, <2>1
<1>6. CASE VesaProbe
  <2>1. Probing("vesa") /\ \/ Done \/ Panic
                           \/ \E name, left : Make(Device(name, "framebuffer", 0, left))
    BY <1>6 DEF VesaProbe, MakeNumbered
  <2> QED BY <1>1, <1>2, <1>3, <2>1
<1>7. CASE ModuleProbe
  <2>1. Probing(ModuleDriver) /\ Done /\ ModuleDriver \notin {"fat", "bdrive"}
    BY <1>7 DEF ModuleProbe, ModuleDriver
  <2> QED BY <1>1, <2>1
<1>8. CASE BdriveProbe
  <2>1. /\ Probing("bdrive") /\ stack # <<>> /\ Top.fn = "probe" /\ Top.drv = "bdrive"
        /\ Top \in Activations /\ Top.at \in Nat
    BY <1>8, ProbingFacts DEF BdriveProbe
  <2>2. PICK fr : fr = [Top EXCEPT !.at = @ + 1]
    OBVIOUS
  <2>3. fr.fn = "probe" /\ fr.drv = "bdrive" /\ fr.at = Top.at + 1
    BY <2>1, <2>2 DEF Activations
  <2>4. CASE ~firstProbe["bdrive"] \/ Top.at = 4
    BY <1>1, <1>8, <2>1, <2>4 DEF BdriveProbe
  <2>5. CASE firstProbe["bdrive"] /\ Top.at # 4 /\ Top.at \in Disks /\ Registers(Cardinality(Disks))
    <3>1. Panic \/ \E name : Make(Device(name, "block", Top.at, <<>>))
      BY <1>8, <2>5 DEF BdriveProbe, MakeNumbered
    <3>2. ASSUME NEW name, Make(Device(name, "block", Top.at, <<>>)) PROVE MountInv'
      <4>1. PICK new : new = Device(name, "block", Top.at, <<>>)
        OBVIOUS
      <4>2. new.type = "block" /\ new.unit = Top.at
        BY <4>1 DEF Device
      <4>3. PICK table \in Seq(Machines) : table = dev
        BY DEF StackInv, DevicesTyped
      <4>4. /\ device_register(fr, table, new)
            /\ UNCHANGED <<drivers, disabled, firstProbe, probed, partitions, booted>>
            /\ Len(table) = Len(dev)
            /\ \A i \in Known : /\ table[i].name = dev[i].name /\ table[i].type = dev[i].type
                                /\ table[i].unit = dev[i].unit
        BY <2>2, <3>2, <4>1, <4>3 DEF Make, device_register
      <4> QED BY <2>1, <2>3, <2>5, <4>2, <4>4, MountDisk
    <3> QED BY <1>2, <3>1, <3>2
  <2>6. CASE firstProbe["bdrive"] /\ Top.at # 4 /\ ~(Top.at \in Disks /\ Registers(Cardinality(Disks)))
    <3>1. Continue(fr) /\ UNCHANGED <<drivers, devices, dev, disabled, firstProbe, probed, partitions, booted>>
      BY <1>8, <2>2, <2>6 DEF BdriveProbe, Skip
    <3>2. Reached = Top.at /\ Reached' = Top.at + 1
      BY <2>1, <2>3, <2>6, <3>1, ReachedGoes
    <3>3. \A u \in Disks : u \in Nat
      <4>1. PICK n \in DiskCounts : partitions \in [0 .. n - 1 -> 0 .. MaxPartitions]
        BY DEF MountInv, DisksTyped
      <4>2. Disks = 0 .. n - 1
        BY <4>1 DEF Disks
      <4> QED BY <4>2
    <3>4. NoneSkipped
      <4>1. \A u \in Disks : (u < Top.at => u < Top.at + 1) /\ (u < Top.at + 1 => u < Top.at \/ u = Top.at)
        BY <2>1, <3>3
      <4> QED BY <2>6, <3>2, <4>1 DEF NoneSkipped
    <3>5. SameMachines /\ Listed' = Listed /\ ~Mounter(Top) /\ ~Mounter(fr)
      BY <2>1, <2>3, <3>1 DEF SameMachines, Listed, Mounter
    <3> QED BY <2>1, <2>3, <3>1, <3>4, <3>5, MountQuiet
  <2> QED BY <2>4, <2>5, <2>6
<1>9. CASE FatProbe
  <2>1. /\ Probing("fat") /\ stack # <<>> /\ Top.fn = "probe" /\ Top.drv = "fat"
        /\ Top \in Activations /\ Top.at \in Nat /\ Top.dev \in Known \cup {NoDevice}
        /\ Top.dev # NoDevice => dev[Top.dev].type = "block"
    BY <1>9, ProbingFacts DEF FatProbe, PartitionsOf
  <2>2. CASE Top.dev = NoDevice \/ Top.at = partitions[dev[Top.dev].unit]
    BY <1>1, <1>9, <2>1, <2>2 DEF FatProbe, PartitionsOf
  <2>3. CASE Top.dev # NoDevice /\ Top.at # partitions[dev[Top.dev].unit]
    <3>1. Mounter(Top) /\ Top.dev \in Known
      BY <2>1, <2>3 DEF Mounter
    <3>2. PICK prefix : prefix = dev[Top.dev].name \o <<"p">>
      OBVIOUS
    <3>3. Panic \/ Make(Device(Append(prefix, FirstAvailableSuffix(prefix)), "fs", dev[Top.dev].unit, <<>>))
      BY <1>9, <2>3, <3>2 DEF FatProbe, PartitionsOf, MakeNumbered
    <3>4. ASSUME Make(Device(Append(prefix, FirstAvailableSuffix(prefix)), "fs", dev[Top.dev].unit, <<>>))
          PROVE  MountInv'
      <4>1. PICK k \in Nat : dev[Top.dev].name = <<"hd", k>>
        <5>1. dev[Top.dev].type = "block"
          BY <2>1, <2>3
        <5>2. dev[Top.dev].name \in NamesOf(dev[Top.dev].type)
          BY <3>1, DeviceFacts DEF StackInv
        <5> QED BY <5>1, <5>2, NamesAre
      <4>2. PICK name : name = Append(prefix, FirstAvailableSuffix(prefix))
        OBVIOUS
      <4>3. name[2] = dev[Top.dev].name[2]
        <5>1. PICK h \in Part, l \in Part, m \in Part : h = "hd" /\ m = k /\ l = "p"
          BY NamesAre
        <5>2. prefix = <<h, m, l>>
          <6>1. <<h, m>> \o <<l>> = <<h, m, l>>
            BY <5>1, LongerName
          <6>2. dev[Top.dev].name = <<h, m>> /\ <<"p">> = <<l>>
            BY <4>1, <5>1
          <6> QED BY <3>2, <6>1, <6>2
        <5>3. PICK n : n = FirstAvailableSuffix(prefix)
          OBVIOUS
        <5>4. PICK S : S = Part \cup {n}
          OBVIOUS
        <5>5. <<h, m, l>> \in Seq(S) /\ n \in S /\ Len(<<h, m, l>>) = 3 /\ <<h, m, l>>[2] = m
          BY <5>1, <5>4
        <5>6. Append(<<h, m, l>>, n)[2] = <<h, m, l>>[2]
          BY <5>5
        <5> QED BY <4>1, <4>2, <5>1, <5>2, <5>3, <5>5, <5>6
      <4>4. PICK new : new = Device(name, "fs", dev[Top.dev].unit, <<>>)
        OBVIOUS
      <4>5. PICK fr : fr = [Top EXCEPT !.at = @ + 1]
        OBVIOUS
      <4>6. /\ new.type = "fs" /\ new.unit = dev[Top.dev].unit /\ new.name = name
            /\ fr.fn = "probe" /\ fr.drv = "fat" /\ fr.dev = Top.dev /\ fr.at = Top.at + 1
        BY <2>1, <4>4, <4>5 DEF Device, Activations
      <4>7. PICK table \in Seq(Machines) : table = dev
        BY DEF StackInv, DevicesTyped
      <4>8. /\ device_register(fr, table, new)
            /\ UNCHANGED <<drivers, disabled, firstProbe, probed, partitions, booted>>
            /\ Len(table) = Len(dev)
            /\ \A i \in Known : /\ table[i].name = dev[i].name /\ table[i].type = dev[i].type
                                /\ table[i].unit = dev[i].unit
        BY <3>4, <4>2, <4>4, <4>5, <4>7 DEF Make, device_register
      <4> QED BY <2>1, <2>3, <3>1, <4>3, <4>6, <4>8, MountPartition
    <3> QED BY <1>2, <3>3, <3>4
  <2> QED BY <2>2, <2>3
<1> QED BY <1>4, <1>5, <1>6, <1>7, <1>8, <1>9

(* fbcon visits a device, and may make a console for it. *)
LEMMA MountFbcon ==
    ASSUME StackInv, MountInv, FbconVisit
    PROVE  MountInv'
<1>1. /\ stack # <<>> /\ Top.fn = "probe" /\ Top.drv = "fbcon" /\ Top \in Activations
      /\ ProbeTyped(Top) /\ ~Mounter(Top)
  BY ProbingFacts DEF FbconVisit, Mounter
<1>2. NextDevice(Top.at) \in Listed \cup {NoDevice} /\ Listed \subseteq Known
  BY <1>1, NextFacts DEF ProbeTyped, StackInv, ListsTyped
<1>3. PICK i \in Listed \cup {NoDevice} : i = NextDevice(Top.at)
  BY <1>2
<1>4. CASE i # NoDevice /\ Bindable(i) /\ SuffixFails(<<"fbcon">>)
  BY <1>3, <1>4, MountSame DEF FbconVisit, Panic
<1>5. CASE i = NoDevice \/ ~Bindable(i)
  <2>1. PICK fr : fr = [Top EXCEPT !.at = i]
    OBVIOUS
  <2>2. /\ Return \/ Continue(fr)
        /\ UNCHANGED <<drivers, devices, dev, disabled, firstProbe, probed, partitions, booted>>
    BY <1>3, <1>5, <2>1 DEF FbconVisit, Done
  <2>3. fr.fn = Top.fn /\ ~Mounter(fr)
    BY <1>1, <2>1 DEF Activations, Mounter
  <2>4. SameMachines /\ Listed' = Listed
    BY <2>2 DEF SameMachines, Listed
  <2>5. NoneSkipped
    BY <1>1, <2>2, ReachedStays
  <2> QED BY <1>1, <2>2, <2>3, <2>4, <2>5, MountQuiet
<1>6. CASE i # NoDevice /\ Bindable(i) /\ ~SuffixFails(<<"fbcon">>)
  <2>1. PICK fr : fr = [Top EXCEPT !.at = i, !.new = NewId]
    OBVIOUS
  <2>2. i \in Known
    BY <1>2, <1>6
  <2>3. PICK new : new = Device(<<"fbcon", FirstAvailableSuffix(<<"fbcon">>)>>, "con", 0, <<>>)
    OBVIOUS
  <2>4. fr.fn = "probe" /\ fr.drv = Top.drv /\ new.type = "con"
    BY <1>1, <2>1, <2>3 DEF Activations, Device
  <2>5. /\ dev \in Seq(Machines) /\ i \in 1 .. Len(dev) /\ dev[i] \in Machines /\ NewId \in Nat
    BY <2>2, DeviceFacts DEF StackInv, DevicesTyped, NewId, Known
  <2>6. PICK m \in Machines : m = [dev[i] EXCEPT !.subdevices = <<NewId>>]
    <3>1. <<NewId>> \in Seq(Nat)
      BY <2>5
    <3> QED BY <2>5, <3>1 DEF Machines
  <2>7. m.type = dev[i].type /\ m.name = dev[i].name /\ m.unit = dev[i].unit
    BY <2>5, <2>6 DEF Machines
  <2>8. PICK table : table = [dev EXCEPT ![i] = m]
    OBVIOUS
  <2>9. table \in Seq(Machines) /\ Len(table) = Len(dev)
        /\ \A j \in Known : table[j].name = dev[j].name /\ table[j].type = dev[j].type
                            /\ table[j].unit = dev[j].unit
    <3>1. table \in Seq(Machines) /\ Len(table) = Len(dev)
          /\ \A j \in 1 .. Len(dev) : table[j] = IF j = i THEN m ELSE dev[j]
      BY <2>5, <2>8
    <3> QED BY <2>7, <3>1 DEF Known
  <2>10. table = [dev EXCEPT ![i].subdevices = <<NewId>>]
    BY <2>6, <2>8
  <2>11. /\ device_register(fr, table, new)
         /\ UNCHANGED <<drivers, disabled, firstProbe, probed, partitions, booted>>
    BY <1>3, <1>6, <2>1, <2>3, <2>10 DEF FbconVisit
  <2> QED BY <1>1, <2>4, <2>9, <2>11, MountOther
<1> QED BY <1>4, <1>5, <1>6

(* fbcon takes the console over. *)
LEMMA MountTakeOver ==
    ASSUME StackInv, MountInv, FbconTakeOver
    PROVE  MountInv'
<1>1. /\ stack # <<>> /\ Top.fn = "probe" /\ Top.drv = "fbcon" /\ Top \in Activations /\ ~Mounter(Top)
      /\ UNCHANGED <<drivers, devices, dev, disabled, firstProbe, probed, partitions, booted>>
  BY ProbingFacts DEF FbconTakeOver, Mounter
<1>2. PICK g : g = Frame("deregister", None, OldConsole, 0, NoDevice)
  OBVIOUS
<1>3. PICK fr : (Call(fr, g) /\ fr = Top) \/ (Continue(fr) /\ fr = [Top EXCEPT !.new = NoDevice])
  <2>1. CASE OldConsole # NoDevice
    <3>1. PICK fr : fr = Top
      OBVIOUS
    <3>2. Call(fr, g)
      BY <1>2, <2>1, <3>1 DEF FbconTakeOver
    <3> QED BY <3>1, <3>2
  <2>2. CASE OldConsole = NoDevice
    <3>1. PICK fr : fr = [Top EXCEPT !.new = NoDevice]
      OBVIOUS
    <3>2. Continue(fr)
      BY <2>2, <3>1 DEF FbconTakeOver
    <3> QED BY <3>1, <3>2
  <2> QED BY <2>1, <2>2
<1>4. fr.fn = Top.fn /\ ~Mounter(fr) /\ g.fn = "deregister" /\ ~Mounter(g)
  BY <1>1, <1>2, <1>3 DEF Activations, Mounter, Frame
<1>5. SameMachines /\ Listed' = Listed
  BY <1>1 DEF SameMachines, Listed
<1>6. NoneSkipped
  BY <1>1, <1>3, ReachedStays
<1> QED BY <1>1, <1>3, <1>4, <1>5, <1>6, MountQuiet

----------------------------------------------------------------------------
(* The callers. *)

(* What begins from outside leaves the disks and the partitions as they are. *)
LEMMA MountIdle ==
    ASSUME StackInv, MountInv, stack = <<>>, UNCHANGED <<devices, dev, partitions>>,
           Reached' = Reached, ~disabled'["fat"], "fat" \in ToSet(drivers) => "fat" \in ToSet(drivers'),
           stack' = <<>> \/ \E f : stack' = <<f>> /\ f.fn # "register" /\ f.fn # "probe" /\ (~booted' => f.fn = "first"),
           ~booted' => ~booted,
           \/ \A i \in Known : i \in Ids => probed'["fat"][i] = probed["fat"][i]
           \/ "fat" \notin ToSet(drivers) /\ \A i \in Known : i \in Ids => probed'["fat"][i] = 0
    PROVE  MountInv'
<1>1. Listed' = Listed /\ SameMachines /\ NoneSkipped /\ Known' = Known
  BY DEF Listed, SameMachines, NoneSkipped, Known
<1>2. /\ \A k \in 1 .. Len(stack') : stack'[k].fn # "register" /\ stack'[k].fn # "probe"
      /\ ~booted' => (Len(stack') > 0 => stack'[1].fn = "first")
  <2>1. CASE stack' = <<>>
    BY <2>1
  <2>2. ASSUME NEW f, stack' = <<f>>, f.fn # "register", f.fn # "probe", ~booted' => f.fn = "first"
        PROVE  <1>2!:
    <3>1. Len(stack') = 1 /\ stack'[1] = f /\ \A k \in 1 .. Len(stack') : stack'[k] = f
      BY <2>2
    <3> QED BY <2>2, <3>1
  <2> QED BY <2>1, <2>2
<1>3. \A i : ~Mounting(i)
  BY DEF Mounting
<1>4. \A k \in 1 .. Len(stack') : ~Mounter(stack'[k])
  BY <1>2 DEF Mounter
<1>5. CASE \A i \in Known : i \in Ids => probed'["fat"][i] = probed["fat"][i]
  BY <1>1, <1>2, <1>3, <1>4, <1>5, MountStays
<1>6. CASE "fat" \notin ToSet(drivers) /\ \A i \in Known : i \in Ids => probed'["fat"][i] = 0
  <2>1. OfDisks'
    BY <1>1, <1>2, DisksStay DEF MountInv, OfDisks
  <2>2. /\ \A i \in Known : (Block(i)' <=> Block(i)) /\ dev'[i].unit = dev[i].unit
        /\ \A u : Made(u)' = Made(u)
    BY <1>1, MachinesStay DEF SameMachines
  <2>3. \A u : Made(u) = {}
    BY <1>6 DEF MountInv, PartitionsOfDisks, Made
  <2>4. \A f : Mounter(f)' <=> Mounter(f)
    BY DEF Mounter
  <2>5. MadeSoFar'
    <3>1. ASSUME Known \subseteq Ids, NEW i \in Known, Block(i) PROVE DiskMade(i)'
      BY <1>6, <2>2, <2>3, <3>1 DEF DiskMade
    <3>2. \A k \in 1 .. Len(stack') : \A f : f = stack'[k] => ~Mounter(f)'
      BY <1>4, <2>4
    <3> QED BY <1>1, <2>2, <3>1, <3>2 DEF MadeSoFar
  <2> QED BY <2>1, <2>5 DEF MountInv, OfDisks
<1> QED BY <1>5, <1>6

(* The drivers of the disks and of the partitions are registered enabled. *)
LEMMA DisksEnabled == ~Attr["bdrive"].disabled /\ ~Attr["fat"].disabled
<1>1. Attr["bdrive"] = TreeAttr["bdrive"] /\ Attr["fat"] = TreeAttr["fat"]
  BY TreeAssumption DEF TreeDrivers
<1>2. TreeAttr["bdrive"] = BdriveDriver /\ TreeAttr["fat"] = FatDriver
  BY DEF TreeAttr, TreeDrivers
<1> QED BY <1>1, <1>2 DEF BdriveDriver, FatDriver, Fields

(* A driver is registered, or enabled. *)
LEMMA MountDriver ==
    ASSUME StackInv, MountInv, CountsInv, NEW d \in Drivers, UNCHANGED <<partitions, booted>>,
           \/ driver_register(d) /\ d \notin ToSet(drivers)
           \/ driver_enable(d) /\ d \notin {"bdrive", "fat"}
    PROVE  MountInv'
<1>1. PICK f : f = Frame("first", d, NoDevice, 0, NoDevice)
  OBVIOUS
<1>2. f.fn = "first" /\ f.at = 0
  BY <1>1 DEF Frame
<1>3. /\ stack = <<>> /\ UNCHANGED <<devices, dev>> /\ probed' = Uncounted(d)
      /\ \/ stack' = <<>> /\ firstProbe' = firstProbe /\ Attr[d].disabled
         \/ stack' = <<f>> /\ firstProbe' = [firstProbe EXCEPT ![d] = TRUE]
      /\ \/ drivers' = Append(drivers, d) /\ d \notin ToSet(drivers)
            /\ disabled' = [disabled EXCEPT ![d] = Attr[d].disabled]
         \/ drivers' = drivers /\ d \notin {"bdrive", "fat"}
            /\ disabled' = [disabled EXCEPT ![d] = FALSE]
  BY <1>1 DEF driver_register, driver_enable, FirstProbe, Idle
<1>4. /\ \A e \in Drivers : ~firstProbe[e]
      /\ drivers \in Seq(Drivers) /\ "bdrive" \in Drivers /\ "fat" \in Drivers
      /\ firstProbe \in [Drivers -> BOOLEAN] /\ disabled \in [Drivers -> BOOLEAN]
  BY <1>3, IdleFacts, TreeFacts DEF TreeDrivers
<1>5. /\ ToSet(drivers) \subseteq ToSet(drivers')
      /\ d # "bdrive" => ("bdrive" \in ToSet(drivers') <=> "bdrive" \in ToSet(drivers))
      /\ d \in {"bdrive", "fat"} => d \notin ToSet(drivers)
  <2>1. drivers' = Append(drivers, d) => ToSet(drivers') = ToSet(drivers) \cup {d}
    BY <1>4, ElementsOf
  <2> QED BY <1>3, <2>1
<1>6. Reached' = Reached
  <2>1. CASE d = "bdrive"
    <3>1. stack' = <<f>> /\ firstProbe'["bdrive"]
      BY <1>3, <1>4, <2>1, DisksEnabled
    <3>2. Len(stack') = 1 /\ stack'[1].at = 0
      BY <1>2, <3>1
    <3>3. Reached' = 0
      BY <3>1, <3>2 DEF Reached
    <3> QED BY <1>5, <2>1, <3>3 DEF Reached
  <2>2. CASE d # "bdrive"
    <3>1. ~firstProbe["bdrive"] /\ ~firstProbe'["bdrive"]
      BY <1>3, <1>4, <2>2
    <3> QED BY <1>5, <2>2, <3>1 DEF Reached
  <2> QED BY <2>1, <2>2
<1>7. ~disabled'["fat"]
  BY <1>3, <1>4, DisksEnabled DEF MountInv, DisksTyped
<1>8. \/ \A i \in Known : i \in Ids => probed'["fat"][i] = probed["fat"][i]
      \/ "fat" \notin ToSet(drivers) /\ \A i \in Known : i \in Ids => probed'["fat"][i] = 0
  <2>1. probed \in [Drivers -> [Ids -> Nat]]
    BY DEF CountsInv, CountsTyped
  <2>2. probed'["fat"] = IF d = "fat" THEN [i \in Ids |-> 0] ELSE probed["fat"]
    BY <1>3, <1>4, <2>1 DEF Uncounted
  <2> QED BY <1>5, <2>2
<1>9. stack' = <<>> \/ (stack' = <<f>> /\ f.fn # "register" /\ f.fn # "probe" /\ (~booted' => f.fn = "first"))
  BY <1>2, <1>3
<1> QED BY <1>3, <1>5, <1>6, <1>7, <1>8, <1>9, MountIdle

(* A module deregisters its driver, or its calls begin. *)
LEMMA MountOutside ==
    ASSUME StackInv, MountInv, stack = <<>>, booted,
           UNCHANGED <<devices, dev, disabled, firstProbe, probed, partitions, booted>>,
           \/ drivers' = drivers
           \/ ModuleDriver \in ToSet(drivers) /\ drivers' = RemoveFirst(drivers, ModuleDriver),
           stack' = <<>> \/ \E f : stack' = <<f>> /\ f.fn # "register" /\ f.fn # "probe"
    PROVE  MountInv'
<1>1. \A d \in {"bdrive", "fat"} : d \in ToSet(drivers') <=> d \in ToSet(drivers)
  <2>1. drivers \in Seq(Drivers) /\ \A a, b \in 1 .. Len(drivers) : drivers[a] = drivers[b] => a = b
    BY DEF StackInv, ListsTyped
  <2>2. ASSUME ModuleDriver \in ToSet(drivers), drivers' = RemoveFirst(drivers, ModuleDriver)
        PROVE  ToSet(drivers') = ToSet(drivers) \ {ModuleDriver}
    BY <2>1, <2>2, Removed
  <2>3. ModuleDriver \notin {"bdrive", "fat"}
    BY DEF ModuleDriver
  <2> QED BY <2>2, <2>3
<1>2. ~firstProbe["bdrive"]
  BY IdleFacts, TreeFacts DEF TreeDrivers
<1>3. Reached' = Reached
  BY <1>1, <1>2 DEF Reached
<1>4. ~disabled'["fat"]
  BY DEF MountInv, DisksTyped
<1> QED BY <1>1, <1>3, <1>4, MountIdle

(* Every step keeps the disks and their partitions. *)
LEMMA MountStep ==
    ASSUME StackInv, NamesInv, CountsInv, MountInv, [Next]_vars
    PROVE  MountInv'
<1>1. CountsInv'
  BY CountsStep
<1>2. CASE BootDriver
  <2>1. PICK d \in TreeDrivers \ ToSet(drivers) : driver_register(d)
    BY <1>2 DEF BootDriver
  <2>2. UNCHANGED <<partitions, booted>> /\ d \in Drivers
    BY <1>2, <2>1, TreeFacts DEF BootDriver
  <2> QED BY <2>1, <2>2, MountDriver
<1>3. CASE TakeVga
  <2>1. /\ stack = <<>> /\ booted'
        /\ UNCHANGED <<drivers, devices, dev, disabled, firstProbe, stack, probed, partitions>>
    BY <1>3 DEF TakeVga, Idle, managerVars
  <2>2. Reached' = Reached
    BY <2>1 DEF Reached
  <2>3. ~disabled'["fat"]
    BY <2>1 DEF MountInv, DisksTyped
  <2> QED BY <2>1, <2>2, <2>3, MountIdle
<1>4. CASE Endrv
  <2>1. PICK d \in {"vesa", ModuleDriver} \cap ToSet(drivers) : driver_enable(d)
    BY <1>4 DEF Endrv
  <2>2. UNCHANGED <<partitions, booted>> /\ d \in Drivers /\ d \notin {"bdrive", "fat"}
    <3>1. stack = <<>>
      BY <2>1 DEF driver_enable, Idle
    <3> QED BY <1>4, <2>1, <3>1, IdleFacts DEF Endrv, ModuleDriver
  <2> QED BY <2>1, <2>2, MountDriver
<1>5. CASE ModuleCalls
  <2>0. booted /\ UNCHANGED <<partitions, booted>>
    BY <1>5 DEF ModuleCalls
  <2>1. CASE ModuleDriver \in Drivers \ ToSet(drivers) /\ driver_register(ModuleDriver)
    BY <2>0, <2>1, MountDriver
  <2>2. CASE driver_deregister(ModuleDriver)
    <3>1. /\ stack = <<>> /\ stack' = <<>> /\ UNCHANGED <<devices, dev, disabled, firstProbe, probed>>
          /\ ModuleDriver \in ToSet(drivers) /\ drivers' = RemoveFirst(drivers, ModuleDriver)
      BY <2>2 DEF driver_deregister, Idle
    <3> QED BY <2>0, <3>1, MountOutside
  <2>3. ASSUME NEW i, device_deregister(i) PROVE MountInv'
    <3>1. PICK f : f = Frame("deregister", None, i, 0, NoDevice)
      OBVIOUS
    <3>2. /\ stack = <<>> /\ stack' = <<f>> /\ drivers' = drivers
          /\ UNCHANGED <<devices, dev, disabled, firstProbe, probed>>
      BY <2>3, <3>1 DEF device_deregister, Idle
    <3>3. f.fn = "deregister"
      BY <3>1 DEF Frame
    <3> QED BY <2>0, <3>2, <3>3, MountOutside
  <2>4. ASSUME NEW t, driver_probe_for(t) PROVE MountInv'
    <3>1. PICK f : f = Frame("probeFor", t, NoDevice, 0, NoDevice)
      OBVIOUS
    <3>2. /\ stack = <<>> /\ stack' = <<f>> /\ drivers' = drivers
          /\ UNCHANGED <<devices, dev, disabled, firstProbe, probed>>
      BY <2>4, <3>1 DEF driver_probe_for, Idle
    <3>3. f.fn = "probeFor"
      BY <3>1 DEF Frame
    <3> QED BY <2>0, <3>2, <3>3, MountOutside
  <2> QED BY <1>5, <2>1, <2>2, <2>3, <2>4 DEF ModuleCalls
<1>6. CASE ManagerStep /\ UNCHANGED <<partitions, booted, console>>
  BY <1>1, <1>6, MountRegister, MountDeregister, MountFirst, MountProbeFor DEF ManagerStep
<1>7. CASE SerialProbe \/ VgaProbe \/ VesaProbe \/ BdriveProbe \/ FatProbe \/ ModuleProbe
  BY <1>7, MountProbe
<1>8. CASE FbconVisit \/ FbconTakeOver
  BY <1>8, MountFbcon, MountTakeOver
<1>9. CASE UNCHANGED vars
  BY <1>9, MountSame DEF vars, managerVars
<1> QED BY <1>2, <1>3, <1>4, <1>5, <1>6, <1>7, <1>8, <1>9 DEF Next, Steps, ProbeStep

(* No disk is found, and nothing is mounted. *)
LEMMA MountStart ==
    ASSUME Init
    PROVE  MountInv
<1>1. /\ drivers = <<>> /\ devices = <<>> /\ dev = <<>> /\ stack = <<>> /\ booted = FALSE
      /\ disabled = [d \in Drivers |-> Attr[d].disabled]
      /\ \E n \in DiskCounts : partitions \in [0 .. n - 1 -> 0 .. MaxPartitions]
  BY DEF Init, ManagerInit
<1>2. Known = {} /\ Len(stack) = 0 /\ 1 .. Len(stack) = {}
  BY <1>1 DEF Known
<1>3. DisksTyped
  BY <1>1, DisksEnabled, TreeFacts DEF DisksTyped, TreeDrivers
<1>4. Reached = 0
  BY <1>1 DEF Reached, ToSet
<1>5. \A u \in Disks : ~(u < 0)
  <2>1. PICK n \in DiskCounts : partitions \in [0 .. n - 1 -> 0 .. MaxPartitions]
    BY <1>1
  <2>2. n \in Nat /\ Disks = 0 .. n - 1
    BY <2>1, TreeAssumption DEF Disks
  <2> QED BY <2>2
<1>6. DisksFound
  BY <1>2, <1>4, <1>5 DEF DisksFound
<1>7. PartitionsOfDisks /\ MadeSoFar /\ DisksListed
  BY <1>2 DEF PartitionsOfDisks, MadeSoFar, DisksListed
<1> QED BY <1>3, <1>6, <1>7 DEF MountInv

(* How far the disks and their partitions have come is known in every state. *)
THEOREM MountInvariance == Spec => [](StackInv /\ CountsInv /\ MountInv)
<1>1. StackInv /\ NamesInv /\ CountsInv /\ MountInv /\ [Next]_vars => MountInv'
  BY MountStep
<1>2. Init => MountInv
  BY MountStart
<1> QED BY <1>1, <1>2, StackInvariance, CountsInvariance, PTL DEF Spec

(* A disk's partitions that were ever made are no more than it has. *)
LEMMA MadeEnough ==
    ASSUME StackInv, CountsInv, MountInv, Known \subseteq Ids, NEW u \in Disks
    PROVE  /\ Cardinality(Made(u)) <= partitions[u]
           /\ stack = <<>> /\ ~booted /\ "fat" \in ToSet(drivers) =>
                 Cardinality(Made(u)) = IF \E i \in Known : Block(i) /\ dev[i].unit = u
                                        THEN partitions[u] ELSE 0
<1>1. partitions[u] \in Nat
  <2>1. PICK n \in DiskCounts : partitions \in [0 .. n - 1 -> 0 .. MaxPartitions]
    BY DEF MountInv, DisksTyped
  <2>2. partitions[u] \in 0 .. MaxPartitions
    BY <2>1 DEF Disks
  <2> QED BY <2>2, TreeAssumption
<1>2. CASE \A i \in Known : ~(Block(i) /\ dev[i].unit = u)
  <2>1. Made(u) = {}
    BY <1>2 DEF MountInv, PartitionsOfDisks, HasDisk, Made
  <2>2. Cardinality(Made(u)) = 0
    BY <2>1, FS_EmptySet
  <2> QED BY <1>1, <1>2, <2>2
<1>3. ASSUME NEW i \in Known, Block(i), dev[i].unit = u
      PROVE  /\ Cardinality(Made(u)) <= partitions[u]
             /\ stack = <<>> /\ ~booted /\ "fat" \in ToSet(drivers) => Cardinality(Made(u)) = partitions[u]
  <2>1. DiskMade(i)
    BY <1>3 DEF MountInv, MadeSoFar
  <2>2. CASE probed["fat"][i] = 0
    <3>1. Cardinality(Made(u)) = 0
      BY <1>3, <2>1, <2>2, FS_EmptySet DEF DiskMade
    <3>2. ~(stack = <<>> /\ ~booted /\ "fat" \in ToSet(drivers))
      <4> SUFFICES ASSUME stack = <<>>, ~booted, "fat" \in ToSet(drivers) PROVE FALSE
        OBVIOUS
      <4>1. i \in Listed /\ ~disabled["fat"] /\ DependsOn("fat", i)
        BY <1>3, TreeFacts DEF MountInv, DisksListed, DisksTyped, DependsOn, Block
      <4>2. ~Pending("fat", i)
        BY DEF Pending, Registering, Exploring
      <4>3. probed["fat"][i] = 1
        BY <4>1, <4>2 DEF CountsInv, Counts
      <4> QED BY <2>2, <4>3
    <3> QED BY <1>1, <3>1, <3>2
  <2>3. CASE probed["fat"][i] # 0 /\ Mounting(i)
    <3>1. PICK k \in 1 .. Len(stack) : Mounter(stack[k]) /\ stack[k].dev = i
      BY <2>3 DEF Mounting
    <3>2. FrameMade(stack[k])
      BY <3>1 DEF MountInv, MadeSoFar
    <3>3. Cardinality(Made(u)) = stack[k].at /\ stack[k].at <= partitions[u]
      BY <1>3, <3>1, <3>2 DEF FrameMade
    <3>4. stack # <<>>
      BY <3>1
    <3> QED BY <3>3, <3>4
  <2>4. CASE probed["fat"][i] # 0 /\ ~Mounting(i)
    <3>1. Cardinality(Made(u)) = partitions[u]
      BY <1>3, <2>1, <2>4 DEF DiskMade
    <3> QED BY <1>1, <3>1
  <2> QED BY <2>2, <2>3, <2>4
<1> QED BY <1>2, <1>3

\* The partitions of a disk that are mounted, and the disk.
Mounted(u) == {i \in ToSet(devices) : dev[i].type = "fs" /\ dev[i].unit = u}
DisksAt(u) == {i \in ToSet(devices) : dev[i].type = "block" /\ dev[i].unit = u}

(* The mounted partitions are among those that were made; before the boot is over they
   are all. *)
LEMMA MountedMade ==
    ASSUME StackInv, MountInv, NEW u
    PROVE  /\ Mounted(u) \subseteq Made(u) /\ Cardinality(Mounted(u)) <= Cardinality(Made(u))
           /\ Cardinality(Mounted(u)) \in Nat /\ Cardinality(Made(u)) \in Nat
           /\ ~booted => Mounted(u) = Made(u)
<1>1. Listed \subseteq Known
  BY DEF StackInv, ListsTyped
<1>2. Mounted(u) \subseteq Made(u)
  BY <1>1 DEF Mounted, Made, Partition, Listed
<1>3. IsFiniteSet(Made(u)) /\ Cardinality(Made(u)) \in Nat
  BY MadeFinite
<1>4. Cardinality(Mounted(u)) <= Cardinality(Made(u)) /\ IsFiniteSet(Mounted(u))
  BY <1>2, <1>3, FS_Subset
<1>5. ~booted => Mounted(u) = Made(u)
  BY <1>2 DEF MountInv, DisksListed, Mounted, Made, Partition, Listed
<1> QED BY <1>2, <1>3, <1>4, <1>5, FS_CardinalityType

(* The name of a partition starts with that of its disk. *)
LEMMA NamedAfter ==
    ASSUME StackInv, MountInv, NEW u, NEW i \in Mounted(u), NEW j \in DisksAt(u)
    PROVE  IsPrefix(dev[j].name, dev[i].name)
<1>1. /\ i \in Known /\ j \in Known /\ Partition(i) /\ Block(j) /\ dev[i].unit = u /\ dev[j].unit = u
      /\ dev[i].type = "fs" /\ dev[j].type = "block"
  BY DEF Mounted, DisksAt, Partition, Block, StackInv, ListsTyped, Listed
<1>2. PICK l \in Known : Block(l) /\ dev[l].unit = dev[i].unit /\ dev[l].name[2] = dev[i].name[2]
  BY <1>1 DEF MountInv, PartitionsOfDisks, HasDisk
<1>3. l = j
  BY <1>1, <1>2 DEF MountInv, DisksFound
<1>4. dev[i].name \in NamesOf("fs") /\ dev[j].name \in NamesOf("block")
  <2>1. dev[i].name \in NamesOf(dev[i].type) /\ dev[j].name \in NamesOf(dev[j].type)
    BY <1>1, DeviceFacts DEF StackInv
  <2> QED BY <1>1, <2>1
<1>5. PICK k \in Nat, m \in Nat : dev[i].name = <<"hd", k, "p", m>>
  BY <1>4, NamesAre
<1>6. PICK n \in Nat : dev[j].name = <<"hd", n>>
  BY <1>4, NamesAre
<1>7. k = n
  BY <1>2, <1>3, <1>5, <1>6
<1>8. PICK h \in Part, p \in Part, a \in Part, b \in Part : h = "hd" /\ p = "p" /\ a = k /\ b = m
  BY NamesAre
<1>9. PICK s \in Seq(Part), t \in Seq(Part) : s = <<h, a>> /\ t = <<h, a, p, b>>
  <2>1. <<h, a>> \in Seq(Part) /\ <<h, a, p, b>> \in Seq(Part)
    OBVIOUS
  <2> QED BY <2>1
<1>10. Len(s) = 2 /\ Len(t) = 4 /\ s[1] = t[1] /\ s[2] = t[2]
  BY <1>9
<1>11. ASSUME NEW v \in Seq(Part), 2 <= Len(v)
       PROVE  /\ SubSeq(v, 1, 2) \in Seq(Part) /\ Len(SubSeq(v, 1, 2)) = 2
              /\ \A x \in 1 .. 2 : SubSeq(v, 1, 2)[x] = v[x]
  <2>1. /\ SubSeq(v, 1, 2) \in Seq(Part)
        /\ Len(SubSeq(v, 1, 2)) = IF 1 <= 2 THEN 2 - 1 + 1 ELSE 0
        /\ \A x \in 1 .. 2 - 1 + 1 : SubSeq(v, 1, 2)[x] = v[1 + x - 1]
    BY <1>11, SubSeqProperties
  <2>2. \A x \in 1 .. 2 : x \in 1 .. 2 - 1 + 1 /\ 1 + x - 1 = x
    OBVIOUS
  <2> QED BY <2>1, <2>2
<1>12. SubSeq(s, 1, 2) = SubSeq(t, 1, 2)
  <2>1. \A x \in 1 .. 2 : x = 1 \/ x = 2
    OBVIOUS
  <2>2. \A x \in 1 .. 2 : SubSeq(s, 1, 2)[x] = SubSeq(t, 1, 2)[x]
    BY <1>10, <1>11, <2>1
  <2> QED BY <1>11, <2>2, SeqEqual
<1>13. IsPrefix(s, t)
  BY <1>10, <1>12 DEF IsPrefix
<1> QED BY <1>5, <1>6, <1>7, <1>8, <1>9, <1>13

(* A disk is never listed as two devices. *)
LEMMA DisksOnly ==
    ASSUME StackInv, MountInv, NEW u \in Disks
    PROVE  \A i, j \in DisksAt(u) : i = j
<1>1. Listed \subseteq Known
  BY DEF StackInv, ListsTyped
<1> QED BY <1>1 DEF MountInv, DisksFound, DisksAt, Block, Listed

(* A disk that is registered is registered once, and before the boot is over it is
   registered whenever it was made. *)
LEMMA DisksOnce ==
    ASSUME StackInv, MountInv, NEW u \in Disks
    PROVE  /\ Cardinality(DisksAt(u)) <= 1
           /\ ~booted => DisksAt(u) = {i \in Known : Block(i) /\ dev[i].unit = u}
<1>1. Listed \subseteq Known
  BY DEF StackInv, ListsTyped
<1>2. \A i, j \in DisksAt(u) : i = j
  BY DisksOnly
<1>3. Cardinality(DisksAt(u)) <= 1
  <2>1. CASE DisksAt(u) = {}
    BY <2>1, FS_EmptySet
  <2>2. ASSUME NEW i \in DisksAt(u) PROVE Cardinality(DisksAt(u)) <= 1
    <3>1. DisksAt(u) = {i}
      BY <1>2, <2>2
    <3>2. Cardinality({i}) = 1
      BY FS_Singleton
    <3> QED BY <3>1, <3>2
  <2> QED BY <2>1, <2>2
<1>4. ~booted => DisksAt(u) = {i \in Known : Block(i) /\ dev[i].unit = u}
  BY <1>1 DEF MountInv, DisksListed, DisksAt, Block, Listed
<1> QED BY <1>3, <1>4

(* However many disks the BIOS reports, none is registered and none of their partitions
   mounted twice, and after the boot every partition of each registered disk is mounted,
   under a name that starts with its disk's (bios_drive.c, fat.c): whatever the order the
   link left the drivers in, and whatever a module deregisters or probes for again. *)
THEOREM PartitionsMountedHolds == Spec => [](DOMAIN dev \subseteq Ids => PartitionsMounted)
<1>1. ASSUME StackInv, CountsInv, MountInv, DOMAIN dev \subseteq Ids PROVE PartitionsMounted
  <2>1. Known \subseteq Ids
    BY <1>1, DeviceFacts DEF StackInv
  <2>2. ASSUME NEW u \in Disks
        PROVE  /\ Cardinality(Mounted(u)) <= partitions[u] /\ Cardinality(DisksAt(u)) <= 1
               /\ \A i \in Mounted(u), j \in DisksAt(u) : IsPrefix(dev[j].name, dev[i].name)
    <3>1. Cardinality(Made(u)) <= partitions[u]
      BY <1>1, <2>1, MadeEnough
    <3>2. Cardinality(Mounted(u)) <= Cardinality(Made(u))
          /\ Cardinality(Mounted(u)) \in Nat /\ Cardinality(Made(u)) \in Nat
      BY <1>1, MountedMade
    <3>3. partitions[u] \in Nat
      <4>1. PICK n \in DiskCounts : partitions \in [0 .. n - 1 -> 0 .. MaxPartitions]
        BY <1>1 DEF MountInv, DisksTyped
      <4>2. partitions[u] \in 0 .. MaxPartitions
        BY <4>1 DEF Disks
      <4> QED BY <4>2, TreeAssumption
    <3>4. Cardinality(Mounted(u)) <= partitions[u]
      BY <3>1, <3>2, <3>3
    <3>5. Cardinality(DisksAt(u)) <= 1
      BY <1>1, DisksOnce
    <3>6. \A i \in Mounted(u), j \in DisksAt(u) : IsPrefix(dev[j].name, dev[i].name)
      BY <1>1, NamedAfter
    <3> QED BY <3>4, <3>5, <3>6
  <2>3. ASSUME NEW u \in Disks, ~booted, Idle, {"bdrive", "fat"} \subseteq ToSet(drivers)
        PROVE  Cardinality(Mounted(u)) = IF DisksAt(u) = {} THEN 0 ELSE partitions[u]
    <3>1. stack = <<>>
      BY <2>3 DEF Idle
    <3>2. Cardinality(Made(u)) = IF \E i \in Known : Block(i) /\ dev[i].unit = u
                                 THEN partitions[u] ELSE 0
      BY <1>1, <2>1, <2>3, <3>1, MadeEnough
    <3>3. Mounted(u) = Made(u)
      BY <1>1, <2>3, MountedMade
    <3>4. DisksAt(u) = {i \in Known : Block(i) /\ dev[i].unit = u}
      BY <1>1, <2>3, DisksOnce
    <3> QED BY <3>2, <3>3, <3>4
  <2> QED BY <2>2, <2>3 DEF PartitionsMounted, Mounted, DisksAt
<1> QED BY <1>1, MountInvariance, PTL

(* The loop over the drives (bios_drive.c) finds all of them, and none twice, when the
   number of disks the BIOS tells is odd. *)
THEOREM DisksRegisteredHolds == Spec => []DisksRegistered
<1>1. ASSUME StackInv, MountInv PROVE DisksRegistered
  <2> SUFFICES ASSUME Cardinality(Disks) % 2 = 1, ~booted, Idle, "bdrive" \in ToSet(drivers),
                      NEW u \in Disks, u < 4
               PROVE  Cardinality(DisksAt(u)) = 1
    BY DEF DisksRegistered, DisksAt
  <2>1. Registers(Cardinality(Disks))
    BY DEF Registers
  <2>2. Reached = 4
    <3>1. stack = <<>>
      BY DEF Idle
    <3>2. ~firstProbe["bdrive"]
      BY <1>1, <3>1, IdleFacts, TreeFacts DEF TreeDrivers
    <3> QED BY <3>2 DEF Reached
  <2>3. PICK i \in Known : Block(i) /\ dev[i].unit = u
    BY <1>1, <2>1, <2>2 DEF MountInv, DisksFound
  <2>4. i \in DisksAt(u)
    BY <1>1, <2>3, DisksOnce
  <2>5. DisksAt(u) = {i}
    BY <1>1, <2>4, DisksOnly
  <2>6. Cardinality({i}) = 1
    BY FS_Singleton
  <2> QED BY <2>5, <2>6
<1> QED BY <1>1, MountInvariance, PTL
=============================================================================
