-------------------------- MODULE BuildTool_proofs --------------------------
(***************************************************************************)
(* Theorems about the build tool, for every set of workspaces cargo may    *)
(* report: any number of packages, boards and images, well formed or not.  *)
(***************************************************************************)
EXTENDS BuildTool, FiniteSetTheorems, TLAPS

-----------------------------------------------------------------------------
(* What is known while packages are read.  J are the places in the         *)
(* workspace w of the packages that have been read.                        *)

Entry(p, m) == [package |-> p.name, metadata |-> m]

\* The boards bo are those of the packages at J, under their ids.
BoardsRead(w, J, bo) ==
    /\ \A i \in J : \A b \in w[i].board :
          /\ BoardParses(b) /\ validate_board_metadata(b)
          /\ b.id \in DOMAIN bo
          /\ bo[b.id] = Entry(w[i], b)
    /\ \A id \in DOMAIN bo : \E i \in J : \E b \in w[i].board : b.id = id

FirmwareOf(w) == UNION {{Entry(w[i], f) : f \in w[i].firmware} : i \in DOMAIN w}

\* The sequence fo holds the firmware of the packages at J, once each.
FirmwareRead(w, J, fo) ==
    /\ fo \in Seq(FirmwareOf(w))
    /\ \A i \in J : \A f \in w[i].firmware :
          FirmwareParses(f) /\ \E m \in DOMAIN fo : fo[m] = Entry(w[i], f)
    /\ \A m \in DOMAIN fo : \E i \in J : \E f \in w[i].firmware : fo[m] = Entry(w[i], f)
    /\ \A m, k \in DOMAIN fo : fo[m].package = fo[k].package => m = k

Excluded(w, J) == {w[i].name : i \in {j \in J : ~w[j].hostCheck \/ w[j].firmware # {}}}

\* What is known of a workspace.
IsWorkspace(w) ==
    /\ w \in Seq(Range(w))
    /\ \A i, j \in DOMAIN w : w[i].name = w[j].name => i = j
    /\ \A i \in DOMAIN w : /\ \A b, c \in w[i].board : b = c /\ b.id \in Nat
                           /\ \A f, g \in w[i].firmware :
                                 f = g /\ f.board \in Nat /\ f.variant \in Nat

\* The sequence of a set of at most one element.
LEMMA SequenceOfOption ==
    /\ SetToSeq({}) = << >>
    /\ \A x : SetToSeq({x}) = <<x>>
<1>1. SetToSeq({}) = << >>
  <2>1. 1 .. Cardinality({}) = {}
    <3>1. Cardinality({}) = 0
      BY FS_EmptySet
    <3> QED
      BY <3>1
  <2>2. << >> \in [{} -> {}] /\ IsInjective(<< >>)
    BY DEF IsInjective
  <2>3. \A f \in [{} -> {}] : f = << >>
    OBVIOUS
  <2> QED
    BY <2>1, <2>2, <2>3 DEF SetToSeq
<1>2. ASSUME NEW x
      PROVE  SetToSeq({x}) = <<x>>
  <2>1. 1 .. Cardinality({x}) = {1}
    <3>1. Cardinality({x}) = 1
      BY FS_Singleton
    <3> QED
      BY <3>1
  <2>2. <<x>> \in [{1} -> {x}] /\ IsInjective(<<x>>)
    BY DEF IsInjective
  <2>3. \A f \in [{1} -> {x}] : f = <<x>>
    OBVIOUS
  <2> QED
    BY <2>1, <2>2, <2>3 DEF SetToSeq
<1> QED
  BY <1>1, <1>2

\* Nothing follows a sequence.
LEMMA NoMore ==
    ASSUME NEW S, NEW s \in Seq(S)
    PROVE  s \o << >> = s
<1>1. s \o << >> \in Seq(S) /\ Len(s \o << >>) = Len(s)
  OBVIOUS
<1>2. \A m \in 1 .. Len(s) : (s \o << >>)[m] = s[m]
  OBVIOUS
<1> QED
  BY <1>1, <1>2

\* One element follows a sequence.
LEMMA OneMore ==
    ASSUME NEW S, NEW s \in Seq(S), NEW e \in S
    PROVE  /\ Len(s) \in Nat /\ DOMAIN s = 1 .. Len(s)
           /\ s \o <<e>> \in Seq(S)
           /\ Append(s, e) \in Seq(S)
           /\ Len(s \o <<e>>) = Len(s) + 1 /\ Len(Append(s, e)) = Len(s) + 1
           /\ \A m \in 1 .. Len(s) : (s \o <<e>>)[m] = s[m] /\ Append(s, e)[m] = s[m]
           /\ (s \o <<e>>)[Len(s) + 1] = e /\ Append(s, e)[Len(s) + 1] = e
<1>1. Len(s) \in Nat /\ DOMAIN s = 1 .. Len(s)
  OBVIOUS
<1>2. /\ s \o <<e>> \in Seq(S)
      /\ Len(s \o <<e>>) = Len(s) + 1
      /\ \A m \in 1 .. Len(s) : (s \o <<e>>)[m] = s[m]
      /\ (s \o <<e>>)[Len(s) + 1] = e
  OBVIOUS
<1>3. /\ Append(s, e) \in Seq(S)
      /\ Len(Append(s, e)) = Len(s) + 1
      /\ \A m \in 1 .. Len(s) : Append(s, e)[m] = s[m]
      /\ Append(s, e)[Len(s) + 1] = e
  OBVIOUS
<1> QED
  BY <1>1, <1>2, <1>3

\* A package that is accepted adds its board to those read before it.
LEMMA ReadBoards ==
    ASSUME NEW w, IsWorkspace(w), NEW n \in DOMAIN w, NEW bo,
           BoardsRead(w, 1 .. (n - 1), bo),
           \A b \in w[n].board : /\ BoardParses(b) /\ validate_board_metadata(b)
                                 /\ b.id \notin DOMAIN bo,
           NEW new,
           new = [id \in DOMAIN bo \cup {b.id : b \in w[n].board} |->
                    IF id \in DOMAIN bo THEN bo[id]
                    ELSE [package |-> w[n].name, metadata |-> CHOOSE b \in w[n].board : TRUE]]
    PROVE  BoardsRead(w, 1 .. n, new)
<1>0. n \in Nat /\ 1 .. n = (1 .. (n - 1)) \cup {n} /\ n \notin 1 .. (n - 1)
  <2>1. n \in Nat \ {0}
    BY DEF IsWorkspace
  <2> QED
    BY <2>1
<1>1. /\ DOMAIN new = DOMAIN bo \cup {b.id : b \in w[n].board}
      /\ \A id \in DOMAIN bo : new[id] = bo[id]
  OBVIOUS
<1>2. ASSUME NEW b \in w[n].board
      PROVE  b.id \in DOMAIN new /\ new[b.id] = Entry(w[n], b)
  <2>1. (CHOOSE c \in w[n].board : TRUE) = b
    <3>1. (CHOOSE c \in w[n].board : TRUE) \in w[n].board
      OBVIOUS
    <3> QED
      BY <3>1 DEF IsWorkspace
  <2>2. b.id \notin DOMAIN bo /\ b.id \in DOMAIN new
    OBVIOUS
  <2> QED
    BY <2>1, <2>2 DEF Entry
<1>3. ASSUME NEW i \in 1 .. n, NEW b \in w[i].board
      PROVE  /\ BoardParses(b) /\ validate_board_metadata(b)
             /\ b.id \in DOMAIN new
             /\ new[b.id] = Entry(w[i], b)
  <2>1. CASE i = n
    BY <1>1, <1>2, <2>1
  <2>2. CASE i # n
    <3>1. i \in 1 .. (n - 1)
      BY <1>0, <2>2
    <3>2. /\ BoardParses(b) /\ validate_board_metadata(b)
          /\ b.id \in DOMAIN bo
          /\ bo[b.id] = Entry(w[i], b)
      BY <3>1 DEF BoardsRead
    <3> QED
      BY <1>1, <3>2
  <2> QED
    BY <2>1, <2>2
<1>4. ASSUME NEW id \in DOMAIN new
      PROVE  \E i \in 1 .. n : \E b \in w[i].board : b.id = id
  <2>1. CASE id \in DOMAIN bo
    <3>1. PICK i \in 1 .. (n - 1) : \E b \in w[i].board : b.id = id
      BY <2>1 DEF BoardsRead
    <3> QED
      BY <1>0, <3>1
  <2>2. CASE id \notin DOMAIN bo
    <3>1. \E b \in w[n].board : b.id = id
      BY <1>1, <2>2
    <3> QED
      BY <1>0, <3>1
  <2> QED
    BY <2>1, <2>2
<1> QED
  BY <1>3, <1>4 DEF BoardsRead

\* ... and its firmware to the firmware found before it.
LEMMA ReadFirmware ==
    ASSUME NEW w, IsWorkspace(w), NEW n \in DOMAIN w, NEW fo,
           FirmwareRead(w, 1 .. (n - 1), fo),
           \A f \in w[n].firmware : FirmwareParses(f),
           NEW added,
           added = SetToSeq({[package |-> w[n].name, metadata |-> f] : f \in w[n].firmware})
    PROVE  FirmwareRead(w, 1 .. n, fo \o added)
<1> DEFINE S == FirmwareOf(w)
           new == fo \o added
<1>0. n \in Nat /\ 1 .. n = (1 .. (n - 1)) \cup {n} /\ n \notin 1 .. (n - 1)
  <2>1. n \in Nat \ {0}
    BY DEF IsWorkspace
  <2> QED
    BY <2>1
<1>1. /\ fo \in Seq(S)
      /\ Len(fo) \in Nat
      /\ DOMAIN fo = 1 .. Len(fo)
  BY DEF FirmwareRead
<1>2. CASE w[n].firmware = {}
  <2>1. added = << >>
    BY <1>2, SequenceOfOption
  <2>2. new = fo
    <3> HIDE DEF S
    <3> QED
      BY <1>1, <2>1, NoMore
  <2> HIDE DEF new
  <2>3. FirmwareRead(w, 1 .. n, fo)
    BY <1>0, <1>2 DEF FirmwareRead
  <2> QED
    BY <2>2, <2>3 DEF new
<1>3. CASE w[n].firmware # {}
  <2>1. PICK f \in w[n].firmware : TRUE
    BY <1>3
  <2>2. \A g \in w[n].firmware : g = f
    BY DEF IsWorkspace
  <2> DEFINE e == Entry(w[n], f)
             last == Len(fo) + 1
  <2>3. {[package |-> w[n].name, metadata |-> g] : g \in w[n].firmware} = {e}
    BY <2>1, <2>2 DEF Entry
  <2>4. added = <<e>>
    BY <2>3, SequenceOfOption
  <2>5. e \in S
    BY DEF FirmwareOf
  <2>6. e.package = w[n].name /\ e.metadata = f
    BY DEF Entry
  <2> HIDE DEF e, S
  <2>7. /\ new \in Seq(S)
        /\ Len(new) = last
        /\ \A m \in 1 .. Len(fo) : new[m] = fo[m]
        /\ new[last] = e
    <3>1. new = fo \o <<e>>
      BY <2>4
    <3> HIDE DEF new
    <3> QED
      BY <1>1, <2>5, <3>1, OneMore
  <2> HIDE DEF new
  <2>8. DOMAIN new = DOMAIN fo \cup {last} /\ last \notin DOMAIN fo
    <3>1. DOMAIN new = 1 .. last
      BY <2>7
    <3>2. 1 .. last = (1 .. Len(fo)) \cup {last} /\ last \notin 1 .. Len(fo)
      BY <1>1
    <3> QED
      BY <1>1, <3>1, <3>2
  <2>9. \A m \in DOMAIN fo : new[m] = fo[m]
    BY <1>1, <2>7
  <2> HIDE DEF last
  <2>10. ASSUME NEW i \in 1 .. n, NEW g \in w[i].firmware
         PROVE  FirmwareParses(g) /\ \E m \in DOMAIN new : new[m] = Entry(w[i], g)
    <3>1. CASE i = n
      <4>1. g = f /\ FirmwareParses(g)
        BY <2>2, <3>1
      <4>2. last \in DOMAIN new /\ new[last] = Entry(w[i], g)
        BY <2>7, <2>8, <3>1, <4>1 DEF e
      <4> QED
        BY <4>1, <4>2
    <3>2. CASE i # n
      <4>1. i \in 1 .. (n - 1)
        BY <1>0, <3>2
      <4>2. FirmwareParses(g) /\ \E m \in DOMAIN fo : fo[m] = Entry(w[i], g)
        BY <4>1 DEF FirmwareRead
      <4> QED
        BY <2>8, <2>9, <4>2
    <3> QED
      BY <3>1, <3>2
  <2>11. ASSUME NEW m \in DOMAIN new
         PROVE  \E i \in 1 .. n : \E g \in w[i].firmware : new[m] = Entry(w[i], g)
    <3>1. CASE m = last
      BY <1>0, <2>1, <2>7, <3>1 DEF e
    <3>2. CASE m # last
      <4>1. m \in DOMAIN fo /\ new[m] = fo[m]
        BY <2>8, <2>9, <3>2
      <4>2. PICK i \in 1 .. (n - 1) : \E g \in w[i].firmware : fo[m] = Entry(w[i], g)
        BY <4>1 DEF FirmwareRead
      <4> QED
        BY <1>0, <4>1, <4>2
    <3> QED
      BY <3>1, <3>2
  <2>12. \A m \in DOMAIN fo : fo[m].package # w[n].name
    <3> SUFFICES ASSUME NEW m \in DOMAIN fo
                 PROVE  fo[m].package # w[n].name
      OBVIOUS
    <3>1. PICK i \in 1 .. (n - 1) : \E g \in w[i].firmware : fo[m] = Entry(w[i], g)
      BY DEF FirmwareRead
    <3>2. fo[m].package = w[i].name
      BY <3>1 DEF Entry
    <3>3. i \in DOMAIN w /\ i # n
      BY <1>0 DEF IsWorkspace
    <3> QED
      BY <3>2, <3>3 DEF IsWorkspace
  <2>13. \A m, k \in DOMAIN new : new[m].package = new[k].package => m = k
    <3>1. \A m, k \in DOMAIN fo : fo[m].package = fo[k].package => m = k
      BY DEF FirmwareRead
    <3> QED
      BY <2>6, <2>7, <2>8, <2>9, <2>12, <3>1
  <2> QED
    BY <2>7, <2>10, <2>11, <2>13 DEF FirmwareRead, S, new
<1> QED
  BY <1>2, <1>3

\* ... and its name to the exclusions, unless it is meant for the host.
LEMMA ReadExclusions ==
    ASSUME NEW w, IsWorkspace(w), NEW n \in DOMAIN w
    PROVE  Excluded(w, 1 .. n) =
             IF w[n].hostCheck /\ w[n].firmware = {} THEN Excluded(w, 1 .. (n - 1))
             ELSE Excluded(w, 1 .. (n - 1)) \cup {w[n].name}
<1>0. n \in Nat /\ 1 .. n = (1 .. (n - 1)) \cup {n}
  <2>1. n \in Nat \ {0}
    BY DEF IsWorkspace
  <2> QED
    BY <2>1
<1> QED
  BY <1>0 DEF Excluded

-----------------------------------------------------------------------------
(* What the workspace says, by the places of its packages.                 *)

ImageOf(e) ==
    [package |-> e.package, board |-> e.metadata.board,
     selector |-> firmware_selector(e.metadata.board, e.metadata.variant)]

\* Declared, Images and NotForTheHost, place by place.
LEMMA ByPlace ==
    /\ \A d : d \in Declared <=>
          \E i \in DOMAIN workspace : \E b \in workspace[i].board : d = Entry(workspace[i], b)
    /\ \A x : x \in Images <=>
          \E i \in DOMAIN workspace : \E f \in workspace[i].firmware :
             x = ImageOf(Entry(workspace[i], f))
    /\ NotForTheHost = Excluded(workspace, DOMAIN workspace)
<1>0. \A p : p \in Packages <=> \E i \in DOMAIN workspace : p = workspace[i]
  BY DEF Packages, Range
<1>1. \A d : d \in Declared <=>
        \E i \in DOMAIN workspace : \E b \in workspace[i].board : d = Entry(workspace[i], b)
  BY <1>0 DEF Declared, Entry
<1>2. \A p, f : ImageOf(Entry(p, f)) =
        [package |-> p.name, board |-> f.board,
         selector |-> firmware_selector(f.board, f.variant)]
  BY DEF ImageOf, Entry
<1>3. \A x : x \in Images <=>
        \E i \in DOMAIN workspace : \E f \in workspace[i].firmware :
           x = ImageOf(Entry(workspace[i], f))
  BY <1>0, <1>2 DEF Images
<1>4. NotForTheHost = Excluded(workspace, DOMAIN workspace)
  BY <1>0 DEF NotForTheHost, Excluded
<1> QED
  BY <1>1, <1>3, <1>4

\* A package that is refused is at fault, alone or with one read before it.
LEMMA RefusedPackage ==
    ASSUME IsWorkspace(workspace), NEW n \in DOMAIN workspace,
           BoardsRead(workspace, 1 .. (n - 1), boards),
           ~PackageAccepted(workspace[n])
    PROVE  ~WellFormed
<1> SUFFICES ASSUME WellFormed
             PROVE  PackageAccepted(workspace[n])
  OBVIOUS
<1>0. /\ \A i \in 1 .. (n - 1) : i \in DOMAIN workspace /\ i # n
      /\ workspace[n] \in Packages
  BY DEF IsWorkspace, Packages, Range
<1>1. ASSUME NEW b \in workspace[n].board
      PROVE  BoardParses(b) /\ validate_board_metadata(b) /\ b.id \notin DOMAIN boards
  <2>1. Entry(workspace[n], b) \in Declared /\ Entry(workspace[n], b).metadata = b
    BY ByPlace DEF Entry
  <2>2. BoardParses(b) /\ validate_board_metadata(b)
    BY <2>1 DEF WellFormed
  <2>3. ASSUME b.id \in DOMAIN boards
        PROVE  FALSE
    <3>1. PICK i \in 1 .. (n - 1) : \E c \in workspace[i].board : c.id = b.id
      BY <2>3 DEF BoardsRead
    <3>2. PICK c \in workspace[i].board : c.id = b.id
      BY <3>1
    <3>3. /\ Entry(workspace[i], c) \in Declared
          /\ Entry(workspace[i], c).metadata = c
      BY <1>0, ByPlace DEF Entry
    <3>4. Entry(workspace[i], c) = Entry(workspace[n], b)
      BY <2>1, <3>2, <3>3 DEF WellFormed
    <3>5. workspace[i].name = workspace[n].name
      BY <3>4 DEF Entry
    <3> QED
      BY <1>0, <3>5 DEF IsWorkspace
  <2> QED
    BY <2>2, <2>3
<1>2. ASSUME NEW f \in workspace[n].firmware
      PROVE  FirmwareParses(f)
  BY <1>0 DEF WellFormed, FirmwareParses
<1> QED
  BY <1>1, <1>2 DEF PackageAccepted

-----------------------------------------------------------------------------
(* What is known while firmware is registered, n being the next to be.     *)

Registered(bo, fo, n, fw) ==
    /\ n \in 1 .. (Len(fo) + 1)
    /\ fw \in Seq({ImageOf(fo[m]) : m \in DOMAIN fo})
    /\ Len(fw) = n - 1
    /\ \A m \in 1 .. (n - 1) :
          /\ fw[m] = ImageOf(fo[m])
          /\ fo[m].metadata.board \in DOMAIN bo
          /\ fo[m].metadata.variant \notin {Empty, Slashed}
    /\ \A m, k \in 1 .. (n - 1) : fw[m].selector = fw[k].selector => m = k

\* The firmware found is the workspace's, once each.
LEMMA FoundByPlace ==
    ASSUME IsWorkspace(workspace), FirmwareRead(workspace, DOMAIN workspace, found),
           NEW m \in DOMAIN found
    PROVE  \E i \in DOMAIN workspace : \E f \in workspace[i].firmware :
              /\ found[m] = Entry(workspace[i], f)
              /\ found[m].package = workspace[i].name
              /\ found[m].metadata = f
BY DEF FirmwareRead, Entry

\* Firmware that is refused is at fault, alone or with one registered before.
LEMMA RefusedFirmware ==
    ASSUME IsWorkspace(workspace),
           BoardsRead(workspace, DOMAIN workspace, boards),
           FirmwareRead(workspace, DOMAIN workspace, found),
           NEW n \in DOMAIN found, Registered(boards, found, n, firmware),
           ~FirmwareAccepted(found[n].metadata)
    PROVE  ~WellFormed
<1> SUFFICES ASSUME WellFormed
             PROVE  FirmwareAccepted(found[n].metadata)
  OBVIOUS
<1>0. PICK i \in DOMAIN workspace : \E f \in workspace[i].firmware :
          /\ found[n] = Entry(workspace[i], f)
          /\ found[n].package = workspace[i].name
          /\ found[n].metadata = f
  BY FoundByPlace
<1>1. PICK f \in workspace[i].firmware :
          /\ found[n] = Entry(workspace[i], f)
          /\ found[n].package = workspace[i].name
          /\ found[n].metadata = f
  BY <1>0
<1>2. /\ ImageOf(found[n]) \in Images
      /\ ImageOf(found[n]).board = f.board
      /\ ImageOf(found[n]).package = found[n].package
      /\ ImageOf(found[n]).selector = firmware_selector(f.board, f.variant)
  <2>1. ImageOf(found[n]) \in Images
    BY <1>1, ByPlace
  <2> QED
    BY <1>1, <2>1 DEF ImageOf
<1>3. f.board \in DOMAIN boards
  <2>1. PICK d \in Declared : d.metadata.id = f.board
    BY <1>2 DEF WellFormed
  <2>2. PICK j \in DOMAIN workspace : \E b \in workspace[j].board : d = Entry(workspace[j], b)
    BY <2>1, ByPlace
  <2>3. PICK b \in workspace[j].board : d = Entry(workspace[j], b)
    BY <2>2
  <2>4. b.id = f.board
    BY <2>1, <2>3 DEF Entry
  <2>5. b.id \in DOMAIN boards
    BY DEF BoardsRead
  <2> QED
    BY <2>4, <2>5
<1>4. f.variant \notin {Empty, Slashed}
  <2>1. workspace[i] \in Packages
    BY DEF Packages, Range
  <2> QED
    BY <2>1 DEF WellFormed
<1>5. ASSUME firmware_selector(f.board, f.variant) \in Selectors
      PROVE  FALSE
  <2>0. n \in Nat /\ Len(firmware) = n - 1 /\ DOMAIN firmware = 1 .. (n - 1)
        /\ DOMAIN found = 1 .. Len(found) /\ Len(found) \in Nat
    BY DEF Registered, FirmwareRead
  <2>1. PICK m \in 1 .. (n - 1) : firmware[m].selector = firmware_selector(f.board, f.variant)
    BY <1>5, <2>0 DEF Selectors
  <2>2. m \in DOMAIN found /\ m # n
    BY <2>0
  <2>3. firmware[m] = ImageOf(found[m])
    BY DEF Registered
  <2>4. ImageOf(found[m]) \in Images
    BY <2>2, FoundByPlace, ByPlace
  <2>5. ImageOf(found[m]) = ImageOf(found[n])
    BY <1>2, <2>1, <2>3, <2>4 DEF WellFormed
  <2>6. found[m].package = found[n].package
    BY <2>5 DEF ImageOf
  <2> QED
    BY <2>2, <2>6 DEF FirmwareRead
<1> QED
  BY <1>1, <1>3, <1>4, <1>5 DEF FirmwareAccepted

\* Firmware that is accepted joins the firmware registered before it.
LEMMA RegisterOne ==
    ASSUME FirmwareRead(workspace, DOMAIN workspace, found),
           NEW n \in DOMAIN found, Registered(boards, found, n, firmware),
           FirmwareAccepted(found[n].metadata)
    PROVE  Registered(boards, found, n + 1, Append(firmware, ImageOf(found[n])))
<1> DEFINE S == {ImageOf(found[m]) : m \in DOMAIN found}
           e == ImageOf(found[n])
           new == Append(firmware, e)
<1>0. /\ n \in Nat \ {0} /\ DOMAIN found = 1 .. Len(found) /\ Len(found) \in Nat
      /\ Len(firmware) = n - 1 /\ firmware \in Seq(S)
  BY DEF Registered, FirmwareRead
<1>1. e \in S
  OBVIOUS
<1>2. e.selector \notin Selectors
  BY DEF FirmwareAccepted, ImageOf
<1> HIDE DEF S, e
<1>3. /\ new \in Seq(S)
      /\ Len(new) = n
      /\ \A m \in 1 .. (n - 1) : new[m] = firmware[m]
      /\ new[n] = e
      /\ DOMAIN firmware = 1 .. (n - 1)
  <2>1. Len(firmware) + 1 = n
    BY <1>0
  <2> QED
    BY <1>0, <1>1, <2>1, OneMore
<1> HIDE DEF new
<1>4. 1 .. ((n + 1) - 1) = (1 .. (n - 1)) \cup {n}
  BY <1>0
<1>5. ASSUME NEW m \in 1 .. ((n + 1) - 1)
      PROVE  /\ new[m] = ImageOf(found[m])
             /\ found[m].metadata.board \in DOMAIN boards
             /\ found[m].metadata.variant \notin {Empty, Slashed}
  <2>1. CASE m = n
    BY <1>3, <2>1 DEF e, FirmwareAccepted
  <2>2. CASE m # n
    BY <1>3, <1>4, <2>2 DEF Registered
  <2> QED
    BY <2>1, <2>2
<1>6. \A m \in 1 .. (n - 1) : firmware[m].selector \in Selectors
  BY <1>3 DEF Selectors
<1>7. \A m, k \in 1 .. ((n + 1) - 1) : new[m].selector = new[k].selector => m = k
  <2>1. \A m, k \in 1 .. (n - 1) : firmware[m].selector = firmware[k].selector => m = k
    BY DEF Registered
  <2> QED
    BY <1>2, <1>3, <1>4, <1>6, <2>1
<1>8. n + 1 \in 1 .. (Len(found) + 1) /\ (n + 1) - 1 = n
  BY <1>0
<1> QED
  BY <1>3, <1>5, <1>7, <1>8 DEF Registered, new, S, e

\* Once everything is read and registered, the workspace was well formed and
\* the registry is the one of the set of its packages.
LEMMA Complete ==
    ASSUME IsWorkspace(workspace),
           BoardsRead(workspace, DOMAIN workspace, boards),
           FirmwareRead(workspace, DOMAIN workspace, found),
           exclusions = Excluded(workspace, DOMAIN workspace),
           Registered(boards, found, Len(found) + 1, firmware)
    PROVE  /\ WellFormed
           /\ Range(boards) = Declared
           /\ \A id \in DOMAIN boards : boards[id].metadata.id = id
           /\ Range(firmware) = Images
           /\ exclusions = NotForTheHost
<1>0. /\ Len(found) \in Nat /\ DOMAIN found = 1 .. Len(found)
      /\ DOMAIN firmware = DOMAIN found
      /\ \A m \in DOMAIN found :
            /\ firmware[m] = ImageOf(found[m])
            /\ found[m].metadata.board \in DOMAIN boards
            /\ found[m].metadata.variant \notin {Empty, Slashed}
      /\ \A m, k \in DOMAIN found : firmware[m].selector = firmware[k].selector => m = k
  <2>1. Len(found) \in Nat /\ DOMAIN found = 1 .. Len(found)
    BY DEF FirmwareRead
  <2>2. (Len(found) + 1) - 1 = Len(found)
    BY <2>1
  <2>3. Len(firmware) = Len(found) /\ DOMAIN firmware = 1 .. Len(firmware)
    BY <2>2 DEF Registered
  <2> QED
    BY <2>1, <2>2, <2>3 DEF Registered
<1>1. /\ \A i \in DOMAIN workspace : \A b \in workspace[i].board :
            /\ BoardParses(b) /\ validate_board_metadata(b)
            /\ b.id \in DOMAIN boards
            /\ boards[b.id] = Entry(workspace[i], b)
      /\ \A id \in DOMAIN boards : \E i \in DOMAIN workspace : \E b \in workspace[i].board : b.id = id
  BY DEF BoardsRead
<1>2. ASSUME NEW id \in DOMAIN boards
      PROVE  boards[id] \in Declared /\ boards[id].metadata.id = id
  <2>1. PICK i \in DOMAIN workspace : \E b \in workspace[i].board : b.id = id
    BY <1>1
  <2>2. PICK b \in workspace[i].board : b.id = id
    BY <2>1
  <2>3. boards[id] = Entry(workspace[i], b)
    BY <1>1, <2>2
  <2>4. boards[id] \in Declared
    BY <2>3, ByPlace
  <2>5. boards[id].metadata = b
    BY <2>3 DEF Entry
  <2> QED
    BY <2>2, <2>4, <2>5
<1>3. ASSUME NEW d \in Declared
      PROVE  /\ BoardParses(d.metadata) /\ validate_board_metadata(d.metadata)
             /\ d.metadata.id \in DOMAIN boards
             /\ boards[d.metadata.id] = d
  <2>1. PICK i \in DOMAIN workspace : \E b \in workspace[i].board : d = Entry(workspace[i], b)
    BY ByPlace
  <2>2. PICK b \in workspace[i].board : d = Entry(workspace[i], b)
    BY <2>1
  <2>3. d.metadata = b
    BY <2>2 DEF Entry
  <2>4. BoardParses(b) /\ validate_board_metadata(b) /\ b.id \in DOMAIN boards
    BY <1>1
  <2>5. boards[b.id] = d
    BY <1>1, <2>2
  <2> QED
    BY <2>3, <2>4, <2>5
<1>4. Range(boards) = Declared
  BY <1>2, <1>3 DEF Range
<1>5. \A d, e \in Declared : d.metadata.id = e.metadata.id => d = e
  BY <1>3
<1>6. ASSUME NEW i \in DOMAIN workspace, NEW f \in workspace[i].firmware
      PROVE  \E m \in DOMAIN found :
                /\ found[m] = Entry(workspace[i], f)
                /\ found[m].metadata = f
                /\ firmware[m] = ImageOf(Entry(workspace[i], f))
  <2>1. PICK m \in DOMAIN found : found[m] = Entry(workspace[i], f)
    BY DEF FirmwareRead
  <2>2. found[m].metadata = f
    BY <2>1 DEF Entry
  <2>3. firmware[m] = ImageOf(found[m])
    BY <1>0
  <2> QED
    BY <2>1, <2>2, <2>3
<1>7. ASSUME NEW x \in Images
      PROVE  \E m \in DOMAIN found : x = firmware[m]
  BY <1>6, ByPlace
<1>8. ASSUME NEW m \in DOMAIN found
      PROVE  firmware[m] \in Images
  BY <1>0, FoundByPlace, ByPlace
<1>9. Range(firmware) = Images
  BY <1>0, <1>7, <1>8 DEF Range
<1>10. \A x, y \in Images : x.selector = y.selector => x = y
  BY <1>0, <1>7
<1>11. ASSUME NEW x \in Images
       PROVE  \E d \in Declared : d.metadata.id = x.board
  <2>1. PICK m \in DOMAIN found : x = firmware[m]
    BY <1>7
  <2>2. x.board = found[m].metadata.board
    BY <1>0, <2>1 DEF ImageOf
  <2>3. x.board \in DOMAIN boards
    BY <1>0, <2>2
  <2> QED
    BY <1>2, <2>3
<1>12. ASSUME NEW p \in Packages, NEW f \in p.firmware
       PROVE  {f.board, f.variant} \cap {Empty, Slashed, Missing} = {}
  <2>1. PICK i \in DOMAIN workspace : p = workspace[i]
    BY DEF Packages, Range
  <2>2. PICK m \in DOMAIN found : found[m].metadata = f
    BY <1>6, <2>1
  <2>3. FirmwareParses(f)
    BY <2>1 DEF FirmwareRead
  <2>4. f.board \in DOMAIN boards /\ f.variant \notin {Empty, Slashed}
    BY <1>0, <2>2
  <2>5. PICK d \in Declared : d.metadata.id = f.board
    BY <1>2, <2>4
  <2>6. f.board \notin {Empty, Slashed}
    BY <1>3, <2>5 DEF validate_board_metadata
  <2> QED
    BY <2>3, <2>4, <2>6 DEF FirmwareParses
<1>13. WellFormed
  BY <1>3, <1>5, <1>10, <1>11, <1>12 DEF WellFormed
<1> QED
  BY <1>2, <1>4, <1>9, <1>13, ByPlace

-----------------------------------------------------------------------------
(* The inductive invariant: what from_packages knows at each stage.        *)

ReadingPackages ==
    /\ next \in 1 .. (Len(workspace) + 1)
    /\ BoardsRead(workspace, 1 .. (next - 1), boards)
    /\ FirmwareRead(workspace, 1 .. (next - 1), found)
    /\ exclusions = Excluded(workspace, 1 .. (next - 1))
    /\ firmware = << >>
    /\ result = "running"

RegisteringFirmware ==
    /\ BoardsRead(workspace, DOMAIN workspace, boards)
    /\ FirmwareRead(workspace, DOMAIN workspace, found)
    /\ exclusions = Excluded(workspace, DOMAIN workspace)
    /\ Registered(boards, found, next, firmware)
    /\ result = "running"

\* The registry of the set of the packages.
RegistryOfSet ==
    /\ WellFormed
    /\ Range(boards) = Declared /\ \A id \in DOMAIN boards : boards[id].metadata.id = id
    /\ firmware = BySelector(Images)
    /\ exclusions = NotForTheHost

DiscoveryInv ==
    /\ IsWorkspace(workspace)
    /\ stage \in {"packages", "firmware", "ready", "commands", "ended"}
    /\ stage = "packages" => ReadingPackages
    /\ stage = "firmware" => RegisteringFirmware
    /\ stage \in {"ready", "commands"} => result = "running" /\ RegistryOfSet
    /\ result = "refused" => ~WellFormed
    /\ result \in {"success", "unknown", "failed"} => RegistryOfSet

\* What a workspace says does not change while the workspace does not.
LEMMA SaysTheSame ==
    ASSUME workspace' = workspace
    PROVE  /\ WellFormed' <=> WellFormed
           /\ Declared' = Declared /\ Images' = Images /\ NotForTheHost' = NotForTheHost
<1>1. Declared' = Declared /\ Images' = Images /\ NotForTheHost' = NotForTheHost
  BY DEF Declared, Images, NotForTheHost, Packages
<1>2. Packages' = Packages
  BY DEF Packages
<1> QED
  BY <1>1, <1>2 DEF WellFormed

\* Nor does the registry, as long as nothing is registered.
LEMMA RegistryStays ==
    ASSUME workspace' = workspace, boards' = boards, firmware' = firmware,
           exclusions' = exclusions
    PROVE  RegistryOfSet' <=> RegistryOfSet
BY SaysTheSame DEF RegistryOfSet

\* The registry is empty before the first package.
LEMMA DiscoveryStarts == BuildInit => DiscoveryInv
<1> SUFFICES ASSUME BuildInit
             PROVE  DiscoveryInv
  OBVIOUS
<1>1. IsWorkspace(workspace)
  BY WorkspacesAssumption DEF BuildInit, IsWorkspace
<1>2. next \in 1 .. (Len(workspace) + 1) /\ 1 .. (next - 1) = {}
  <2>1. Len(workspace) \in Nat
    BY <1>1 DEF IsWorkspace
  <2> QED
    BY <2>1 DEF BuildInit
<1>3. BoardsRead(workspace, {}, boards)
  BY DEF BuildInit, BoardsRead
<1>4. FirmwareRead(workspace, {}, found)
  <2>1. << >> \in Seq(FirmwareOf(workspace)) /\ DOMAIN << >> = {}
    OBVIOUS
  <2> QED
    BY <2>1 DEF BuildInit, FirmwareRead
<1>5. exclusions = Excluded(workspace, {})
  BY DEF BuildInit, Excluded
<1>6. ReadingPackages
  BY <1>2, <1>3, <1>4, <1>5 DEF ReadingPackages, BuildInit
<1> QED
  BY <1>1, <1>6 DEF DiscoveryInv, BuildInit

\* A package that is read leaves one package less to read.
LEMMA PackageReadKeeps == DiscoveryInv /\ PackageRead => DiscoveryInv'
<1> SUFFICES ASSUME DiscoveryInv, PackageRead
             PROVE  DiscoveryInv'
  OBVIOUS
<1> USE DEF PackageRead
<1>1. ReadingPackages /\ IsWorkspace(workspace) /\ workspace' = workspace
  BY DEF DiscoveryInv
<1>2. next \in DOMAIN workspace /\ next' = next + 1 /\ next \in Nat /\ Len(workspace) \in Nat
  BY <1>1 DEF ReadingPackages, IsWorkspace
<1>3. (next' - 1) = next /\ next' \in 1 .. (Len(workspace) + 1)
  BY <1>2
<1>4. PackageAccepted(workspace[next])
  OBVIOUS
<1>5. BoardsRead(workspace, 1 .. next, boards')
  BY <1>1, <1>2, <1>4, ReadBoards DEF PackageAccepted, ReadingPackages
<1>6. FirmwareRead(workspace, 1 .. next, found')
  BY <1>1, <1>2, <1>4, ReadFirmware DEF PackageAccepted, ReadingPackages
<1>7. exclusions' = Excluded(workspace, 1 .. next)
  BY <1>1, <1>2, ReadExclusions DEF ReadingPackages
<1>8. ReadingPackages'
  BY <1>1, <1>3, <1>5, <1>6, <1>7 DEF ReadingPackages
<1> QED
  BY <1>1, <1>8 DEF DiscoveryInv, ReadingPackages

\* After the last package, all of them are read and no firmware registered.
LEMMA PackagesReadKeeps == DiscoveryInv /\ PackagesRead => DiscoveryInv'
<1> SUFFICES ASSUME DiscoveryInv, PackagesRead
             PROVE  DiscoveryInv'
  OBVIOUS
<1> USE DEF PackagesRead
<1>1. ReadingPackages /\ IsWorkspace(workspace) /\ workspace' = workspace
  BY DEF DiscoveryInv
<1>2. Len(workspace) \in Nat /\ DOMAIN workspace = 1 .. Len(workspace)
  BY <1>1 DEF IsWorkspace
<1>3. 1 .. (next - 1) = DOMAIN workspace
  BY <1>1, <1>2 DEF ReadingPackages
<1>4. Registered(boards, found, 1, << >>)
  <2>1. Len(found) \in Nat
    BY <1>1 DEF ReadingPackages, FirmwareRead
  <2>2. << >> \in Seq({ImageOf(found[m]) : m \in DOMAIN found}) /\ Len(<< >>) = 0
    OBVIOUS
  <2>3. 1 \in 1 .. (Len(found) + 1) /\ 1 - 1 = 0 /\ 1 .. 0 = {}
    BY <2>1
  <2> QED
    BY <2>2, <2>3 DEF Registered
<1>5. RegisteringFirmware'
  BY <1>1, <1>3, <1>4 DEF ReadingPackages, RegisteringFirmware
<1> QED
  BY <1>1, <1>5 DEF DiscoveryInv, RegisteringFirmware

\* Firmware that is registered leaves one image less to register.
LEMMA FirmwareRegisteredKeeps == DiscoveryInv /\ FirmwareRegistered => DiscoveryInv'
<1> SUFFICES ASSUME DiscoveryInv, FirmwareRegistered
             PROVE  DiscoveryInv'
  OBVIOUS
<1> USE DEF FirmwareRegistered
<1>1. RegisteringFirmware /\ IsWorkspace(workspace) /\ workspace' = workspace
  BY DEF DiscoveryInv
<1>2. next \in DOMAIN found
  <2>1. Len(found) \in Nat /\ DOMAIN found = 1 .. Len(found) /\ next \in 1 .. (Len(found) + 1)
    BY <1>1 DEF RegisteringFirmware, FirmwareRead, Registered
  <2> QED
    BY <2>1
<1>3. firmware' = Append(firmware, ImageOf(found[next]))
  BY DEF ImageOf
<1>4. Registered(boards, found, next + 1, firmware')
  BY <1>1, <1>2, <1>3, RegisterOne DEF RegisteringFirmware
<1>5. RegisteringFirmware'
  BY <1>1, <1>4 DEF RegisteringFirmware
<1> QED
  BY <1>1, <1>5 DEF DiscoveryInv, RegisteringFirmware

\* After the last image the registry is complete, and is sorted.
LEMMA DiscoveredKeeps == DiscoveryInv /\ Discovered => DiscoveryInv'
<1> SUFFICES ASSUME DiscoveryInv, Discovered
             PROVE  DiscoveryInv'
  OBVIOUS
<1> USE DEF Discovered
<1>1. RegisteringFirmware /\ IsWorkspace(workspace) /\ workspace' = workspace
  BY DEF DiscoveryInv
<1>2. next = Len(found) + 1
  <2>1. Len(found) \in Nat /\ next \in 1 .. (Len(found) + 1)
    BY <1>1 DEF RegisteringFirmware, FirmwareRead, Registered
  <2> QED
    BY <2>1
<1>3. /\ WellFormed
      /\ Range(boards) = Declared
      /\ \A id \in DOMAIN boards : boards[id].metadata.id = id
      /\ Range(firmware) = Images
      /\ exclusions = NotForTheHost
  BY <1>1, <1>2, Complete DEF RegisteringFirmware
<1>4. firmware' = BySelector(Images)
  BY <1>3
<1>5. RegistryOfSet'
  BY <1>1, <1>3, <1>4, SaysTheSame DEF RegistryOfSet
<1>6. result' = "running"
  BY <1>1 DEF RegisteringFirmware
<1> QED
  BY <1>1, <1>5, <1>6 DEF DiscoveryInv

\* A refusal finds a fault of the workspace.
LEMMA RefusalKeeps == DiscoveryInv /\ (PackageRefused \/ FirmwareRefused) => DiscoveryInv'
<1> SUFFICES ASSUME DiscoveryInv, PackageRefused \/ FirmwareRefused
             PROVE  DiscoveryInv'
  OBVIOUS
<1>1. IsWorkspace(workspace) /\ workspace' = workspace
  BY DEF DiscoveryInv, PackageRefused, FirmwareRefused
<1>2. CASE PackageRefused
  <2>1. ReadingPackages /\ ~PackageAccepted(workspace[next])
    BY <1>2 DEF DiscoveryInv, PackageRefused
  <2>2. next \in DOMAIN workspace
    BY <1>1, <1>2, <2>1 DEF ReadingPackages, IsWorkspace, PackageRefused
  <2>3. ~WellFormed
    BY <1>1, <2>1, <2>2, RefusedPackage DEF ReadingPackages
  <2> QED
    BY <1>1, <1>2, <2>3, SaysTheSame DEF DiscoveryInv, PackageRefused
<1>3. CASE FirmwareRefused
  <2>1. RegisteringFirmware /\ ~FirmwareAccepted(found[next].metadata)
    BY <1>3 DEF DiscoveryInv, FirmwareRefused
  <2>2. next \in DOMAIN found
    <3>1. Len(found) \in Nat /\ DOMAIN found = 1 .. Len(found) /\ next \in 1 .. (Len(found) + 1)
      BY <2>1 DEF RegisteringFirmware, FirmwareRead, Registered
    <3> QED
      BY <1>3, <3>1 DEF FirmwareRefused
  <2>3. ~WellFormed
    BY <1>1, <2>1, <2>2, RefusedFirmware DEF RegisteringFirmware
  <2> QED
    BY <1>1, <1>3, <2>3, SaysTheSame DEF DiscoveryInv, FirmwareRefused
<1> QED
  BY <1>2, <1>3

\* A task reads the registry and leaves it alone.
LEMMA TaskKeeps ==
    DiscoveryInv /\ (TaskStarted \/ TaskRefused \/ CommandDone \/ CommandFailed) => DiscoveryInv'
<1> SUFFICES ASSUME DiscoveryInv, TaskStarted \/ TaskRefused \/ CommandDone \/ CommandFailed
             PROVE  DiscoveryInv'
  OBVIOUS
<1>1. /\ workspace' = workspace /\ boards' = boards
      /\ firmware' = firmware /\ exclusions' = exclusions
      /\ stage \in {"ready", "commands"}
      /\ \/ stage' = "commands" /\ result' = result
         \/ stage' = "ended" /\ result' \in {"success", "unknown", "failed"}
  BY DEF TaskStarted, TaskRefused, CommandDone, CommandFailed
<1>2. RegistryOfSet /\ result = "running" /\ IsWorkspace(workspace)
  BY <1>1 DEF DiscoveryInv
<1>3. RegistryOfSet'
  BY <1>1, <1>2, RegistryStays
<1> QED
  BY <1>1, <1>2, <1>3 DEF DiscoveryInv

\* Every step keeps what discovery knows.
LEMMA DiscoveryInductive == DiscoveryInv /\ [BuildNext]_bvars => DiscoveryInv'
<1> SUFFICES ASSUME DiscoveryInv, [BuildNext]_bvars
             PROVE  DiscoveryInv'
  OBVIOUS
<1>1. CASE MetadataUnreadable
  BY <1>1 DEF DiscoveryInv, MetadataUnreadable
<1>2. CASE PackageRefused \/ FirmwareRefused
  BY <1>2, RefusalKeeps
<1>3. CASE PackageRead
  BY <1>3, PackageReadKeeps
<1>4. CASE PackagesRead
  BY <1>4, PackagesReadKeeps
<1>5. CASE FirmwareRegistered
  BY <1>5, FirmwareRegisteredKeeps
<1>6. CASE Discovered
  BY <1>6, DiscoveredKeeps
<1>7. CASE TaskStarted \/ TaskRefused \/ CommandDone \/ CommandFailed
  BY <1>7, TaskKeeps
<1>8. CASE UNCHANGED bvars
  <2>1. /\ workspace' = workspace /\ stage' = stage /\ next' = next /\ boards' = boards
        /\ found' = found /\ firmware' = firmware /\ exclusions' = exclusions
        /\ result' = result
    BY <1>8 DEF bvars
  <2>2. (RegistryOfSet' <=> RegistryOfSet) /\ (WellFormed' <=> WellFormed)
    BY <2>1, RegistryStays, SaysTheSame
  <2>3. (ReadingPackages' <=> ReadingPackages) /\ (RegisteringFirmware' <=> RegisteringFirmware)
    BY <2>1 DEF ReadingPackages, RegisteringFirmware
  <2> QED
    BY <2>1, <2>2, <2>3 DEF DiscoveryInv
<1> QED
  BY <1>1, <1>2, <1>3, <1>4, <1>5, <1>6, <1>7, <1>8 DEF BuildNext

\* Discovery does not depend on the order in which cargo reports the packages:
\* Registry::from_packages refuses a workspace exactly when a package, or a pair
\* of packages, is at fault, and otherwise gives the registry of their set.
THEOREM DiscoveryOrderFree == BuildSpec => []DiscoveryIsOrderFree
<1>1. DiscoveryInv => DiscoveryIsOrderFree
  BY DEF DiscoveryInv, DiscoveryIsOrderFree, RegistryOfSet
<1> QED
  BY <1>1, DiscoveryStarts, DiscoveryInductive, PTL DEF BuildSpec

-----------------------------------------------------------------------------
(* Sorting.  The order of a finite set S is given by what comes before each *)
(* of its elements.                                                        *)

IsOrder(S, before) ==
    /\ IsFiniteSet(S)
    /\ before \in [S -> SUBSET S]
    /\ \A x \in S : x \notin before[x]
    /\ \A x, y \in S : x \in before[y] => before[x] \subseteq before[y]
    /\ \A x, y \in S : x = y \/ x \in before[y] \/ y \in before[x]

\* The sequence s goes through S once.
Enumerates(s, S) == s \in Seq(S) /\ Range(s) = S /\ Len(s) = Cardinality(S)

\* Counting what comes before an element numbers the elements of an order.
LEMMA RanksAreOnto ==
    ASSUME NEW S, NEW before, IsOrder(S, before)
    PROVE  /\ Cardinality(S) \in Nat
           /\ \A x \in S : Cardinality(before[x]) \in 0 .. (Cardinality(S) - 1)
           /\ \A x, y \in S : x \in before[y] => Cardinality(before[x]) < Cardinality(before[y])
           /\ \A x, y \in S : Cardinality(before[x]) = Cardinality(before[y]) => x = y
           /\ \A r \in 0 .. (Cardinality(S) - 1) : \E x \in S : Cardinality(before[x]) = r
<1>0. /\ IsFiniteSet(S)
      /\ \A x \in S : before[x] \in SUBSET S /\ x \notin before[x]
      /\ \A x, y \in S : x \in before[y] => before[x] \subseteq before[y]
      /\ \A x, y \in S : x = y \/ x \in before[y] \/ y \in before[x]
  BY DEF IsOrder
<1>1. \A x \in S : IsFiniteSet(before[x]) /\ Cardinality(before[x]) \in Nat
  BY <1>0, FS_Subset, FS_CardinalityType
<1>2. Cardinality(S) \in Nat
  BY <1>0, FS_CardinalityType
<1>3. \A x \in S : Cardinality(before[x]) < Cardinality(S)
  <2> SUFFICES ASSUME NEW x \in S
               PROVE  Cardinality(before[x]) < Cardinality(S)
    OBVIOUS
  <2>1. /\ Cardinality(before[x]) <= Cardinality(S)
        /\ Cardinality(S) = Cardinality(before[x]) => S = before[x]
    BY <1>0, FS_Subset
  <2> QED
    BY <1>0, <1>1, <1>2, <2>1
<1>4. \A x, y \in S : x \in before[y] => Cardinality(before[x]) < Cardinality(before[y])
  <2> SUFFICES ASSUME NEW x \in S, NEW y \in S, x \in before[y]
               PROVE  Cardinality(before[x]) < Cardinality(before[y])
    OBVIOUS
  <2>1. before[x] \in SUBSET before[y] /\ before[x] # before[y]
    BY <1>0
  <2>2. /\ Cardinality(before[x]) <= Cardinality(before[y])
        /\ Cardinality(before[y]) = Cardinality(before[x]) => before[y] = before[x]
    BY <1>1, <2>1, FS_Subset
  <2> QED
    BY <1>1, <2>1, <2>2
<1>5. \A x, y \in S : Cardinality(before[x]) = Cardinality(before[y]) => x = y
  BY <1>0, <1>1, <1>4
<1>6. \A x \in S : Cardinality(before[x]) \in 0 .. (Cardinality(S) - 1)
  BY <1>1, <1>2, <1>3
<1>7. \A r \in 0 .. (Cardinality(S) - 1) : \E x \in S : Cardinality(before[x]) = r
  <2> DEFINE T == 0 .. (Cardinality(S) - 1)
             f == [x \in S |-> Cardinality(before[x])]
  <2>1. IsFiniteSet(T) /\ Cardinality(T) = Cardinality(S)
    BY <1>2, FS_Interval
  <2>2. f \in Injection(S, T)
    BY <1>5, <1>6 DEF Injection, IsInjective
  <2>3. f \in Surjection(S, T)
    <3> HIDE DEF f, T
    <3> QED
      BY <1>0, <2>1, <2>2, FS_Injection, Zenon
  <2>4. \A r \in T : \E x \in S : f[x] = r
    <3> HIDE DEF f, T
    <3> QED
      BY <2>3 DEF Surjection
  <2> QED
    BY <2>4
<1> QED
  BY <1>2, <1>4, <1>5, <1>6, <1>7

\* Going through the elements by their numbers goes through the set,
\* each element after those that come before it.
LEMMA NumberingEnumerates ==
    ASSUME NEW S, NEW before, IsOrder(S, before), NEW s \in [1 .. Cardinality(S) -> S],
           \A n \in 1 .. Cardinality(S) : Cardinality(before[s[n]]) = n - 1
    PROVE  /\ Enumerates(s, S)
           /\ \A i, j \in 1 .. Cardinality(S) : i < j => s[i] \in before[s[j]]
<1> DEFINE c == Cardinality(S)
           r == [x \in S |-> Cardinality(before[x])]
<1>1. /\ c \in Nat
      /\ \A x \in S : r[x] \in 0 .. (c - 1)
      /\ \A x, y \in S : x \in before[y] => r[x] < r[y]
      /\ \A x, y \in S : r[x] = r[y] => x = y
      /\ \A x, y \in S : x = y \/ x \in before[y] \/ y \in before[x]
  BY RanksAreOnto DEF IsOrder
<1>2. s \in [1 .. c -> S] /\ \A n \in 1 .. c : r[s[n]] = n - 1
  OBVIOUS
<1> HIDE DEF c, r
<1>3. s \in Seq(S) /\ Len(s) = c /\ DOMAIN s = 1 .. c
  BY <1>1, <1>2
<1>4. Range(s) = S
  <2>1. \A x \in S : \E n \in 1 .. c : s[n] = x
    <3> SUFFICES ASSUME NEW x \in S
                 PROVE  \E n \in 1 .. c : s[n] = x
      OBVIOUS
    <3>1. r[x] + 1 \in 1 .. c /\ (r[x] + 1) - 1 = r[x]
      BY <1>1
    <3>2. s[r[x] + 1] \in S /\ r[s[r[x] + 1]] = r[x]
      BY <1>2, <3>1
    <3> QED
      BY <1>1, <3>1, <3>2
  <2> QED
    BY <1>2, <1>3, <2>1 DEF Range
<1>5. \A i, j \in 1 .. c : i < j => s[i] \in before[s[j]]
  <2> SUFFICES ASSUME NEW i \in 1 .. c, NEW j \in 1 .. c, i < j
               PROVE  s[i] \in before[s[j]]
    OBVIOUS
  <2>0. s[i] \in S /\ s[j] \in S /\ r[s[i]] = i - 1 /\ r[s[j]] = j - 1
    BY <1>2
  <2>1. r[s[i]] < r[s[j]] /\ r[s[i]] \in Int /\ r[s[j]] \in Int /\ s[i] \in S /\ s[j] \in S
    BY <2>0
  <2>2. s[i] # s[j]
    BY <2>1
  <2>3. s[j] \notin before[s[i]]
    BY <1>1, <2>1
  <2> QED
    BY <1>1, <2>1, <2>2, <2>3
<1> QED
  BY <1>3, <1>4, <1>5 DEF Enumerates, c

\* Choosing the elements by their numbers enumerates the set.
LEMMA ChoosingEnumerates ==
    ASSUME NEW S, NEW before, IsOrder(S, before)
    PROVE  Enumerates(Sorted(S, before), S)
<1> DEFINE c == Cardinality(S)
           s == [n \in 1 .. c |-> CHOOSE x \in S : Cardinality(before[x]) = n - 1]
<1>1. /\ c \in Nat
      /\ \A k \in 0 .. (c - 1) : \E x \in S : Cardinality(before[x]) = k
  BY RanksAreOnto
<1> HIDE DEF c
<1>2. ASSUME NEW n \in 1 .. c
      PROVE  s[n] \in S /\ Cardinality(before[s[n]]) = n - 1
  <2>1. n - 1 \in 0 .. (c - 1)
    BY <1>1
  <2>2. \E x \in S : Cardinality(before[x]) = n - 1
    BY <1>1, <2>1
  <2> QED
    BY <2>2
<1>3. s \in [1 .. c -> S]
  BY <1>2
<1> HIDE DEF s
<1>4. Enumerates(s, S)
  BY <1>2, <1>3, NumberingEnumerates DEF c
<1> QED
  BY <1>4 DEF Sorted, s, c

\* Numbers are ordered by <.
LEMMA NumbersSorted ==
    ASSUME NEW P \in SUBSET Nat, IsFiniteSet(P)
    PROVE  Enumerates(Sorted(P, [i \in P |-> {j \in P : j < i}]), P)
<1> DEFINE before == [x \in P |-> {y \in P : y < x}]
<1>1. before \in [P -> SUBSET P] /\ \A x, y \in P : y \in before[x] <=> y < x
  OBVIOUS
<1>2. \A x \in P : x \in Nat
  OBVIOUS
<1>3. IsOrder(P, before)
  <2> HIDE DEF before
  <2>1. \A x, y, z \in P : z < y /\ y < x => z < x
    BY <1>2
  <2>2. \A x, y \in P : y \in before[x] => before[y] \subseteq before[x]
    BY <1>1, <2>1
  <2>3. \A x, y \in P : ~(x < x) /\ (x = y \/ x < y \/ y < x)
    BY <1>2
  <2> QED
    BY <1>1, <2>2, <2>3 DEF IsOrder
<1>4. Enumerates(Sorted(P, before), P)
  <2> HIDE DEF before
  <2> QED
    BY <1>3, ChoosingEnumerates
<1> QED
  BY <1>4

\* Boards are ordered by their ids.
LEMMA BoardsSorted ==
    ASSUME NEW S, IsFiniteSet(S),
           \A b \in S : b.metadata.id \in Nat,
           \A b, c \in S : b.metadata.id = c.metadata.id => b = c
    PROVE  Enumerates(Sorted(S, [b \in S |-> {c \in S : c.metadata.id < b.metadata.id}]), S)
<1> DEFINE before == [b \in S |-> {c \in S : c.metadata.id < b.metadata.id}]
<1>1. /\ before \in [S -> SUBSET S]
      /\ \A x, y \in S : y \in before[x] <=> y.metadata.id < x.metadata.id
  OBVIOUS
<1>2. IsOrder(S, before)
  <2> HIDE DEF before
  <2>1. \A x, y, z \in S : z.metadata.id < y.metadata.id /\ y.metadata.id < x.metadata.id
                             => z.metadata.id < x.metadata.id
    OBVIOUS
  <2>2. \A x, y \in S : y \in before[x] => before[y] \subseteq before[x]
    BY <1>1, <2>1
  <2>3. \A x, y \in S : /\ ~(x.metadata.id < x.metadata.id)
                        /\ x = y \/ x.metadata.id < y.metadata.id \/ y.metadata.id < x.metadata.id
    OBVIOUS
  <2> QED
    BY <1>1, <2>2, <2>3 DEF IsOrder
<1>3. Enumerates(Sorted(S, before), S)
  <2> HIDE DEF before
  <2> QED
    BY <1>2, ChoosingEnumerates
<1> QED
  BY <1>3

\* A selector of one or two texts.
IsSelector(s) == \E b, v \in Nat : s = <<b>> \/ s = <<b, v>>

\* Selectors are ordered by SortsBefore.
LEMMA SelectorOrder ==
    ASSUME NEW s, NEW t, NEW u, IsSelector(s), IsSelector(t), IsSelector(u)
    PROVE  /\ ~SortsBefore(s, s)
           /\ s = t \/ SortsBefore(s, t) \/ SortsBefore(t, s)
           /\ SortsBefore(s, t) /\ SortsBefore(t, u) => SortsBefore(s, u)
<1> DEFINE Shape(x) == \/ Len(x) = 1 /\ x[1] \in Nat /\ x = <<x[1]>>
                       \/ Len(x) = 2 /\ x[1] \in Nat /\ x[2] \in Nat /\ x = <<x[1], x[2]>>
<1>1. ASSUME NEW x, IsSelector(x)
      PROVE  Shape(x)
  <2>1. PICK b \in Nat, v \in Nat : x = <<b>> \/ x = <<b, v>>
    BY <1>1 DEF IsSelector
  <2> QED
    BY <2>1
<1>2. Shape(s) /\ Shape(t) /\ Shape(u)
  BY <1>1
<1>3. ~SortsBefore(s, s)
  BY <1>2 DEF SortsBefore
<1>4. s = t \/ SortsBefore(s, t) \/ SortsBefore(t, s)
  BY <1>2 DEF SortsBefore
<1>5. SortsBefore(s, t) /\ SortsBefore(t, u) => SortsBefore(s, u)
  BY <1>2 DEF SortsBefore
<1> QED
  BY <1>3, <1>4, <1>5

\* Images are ordered by their selectors.
LEMMA ImagesSorted ==
    ASSUME NEW S, IsFiniteSet(S),
           \A f \in S : IsSelector(f.selector),
           \A f, g \in S : f.selector = g.selector => f = g
    PROVE  Enumerates(BySelector(S), S)
<1> DEFINE before == [f \in S |-> {g \in S : SortsBefore(g.selector, f.selector)}]
<1>1. /\ before \in [S -> SUBSET S]
      /\ \A x, y \in S : y \in before[x] <=> SortsBefore(y.selector, x.selector)
  OBVIOUS
<1>2. IsOrder(S, before)
  <2> HIDE DEF before
  <2>1. \A x, y, z \in S : SortsBefore(z.selector, y.selector) /\ SortsBefore(y.selector, x.selector)
                             => SortsBefore(z.selector, x.selector)
    BY SelectorOrder
  <2>2. \A x, y \in S : y \in before[x] => before[y] \subseteq before[x]
    BY <1>1, <2>1
  <2>3. \A x, y \in S :
          /\ ~SortsBefore(x.selector, x.selector)
          /\ x = y \/ SortsBefore(x.selector, y.selector) \/ SortsBefore(y.selector, x.selector)
    BY SelectorOrder
  <2> QED
    BY <1>1, <2>2, <2>3 DEF IsOrder
<1>3. Enumerates(Sorted(S, before), S)
  <2> HIDE DEF before
  <2> QED
    BY <1>2, ChoosingEnumerates
<1> QED
  BY <1>3 DEF BySelector

-----------------------------------------------------------------------------
(* Choosing from a sequence.                                               *)

\* A finite order has a first element.
LEMMA FirstOfOrder ==
    ASSUME NEW S, NEW before, IsOrder(S, before), S # {}
    PROVE  \E m \in S : before[m] = {}
<1>1. /\ Cardinality(S) \in Nat
      /\ \A x \in S : Cardinality(before[x]) \in 0 .. (Cardinality(S) - 1)
      /\ \A r \in 0 .. (Cardinality(S) - 1) : \E x \in S : Cardinality(before[x]) = r
  BY RanksAreOnto
<1>2. 0 \in 0 .. (Cardinality(S) - 1)
  <2>1. PICK x \in S : TRUE
    OBVIOUS
  <2>2. Cardinality(before[x]) \in 0 .. (Cardinality(S) - 1)
    BY <1>1
  <2> QED
    BY <1>1, <2>2
<1>3. PICK m \in S : Cardinality(before[m]) = 0
  BY <1>1, <1>2
<1>4. before[m] \in SUBSET S /\ IsFiniteSet(S)
  BY DEF IsOrder
<1>5. IsFiniteSet(before[m])
  BY <1>4, FS_Subset
<1> QED
  BY <1>3, <1>5, FS_EmptySet

\* A sequence has a first place of any kind it has a place of.
LEMMA FirstPlace ==
    ASSUME NEW P \in SUBSET Nat, IsFiniteSet(P), P # {}
    PROVE  \E m \in P : \A k \in P : m <= k
<1> DEFINE before == [x \in P |-> {y \in P : y < x}]
<1>1. before \in [P -> SUBSET P] /\ \A x, y \in P : y \in before[x] <=> y < x
  OBVIOUS
<1> HIDE DEF before
<1>2. IsOrder(P, before)
  <2>1. \A x, y, z \in P : z < y /\ y < x => z < x
    OBVIOUS
  <2>2. \A x, y \in P : y \in before[x] => before[y] \subseteq before[x]
    BY <1>1, <2>1
  <2>3. \A x, y \in P : ~(x < x) /\ (x = y \/ x < y \/ y < x)
    OBVIOUS
  <2> QED
    BY <1>1, <2>2, <2>3 DEF IsOrder
<1>3. PICK m \in P : before[m] = {}
  BY <1>2, FirstOfOrder
<1>4. \A k \in P : ~(k < m)
  BY <1>1, <1>3
<1> QED
  BY <1>4

\* Picked gives what the sequence has at the places.
LEMMA PickedHas ==
    ASSUME NEW T, NEW s \in Seq(T), NEW P \in SUBSET (DOMAIN s)
    PROVE  /\ Picked(s, P) \in Seq(T)
           /\ Range(Picked(s, P)) = {s[i] : i \in P}
<1> DEFINE place == Sorted(P, [i \in P |-> {j \in P : j < i}])
           picked == [n \in DOMAIN place |-> s[place[n]]]
<1>1. P \in SUBSET Nat /\ IsFiniteSet(P)
  <2>1. Len(s) \in Nat /\ DOMAIN s = 1 .. Len(s)
    OBVIOUS
  <2>2. IsFiniteSet(1 .. Len(s))
    BY <2>1, FS_Interval
  <2> QED
    BY <2>1, <2>2, FS_Subset
<1>2. Enumerates(place, P)
  BY <1>1, NumbersSorted
<1> HIDE DEF place
<1>3. /\ Len(place) \in Nat /\ DOMAIN place = 1 .. Len(place)
      /\ \A n \in DOMAIN place : place[n] \in P
      /\ \A i \in P : \E n \in DOMAIN place : place[n] = i
  BY <1>2 DEF Enumerates, Range
<1>4. picked \in Seq(T)
  <2>1. \A n \in DOMAIN place : s[place[n]] \in T
    BY <1>3
  <2> QED
    BY <1>3, <2>1
<1>5. Range(picked) = {s[i] : i \in P}
  BY <1>3 DEF Range
<1> QED
  BY <1>4, <1>5 DEF Picked, place

-----------------------------------------------------------------------------
(* The boards and the images of a workspace are finitely many.             *)

\* The boards and images of a workspace are finite sets, with ids and selectors.
LEMMA WorkspaceFinite ==
    ASSUME IsWorkspace(workspace)
    PROVE  /\ IsFiniteSet(Declared) /\ \A d \in Declared : d.metadata.id \in Nat
           /\ IsFiniteSet(Images) /\ \A i \in Images : IsSelector(i.selector)
<1> DEFINE D == DOMAIN workspace
           theBoard == [i \in D |-> CHOOSE b \in workspace[i].board : TRUE]
           theImage == [i \in D |-> CHOOSE f \in workspace[i].firmware : TRUE]
           boardAt == [i \in D |-> Entry(workspace[i], theBoard[i])]
           imageAt == [i \in D |-> ImageOf(Entry(workspace[i], theImage[i]))]
<1>0. /\ \A i \in D : /\ \A b, c \in workspace[i].board : b = c /\ b.id \in Nat
                      /\ \A f, g \in workspace[i].firmware :
                            f = g /\ f.board \in Nat /\ f.variant \in Nat
      /\ IsFiniteSet(D)
  <2>1. Len(workspace) \in Nat /\ DOMAIN workspace = 1 .. Len(workspace)
    BY DEF IsWorkspace
  <2>2. IsFiniteSet(1 .. Len(workspace))
    BY <2>1, FS_Interval
  <2> QED
    BY <2>1, <2>2 DEF IsWorkspace
<1> HIDE DEF D
<1>1. ASSUME NEW g, g = [i \in D |-> g[i]]
      PROVE  IsFiniteSet({g[i] : i \in D})
  <2>1. g \in Surjection(D, {g[i] : i \in D})
    BY <1>1 DEF Surjection
  <2> QED
    BY <1>0, <2>1, FS_Surjection
<1>2. IsFiniteSet({boardAt[i] : i \in D}) /\ IsFiniteSet({imageAt[i] : i \in D})
  <2>1. boardAt = [i \in D |-> boardAt[i]] /\ imageAt = [i \in D |-> imageAt[i]]
    OBVIOUS
  <2> HIDE DEF boardAt, imageAt
  <2> QED
    BY <1>1, <2>1
<1>3. ASSUME NEW d \in Declared
      PROVE  d \in {boardAt[i] : i \in D} /\ d.metadata.id \in Nat
  <2>1. PICK i \in D : \E b \in workspace[i].board : d = Entry(workspace[i], b)
    BY ByPlace DEF D
  <2>2. PICK b \in workspace[i].board : d = Entry(workspace[i], b)
    BY <2>1
  <2>3. theBoard[i] = b
    <3>1. theBoard[i] \in workspace[i].board
      OBVIOUS
    <3> QED
      BY <1>0, <3>1
  <2>4. d = boardAt[i]
    <3> HIDE DEF theBoard
    <3> QED
      BY <2>2, <2>3
  <2>5. d.metadata = b
    BY <2>2 DEF Entry
  <2> QED
    BY <1>0, <2>4, <2>5
<1>4. ASSUME NEW x \in Images
      PROVE  x \in {imageAt[i] : i \in D} /\ IsSelector(x.selector)
  <2>1. PICK i \in D : \E f \in workspace[i].firmware : x = ImageOf(Entry(workspace[i], f))
    BY ByPlace DEF D
  <2>2. PICK f \in workspace[i].firmware : x = ImageOf(Entry(workspace[i], f))
    BY <2>1
  <2>3. theImage[i] = f
    <3>1. theImage[i] \in workspace[i].firmware
      OBVIOUS
    <3> QED
      BY <1>0, <3>1
  <2>4. x = imageAt[i]
    <3> HIDE DEF theImage
    <3> QED
      BY <2>2, <2>3
  <2>5. x.selector = firmware_selector(f.board, f.variant)
    BY <2>2 DEF ImageOf, Entry
  <2>6. f.board \in Nat /\ f.variant \in Nat
    BY <1>0
  <2>7. IsSelector(x.selector)
    BY <2>5, <2>6 DEF IsSelector, firmware_selector
  <2> QED
    BY <2>4, <2>7
<1> QED
  <2> HIDE DEF boardAt, imageAt
  <2>1. Declared \in SUBSET {boardAt[i] : i \in D} /\ Images \in SUBSET {imageAt[i] : i \in D}
    BY <1>3, <1>4
  <2>2. IsFiniteSet(Declared) /\ IsFiniteSet(Images)
    BY <1>2, <2>1, FS_Subset
  <2> QED
    BY <1>3, <1>4, <2>2

-----------------------------------------------------------------------------
(* What the lookups of the registry give, once it is complete.             *)

\* The registry holds each image once, and each image's board under its id.
LEMMA RegistryKnown ==
    ASSUME IsWorkspace(workspace), RegistryOfSet
    PROVE  /\ firmware \in Seq(Images)
           /\ \A x \in Images : \E n \in DOMAIN firmware : firmware[n] = x
           /\ \A id \in DOMAIN boards : boards[id] \in Declared /\ boards[id].metadata.id = id
           /\ \A d \in Declared : d.metadata.id \in DOMAIN boards /\ boards[d.metadata.id] = d
           /\ \A x \in Images : /\ x.board \in DOMAIN boards
                                /\ boards[x.board] = BoardOf(x)
                                /\ BoardOf(x) \in Declared
                                /\ BoardOf(x).metadata.id = x.board
<1>0. /\ WellFormed
      /\ Range(boards) = Declared /\ \A id \in DOMAIN boards : boards[id].metadata.id = id
      /\ firmware = BySelector(Images)
  BY DEF RegistryOfSet
<1>1. Enumerates(firmware, Images)
  <2>1. \A x, y \in Images : x.selector = y.selector => x = y
    BY <1>0 DEF WellFormed
  <2> QED
    BY <1>0, <2>1, WorkspaceFinite, ImagesSorted
<1>2. firmware \in Seq(Images) /\ \A x \in Images : \E n \in DOMAIN firmware : firmware[n] = x
  BY <1>1 DEF Enumerates, Range
<1>3. \A id \in DOMAIN boards : boards[id] \in Declared /\ boards[id].metadata.id = id
  BY <1>0 DEF Range
<1>4. ASSUME NEW d \in Declared
      PROVE  d.metadata.id \in DOMAIN boards /\ boards[d.metadata.id] = d
  <2>1. PICK id \in DOMAIN boards : boards[id] = d
    BY <1>0 DEF Range
  <2>2. d.metadata.id = id
    BY <1>0, <2>1
  <2> QED
    BY <2>1, <2>2
<1>5. ASSUME NEW x \in Images
      PROVE  /\ x.board \in DOMAIN boards
             /\ boards[x.board] = BoardOf(x)
             /\ BoardOf(x) \in Declared
             /\ BoardOf(x).metadata.id = x.board
  <2>1. \E d \in Declared : d.metadata.id = x.board
    BY <1>0 DEF WellFormed
  <2>2. BoardOf(x) \in Declared /\ BoardOf(x).metadata.id = x.board
    BY <2>1 DEF BoardOf
  <2> QED
    BY <1>4, <2>2
<1> QED
  BY <1>2, <1>3, <1>4, <1>5

\* Registry::board finds the boards that the argument means.
LEMMA BoardsMeant ==
    ASSUME IsWorkspace(workspace), RegistryOfSet, NEW args, args # << >>
    PROVE  board(args[1]) = {d \in Declared : Means(d, args)}
<1>0. /\ \A id \in DOMAIN boards : boards[id] \in Declared /\ boards[id].metadata.id = id
      /\ \A d \in Declared : d.metadata.id \in DOMAIN boards /\ boards[d.metadata.id] = d
  BY RegistryKnown
<1> DEFINE text == args[1]
<1>1. \A d \in Declared : Means(d, args) <=>
        \/ text = d.metadata.id
        \/ text = d.package /\ \A e \in Declared : e.metadata.id # text
  BY DEF Means
<1> HIDE DEF text
<1>2. CASE text \in DOMAIN boards
  <2>1. board(text) = {boards[text]}
    BY <1>2 DEF board
  <2>2. boards[text] \in Declared /\ boards[text].metadata.id = text
    BY <1>0, <1>2
  <2>3. \A d \in Declared : Means(d, args) <=> d = boards[text]
    BY <1>0, <1>1, <2>2
  <2> QED
    BY <2>1, <2>2, <2>3 DEF text
<1>3. CASE text \notin DOMAIN boards
  <2>1. board(text) = {boards[id] : id \in {i \in DOMAIN boards : boards[i].package = text}}
    BY <1>3 DEF board
  <2>2. \A e \in Declared : e.metadata.id # text
    BY <1>0, <1>3
  <2>3. \A d \in Declared : Means(d, args) <=> d.package = text
    BY <1>1, <2>2
  <2>4. \A d : d \in board(text) <=> d \in Declared /\ d.package = text
    BY <1>0, <2>1
  <2> QED
    BY <2>3, <2>4 DEF text
<1> QED
  BY <1>2, <1>3

\* Registry::firmware finds one image that has the selector or the name.
LEMMA FirmwareFound ==
    ASSUME IsWorkspace(workspace), RegistryOfSet, NEW selector
    PROVE  \/ /\ firmware_(selector) = {}
              /\ \A x \in Images : ~MatchesFirmware(x, selector)
           \/ \E x \in Images : MatchesFirmware(x, selector) /\ firmware_(selector) = {x}
<1> DEFINE P == {n \in DOMAIN firmware : MatchesFirmware(firmware[n], selector)}
<1>0. /\ firmware \in Seq(Images)
      /\ \A x \in Images : \E n \in DOMAIN firmware : firmware[n] = x
  BY RegistryKnown
<1>1. /\ Len(firmware) \in Nat /\ DOMAIN firmware = 1 .. Len(firmware)
      /\ \A n \in DOMAIN firmware : firmware[n] \in Images
  BY <1>0
<1>2. P \in SUBSET Nat /\ IsFiniteSet(P)
  <2>1. IsFiniteSet(1 .. Len(firmware))
    BY <1>1, FS_Interval
  <2>2. P \in SUBSET (1 .. Len(firmware))
    BY <1>1
  <2>3. IsFiniteSet(P)
    BY <2>1, <2>2, FS_Subset
  <2> QED
    BY <1>1, <2>2, <2>3
<1>3. firmware_(selector) = {firmware[i] : i \in {k \in DOMAIN firmware :
                                k \in P /\ \A j \in 1 .. (k - 1) : j \notin P}}
  <2>1. \A k \in DOMAIN firmware : \A j \in 1 .. (k - 1) : j \in DOMAIN firmware
    BY <1>1
  <2> QED
    BY <2>1 DEF firmware_
<1>4. CASE P = {}
  BY <1>0, <1>3, <1>4
<1>5. CASE P # {}
  <2>1. PICK m \in P : \A k \in P : m <= k
    BY <1>2, <1>5, FirstPlace
  <2>2. m \in DOMAIN firmware /\ firmware[m] \in Images /\ MatchesFirmware(firmware[m], selector)
    BY <1>1
  <2> HIDE DEF P
  <2>3. \A k \in P : (\A j \in 1 .. (k - 1) : j \notin P) <=> k = m
    <3> SUFFICES ASSUME NEW k \in P
                 PROVE  (\A j \in 1 .. (k - 1) : j \notin P) <=> k = m
      OBVIOUS
    <3>1. k \in Nat /\ m \in Nat /\ m <= k /\ m >= 1
      BY <1>1, <1>2, <2>1, <2>2
    <3>2. ASSUME k # m
          PROVE  m \in 1 .. (k - 1)
      BY <3>1, <3>2
    <3>3. \A j \in 1 .. (m - 1) : j \notin P
      BY <2>1, <3>1
    <3> QED
      BY <3>2, <3>3
  <2>4. firmware_(selector) = {firmware[m]}
    BY <1>3, <2>2, <2>3
  <2> QED
    BY <2>2, <2>4
<1> QED
  BY <1>4, <1>5

\* build_all goes through the images of the boards that the filter means.
LEMMA SelectedMeant ==
    ASSUME IsWorkspace(workspace), RegistryOfSet, NEW args
    PROVE  /\ Selected(args) \in Seq(Images)
           /\ Range(Selected(args)) = {x \in Images : Means(BoardOf(x), args)}
<1> DEFINE P == {i \in DOMAIN firmware :
                    args = << >> \/ \E b \in board(args[1]) : firmware[i].board = b.metadata.id}
<1>0. /\ firmware \in Seq(Images)
      /\ \A x \in Images : \E n \in DOMAIN firmware : firmware[n] = x
      /\ \A d \in Declared : boards[d.metadata.id] = d
      /\ \A x \in Images : /\ boards[x.board] = BoardOf(x)
                           /\ BoardOf(x) \in Declared /\ BoardOf(x).metadata.id = x.board
  BY RegistryKnown
<1>1. \A n \in DOMAIN firmware : firmware[n] \in Images
  BY <1>0
<1>2. ASSUME NEW x \in Images
      PROVE  (args = << >> \/ \E b \in board(args[1]) : x.board = b.metadata.id)
               <=> Means(BoardOf(x), args)
  <2>1. CASE args = << >>
    BY <2>1 DEF Means
  <2>2. CASE args # << >>
    <3>1. board(args[1]) = {d \in Declared : Means(d, args)}
      BY <2>2, BoardsMeant
    <3>2. \A b \in Declared : x.board = b.metadata.id <=> b = BoardOf(x)
      BY <1>0
    <3> QED
      BY <1>0, <2>2, <3>1, <3>2
  <2> QED
    BY <2>1, <2>2
<1>3. P \in SUBSET (DOMAIN firmware) /\ Selected(args) = Picked(firmware, P)
  BY DEF Selected
<1>4. \A n \in DOMAIN firmware : n \in P <=> Means(BoardOf(firmware[n]), args)
  BY <1>1, <1>2
<1> HIDE DEF P
<1>5. /\ Picked(firmware, P) \in Seq(Images)
      /\ Range(Picked(firmware, P)) = {firmware[i] : i \in P}
  BY <1>0, <1>3, PickedHas
<1>6. {firmware[i] : i \in P} = {x \in Images : Means(BoardOf(x), args)}
  BY <1>0, <1>1, <1>3, <1>4
<1> QED
  BY <1>3, <1>5, <1>6

\* doctor goes through the boards that the filter means.
LEMMA DoctorBoardsMeant ==
    ASSUME IsWorkspace(workspace), RegistryOfSet, NEW args
    PROVE  Enumerates(DoctorBoards(args), {d \in Declared : Means(d, args)})
<1> DEFINE S == {d \in Declared : Means(d, args)}
<1>1. (IF args = << >> THEN Range(boards) ELSE board(args[1])) = S
  <2>1. CASE args = << >>
    BY <2>1 DEF RegistryOfSet, Means
  <2>2. CASE args # << >>
    BY <2>2, BoardsMeant
  <2> QED
    BY <2>1, <2>2
<1>2. /\ IsFiniteSet(S)
      /\ \A b \in S : b.metadata.id \in Nat
      /\ \A b, c \in S : b.metadata.id = c.metadata.id => b = c
  <2>1. IsFiniteSet(S)
    BY WorkspaceFinite, FS_Subset
  <2> QED
    BY <2>1, WorkspaceFinite DEF RegistryOfSet, WellFormed
<1> HIDE DEF S
<1>3. Enumerates(Sorted(S, [b \in S |-> {c \in S : c.metadata.id < b.metadata.id}]), S)
  BY <1>2, BoardsSorted
<1> QED
  BY <1>1, <1>3 DEF DoctorBoards, S

\* The checks of a board, its target and its tool, are among the checks.
LEMMA ChecksOfBoard ==
    ASSUME NEW S, NEW chosen \in Seq(S)
    PROVE  /\ DoctorChecks(chosen) \in Seq(Range(DoctorChecks(chosen)))
           /\ \A b \in Range(chosen) :
                 /\ Command("target", {}, {b.metadata.target}, << >>) \in Range(DoctorChecks(chosen))
                 /\ Command("--version", {}, {}, <<b.metadata.runner[1]>>)
                       \in Range(DoctorChecks(chosen))
<1> DEFINE target == [k \in DOMAIN chosen |->
                         Command("target", {}, {chosen[k].metadata.target}, << >>)]
           tool == [k \in DOMAIN chosen |->
                         Command("--version", {}, {}, <<chosen[k].metadata.runner[1]>>)]
           checks == DoctorChecks(chosen)
<1>0. Len(chosen) \in Nat /\ DOMAIN chosen = 1 .. Len(chosen)
  OBVIOUS
<1>1. checks = [n \in 1 .. 2 * Len(chosen) |->
                  IF n % 2 = 1 THEN Command("target", {}, {chosen[(n + 1) \div 2].metadata.target}, << >>)
                  ELSE Command("--version", {}, {}, <<chosen[(n + 1) \div 2].metadata.runner[1]>>)]
  BY DEF DoctorChecks
<1>2. DOMAIN checks = 1 .. 2 * Len(chosen) /\ 2 * Len(chosen) \in Nat
  BY <1>0, <1>1
<1>3. checks \in Seq(Range(checks))
  <2>1. checks = [n \in 1 .. 2 * Len(chosen) |-> checks[n]]
    BY <1>1
  <2> HIDE DEF checks
  <2>2. \A n \in 1 .. 2 * Len(chosen) : checks[n] \in Range(checks)
    BY <1>2 DEF Range
  <2>3. checks \in [1 .. 2 * Len(chosen) -> Range(checks)]
    BY <2>1, <2>2
  <2> QED
    BY <1>2, <2>3
<1>4. ASSUME NEW k \in DOMAIN chosen
      PROVE  target[k] \in Range(checks) /\ tool[k] \in Range(checks)
  <2>0. k \in Nat /\ k >= 1 /\ k <= Len(chosen)
    BY <1>0
  <2>1. 2 * k - 1 \in 1 .. 2 * Len(chosen) /\ 2 * k \in 1 .. 2 * Len(chosen)
    BY <1>0, <2>0
  <2>2. ((2 * k - 1) + 1) \div 2 = k /\ (2 * k - 1) % 2 = 1
    BY <2>0
  <2>3. (2 * k + 1) \div 2 = k /\ (2 * k) % 2 # 1
    BY <2>0
  <2>4. checks[2 * k - 1] = Command("target", {}, {chosen[k].metadata.target}, << >>)
    BY <1>1, <2>1, <2>2, Zenon
  <2>5. checks[2 * k] = Command("--version", {}, {}, <<chosen[k].metadata.runner[1]>>)
    BY <1>1, <2>1, <2>3, Zenon
  <2> HIDE DEF checks
  <2> QED
    BY <1>2, <2>1, <2>4, <2>5 DEF Range
<1>5. \A b \in Range(chosen) : \E k \in DOMAIN chosen : chosen[k] = b
  BY DEF Range
<1> QED
  <2> HIDE DEF checks
  <2>1. \A b \in Range(chosen) :
          /\ Command("target", {}, {b.metadata.target}, << >>) \in Range(checks)
          /\ Command("--version", {}, {}, <<b.metadata.runner[1]>>) \in Range(checks)
    BY <1>4, <1>5
  <2> QED
    BY <1>3, <2>1 DEF checks

\* Leaving out what was checked before leaves out no check.
LEMMA NoCheckLost ==
    ASSUME NEW T, NEW checks \in Seq(T), NEW P,
           P = {n \in DOMAIN checks : \A m \in 1 .. (n - 1) : checks[m] # checks[n]}
    PROVE  Picked(checks, P) \in Seq(T) /\ Range(Picked(checks, P)) = Range(checks)
<1>0. Len(checks) \in Nat /\ DOMAIN checks = 1 .. Len(checks)
  OBVIOUS
<1>1. P \in SUBSET (DOMAIN checks)
  OBVIOUS
<1>2. Picked(checks, P) \in Seq(T) /\ Range(Picked(checks, P)) = {checks[i] : i \in P}
  BY <1>1, PickedHas
<1>3. ASSUME NEW n \in DOMAIN checks
      PROVE  \E m \in P : checks[m] = checks[n]
  <2> DEFINE Q == {k \in 1 .. Len(checks) : checks[k] = checks[n]}
  <2>1. Q \in SUBSET Nat /\ IsFiniteSet(Q) /\ Q # {}
    <3>1. IsFiniteSet(1 .. Len(checks))
      BY <1>0, FS_Interval
    <3>2. IsFiniteSet(Q)
      BY <3>1, FS_Subset
    <3> QED
      BY <1>0, <3>2
  <2>2. PICK m \in Q : \A k \in Q : m <= k
    <3> HIDE DEF Q
    <3> QED
      BY <2>1, FirstPlace
  <2>3. m \in 1 .. Len(checks) /\ checks[m] = checks[n]
    OBVIOUS
  <2>4. \A k \in 1 .. (m - 1) : k \in 1 .. Len(checks) /\ ~(m <= k)
    BY <1>0, <2>3
  <2>5. \A k \in 1 .. (m - 1) : checks[k] # checks[m]
    BY <2>2, <2>3, <2>4
  <2> QED
    BY <1>0, <2>3, <2>5
<1>4. {checks[i] : i \in P} = Range(checks)
  BY <1>1, <1>3 DEF Range
<1> QED
  BY <1>2, <1>4

-----------------------------------------------------------------------------
(* What a task owes: to have done its part with the commands cs, or, if it *)
(* was refused, that nothing was meant.  D, I and N are the boards and the *)
(* images of a workspace and the packages that are not for the host.       *)

MeansIn(D, d, args) ==
    \/ args = << >>
    \/ args[1] = d.metadata.id
    \/ args[1] = d.package /\ \A e \in D : e.metadata.id # args[1]
BoardIn(D, i) == CHOOSE d \in D : d.metadata.id = i.board
Has(cs, do, on, for) == \E c \in cs : c.do = do /\ c.on = on /\ c.for = for
ImagesOfBoards(D, I, args) == {i \in I : MeansIn(D, BoardIn(D, i), args)}
ImagesNamed(I, args) == {i \in I : args # << >> /\ MatchesFirmware(i, args[1])}

DoneWith(D, I, N, t, cs) ==
    /\ t.word = "build-all" => \A i \in ImagesOfBoards(D, I, t.args) :
          Has(cs, "build", {i.package}, {BoardIn(D, i).metadata.target})
    /\ t.word \in {"build", "run"} => \E i \in ImagesNamed(I, t.args) :
          Has(cs, t.word, {i.package}, {BoardIn(D, i).metadata.target})
    /\ t.word = "doctor" => \A d \in {e \in D : MeansIn(D, e, t.args)} :
          /\ Has(cs, "target", {}, {d.metadata.target})
          /\ \E c \in cs : c.do = "--version" /\ c.with = <<d.metadata.runner[1]>>
    /\ t.word = "check" => Has(cs, "fmt", {}, {}) /\ Has(cs, "clippy", N, {})
    /\ t.word \in {"check", "test"} => Has(cs, "test", N, {})

NothingMeant(D, I, t) ==
    /\ t.word = "build-all" => ImagesOfBoards(D, I, t.args) = {}
    /\ t.word \in {"build", "run"} => ImagesNamed(I, t.args) = {}
    /\ t.word \in {"doctor", "targets"} => {e \in D : MeansIn(D, e, t.args)} = {}

\* The property TasksCoverWorkspace in these terms.
LEMMA CoverageRestated ==
    /\ result = "success" => DoneWith(Declared, Images, NotForTheHost, task, ran)
    /\ result = "unknown" => NothingMeant(Declared, Images, task)
    => TasksCoverWorkspace
<1>1. /\ \A d, args : MeansIn(Declared, d, args) <=> Means(d, args)
      /\ \A i : BoardIn(Declared, i) = BoardOf(i)
      /\ \A do, on, for : Has(ran, do, on, for) <=> Ran(do, on, for)
  BY DEF MeansIn, Means, BoardIn, BoardOf, Has, Ran
<1>2. /\ \A args : ImagesOfBoards(Declared, Images, args) = {i \in Images : Means(BoardOf(i), args)}
      /\ \A args : {e \in Declared : MeansIn(Declared, e, args)} = {d \in Declared : Means(d, args)}
  BY <1>1 DEF ImagesOfBoards
<1> QED
  BY <1>1, <1>2 DEF TasksCoverWorkspace, DoneWith, NothingMeant, ImagesNamed

\* The fields of a command.
LEMMA CommandFields ==
    \A do, on, for, with :
        LET c == Command(do, on, for, with)
        IN c.do = do /\ c.on = on /\ c.for = for /\ c.with = with
BY DEF Command

\* Commands that are more do more.
LEMMA MoreDoMore ==
    ASSUME NEW D, NEW I, NEW N, NEW t, NEW cs, NEW ds, cs \subseteq ds,
           DoneWith(D, I, N, t, cs)
    PROVE  DoneWith(D, I, N, t, ds)
<1>1. \A do, on, for : Has(cs, do, on, for) => Has(ds, do, on, for)
  BY DEF Has
<1>2. \A d : (\E c \in cs : c.do = "--version" /\ c.with = <<d.metadata.runner[1]>>)
               => (\E c \in ds : c.do = "--version" /\ c.with = <<d.metadata.runner[1]>>)
  OBVIOUS
<1> QED
  BY <1>1, <1>2 DEF DoneWith

\* A task that clap lets through.
IsTask(t) ==
    /\ t.word \in {"build", "run", "build-all", "check", "test", "doctor", "list", "targets"}
    /\ t.word \in {"build", "run"} => t.args # << >>

\* The commands cs of the task t are a sequence that does its part, or is
\* empty where nothing is meant.
Serves(t, cs) ==
    /\ cs \in Seq(Range(cs))
    /\ cs # << >> => DoneWith(Declared, Images, NotForTheHost, t, Range(cs))
    /\ cs = << >> => NothingMeant(Declared, Images, t)

\* build and run do their one command for an image of that name.
LEMMA NamedTasksServe ==
    ASSUME IsWorkspace(workspace), RegistryOfSet, NEW t, IsTask(t), t.word \in {"build", "run"}
    PROVE  Serves(t, Commands(t))
<1> DEFINE F == firmware_(t.args[1])
<1>0. t.args # << >>
  BY DEF IsTask
<1>1. \A x \in Images : boards[x.board] = BoardOf(x)
  BY RegistryKnown
<1>2. CASE F = {}
  <2>1. \A x \in Images : ~MatchesFirmware(x, t.args[1])
    BY <1>2, FirmwareFound
  <2>2. Commands(t) = SetToSeq({})
    BY <1>2 DEF Commands
  <2>3. Commands(t) = << >>
    BY <2>2, SequenceOfOption
  <2>4. NothingMeant(Declared, Images, t)
    BY <2>1 DEF NothingMeant, ImagesNamed
  <2> QED
    BY <2>3, <2>4 DEF Serves
<1>3. CASE F # {}
  <2>1. PICK x \in Images : MatchesFirmware(x, t.args[1]) /\ F = {x}
    BY <1>3, FirmwareFound
  <2> DEFINE c == IF t.word = "build" THEN build_firmware(x) ELSE run(x)
  <2>2. Commands(t) = <<c>>
    <3> HIDE DEF F
    <3>1. CASE t.word = "build"
      <4>1. Commands(t) = SetToSeq({build_firmware(f) : f \in F})
        BY <3>1 DEF Commands, F
      <4>2. {build_firmware(f) : f \in F} = {build_firmware(x)}
        BY <2>1
      <4> QED
        BY <3>1, <4>1, <4>2, SequenceOfOption
    <3>2. CASE t.word = "run"
      <4>1. Commands(t) = SetToSeq({run(f) : f \in F})
        BY <3>2 DEF Commands, F
      <4>2. {run(f) : f \in F} = {run(x)}
        BY <2>1
      <4> QED
        BY <3>2, <4>1, <4>2, SequenceOfOption
    <3> QED
      BY <3>1, <3>2
  <2>3. c.do = t.word /\ c.on = {x.package} /\ c.for = {BoardOf(x).metadata.target}
    BY <1>1, <2>1, CommandFields DEF build_firmware, run
  <2> HIDE DEF c
  <2>4. <<c>> \in Seq(Range(<<c>>)) /\ <<c>> # << >> /\ Range(<<c>>) = {c}
    BY DEF Range
  <2>5. x \in ImagesNamed(Images, t.args)
    BY <1>0, <2>1 DEF ImagesNamed
  <2>6. Has({c}, t.word, {x.package}, {BoardIn(Declared, x).metadata.target})
    BY <2>3 DEF Has, BoardIn, BoardOf
  <2>7. DoneWith(Declared, Images, NotForTheHost, t, {c})
    BY <2>5, <2>6 DEF DoneWith
  <2> QED
    BY <2>2, <2>4, <2>7 DEF Serves
<1> QED
  BY <1>2, <1>3

\* build-all does a build for each image of the boards named.
LEMMA BuildAllServes ==
    ASSUME IsWorkspace(workspace), RegistryOfSet, NEW t, t.word = "build-all"
    PROVE  Serves(t, Commands(t))
<1> DEFINE s == Selected(t.args)
           cs == [i \in DOMAIN s |-> build_firmware(s[i])]
           I == ImagesOfBoards(Declared, Images, t.args)
<1>1. Commands(t) = cs
  BY DEF Commands
<1>2. s \in Seq(Images) /\ Range(s) = I
  BY SelectedMeant DEF ImagesOfBoards, MeansIn, BoardIn, Means, BoardOf
<1>3. \A x \in Images : boards[x.board] = BoardOf(x)
  BY RegistryKnown
<1> HIDE DEF s
<1>4. Len(s) \in Nat /\ DOMAIN s = 1 .. Len(s)
  BY <1>2
<1>5. cs \in Seq(Range(cs)) /\ DOMAIN cs = DOMAIN s
  <2>1. \A n \in DOMAIN s : cs[n] \in Range(cs)
    BY DEF Range
  <2>2. cs = [n \in DOMAIN s |-> cs[n]] /\ DOMAIN cs = DOMAIN s
    OBVIOUS
  <2> HIDE DEF cs
  <2>3. cs \in [1 .. Len(s) -> Range(cs)]
    BY <1>4, <2>1, <2>2
  <2> QED
    BY <1>4, <2>2, <2>3
<1>6. ASSUME NEW i \in I
      PROVE  Has(Range(cs), "build", {i.package}, {BoardIn(Declared, i).metadata.target})
  <2>1. PICK n \in DOMAIN s : s[n] = i
    BY <1>2 DEF Range
  <2>2. cs[n] = build_firmware(i) /\ cs[n] \in Range(cs)
    BY <2>1 DEF Range
  <2>3. i \in Images
    BY DEF ImagesOfBoards
  <2>4. /\ build_firmware(i).do = "build" /\ build_firmware(i).on = {i.package}
        /\ build_firmware(i).for = {BoardOf(i).metadata.target}
    BY <1>3, <2>3, CommandFields DEF build_firmware
  <2> QED
    BY <2>2, <2>4 DEF Has, BoardIn, BoardOf
<1> HIDE DEF cs
<1>7. DoneWith(Declared, Images, NotForTheHost, t, Range(cs))
  BY <1>6 DEF DoneWith
<1>8. cs = << >> => NothingMeant(Declared, Images, t)
  <2> SUFFICES ASSUME cs = << >>
               PROVE  I = {}
    BY DEF NothingMeant
  <2>1. DOMAIN s = {}
    BY <1>5
  <2> QED
    BY <1>2, <2>1 DEF Range
<1> QED
  BY <1>1, <1>5, <1>7, <1>8 DEF Serves

\* doctor checks the target and the tool of each board named.
LEMMA DoctorServes ==
    ASSUME IsWorkspace(workspace), RegistryOfSet, NEW t, t.word = "doctor"
    PROVE  Serves(t, Commands(t))
<1> DEFINE chosen == DoctorBoards(t.args)
           S == {d \in Declared : Means(d, t.args)}
<1>1. Enumerates(chosen, S) /\ {e \in Declared : MeansIn(Declared, e, t.args)} = S
  BY DoctorBoardsMeant DEF MeansIn, Means
<1> HIDE DEF S
<1>2. CASE chosen = << >>
  <2>1. Commands(t) = << >>
    BY <1>2 DEF Commands
  <2>2. S = {}
    BY <1>1, <1>2 DEF Enumerates, Range
  <2>3. NothingMeant(Declared, Images, t)
    BY <1>1, <2>2 DEF NothingMeant
  <2> QED
    BY <2>1, <2>3 DEF Serves
<1>3. CASE chosen # << >>
  <2> DEFINE checks == DoctorChecks(chosen)
             P == {n \in DOMAIN checks : \A m \in 1 .. (n - 1) : checks[m] # checks[n]}
             first == Command("rustup", {}, {}, << >>)
             rest == Picked(checks, P)
             cs == <<first>> \o rest
  <2>1. Commands(t) = cs
    BY <1>3 DEF Commands, doctor
  <2>2. chosen \in Seq(S) /\ Range(chosen) = S
    BY <1>1 DEF Enumerates
  <2> HIDE DEF chosen
  <2>3. /\ checks \in Seq(Range(checks))
        /\ \A b \in S :
              /\ Command("target", {}, {b.metadata.target}, << >>) \in Range(checks)
              /\ Command("--version", {}, {}, <<b.metadata.runner[1]>>) \in Range(checks)
    BY <2>2, ChecksOfBoard
  <2> HIDE DEF checks
  <2>4. rest \in Seq(Range(checks)) /\ Range(rest) = Range(checks)
    BY <2>3, NoCheckLost
  <2> HIDE DEF P, rest, first
  <2>5. /\ cs \in Seq(Range(cs)) /\ cs # << >> /\ Range(checks) \subseteq Range(cs)
    <3>1. Len(rest) \in Nat /\ DOMAIN rest = 1 .. Len(rest) /\ \A n \in DOMAIN rest : rest[n] \in Range(checks)
      BY <2>4
    <3> DEFINE T == {first} \cup Range(checks)
    <3>2. <<first>> \in Seq(T) /\ rest \in Seq(T)
      BY <2>4
    <3> HIDE DEF T
    <3>3. /\ cs \in Seq(T) /\ Len(cs) = Len(rest) + 1 /\ DOMAIN cs = 1 .. (Len(rest) + 1)
          /\ \A n \in 1 .. Len(rest) : cs[n + 1] = rest[n]
      BY <3>1, <3>2
    <3> HIDE DEF cs
    <3>4. cs \in Seq(Range(cs))
      <4>1. \A n \in DOMAIN cs : cs[n] \in Range(cs)
        BY DEF Range
      <4> QED
        BY <3>3, <4>1
    <3>5. cs # << >>
      BY <3>1, <3>3
    <3>6. \A n \in DOMAIN rest : n + 1 \in DOMAIN cs /\ cs[n + 1] = rest[n]
      BY <3>1, <3>3
    <3>7. Range(rest) \subseteq Range(cs)
      BY <3>6 DEF Range
    <3> QED
      BY <2>4, <3>4, <3>5, <3>7
  <2> HIDE DEF cs
  <2>6. ASSUME NEW d \in S
        PROVE  /\ Has(Range(cs), "target", {}, {d.metadata.target})
               /\ \E c \in Range(cs) : c.do = "--version" /\ c.with = <<d.metadata.runner[1]>>
    <3> DEFINE a == Command("target", {}, {d.metadata.target}, << >>)
               b == Command("--version", {}, {}, <<d.metadata.runner[1]>>)
    <3>1. a \in Range(cs) /\ b \in Range(cs)
      BY <2>3, <2>5
    <3>2. a.do = "target" /\ a.on = {} /\ a.for = {d.metadata.target}
      BY CommandFields
    <3>3. b.do = "--version" /\ b.with = <<d.metadata.runner[1]>>
      BY CommandFields
    <3> HIDE DEF a, b
    <3> QED
      BY <3>1, <3>2, <3>3 DEF Has
  <2>7. DoneWith(Declared, Images, NotForTheHost, t, Range(cs))
    BY <1>1, <2>6 DEF DoneWith
  <2> QED
    BY <2>1, <2>5, <2>7 DEF Serves
<1> QED
  BY <1>2, <1>3

\* The host commands leave out what is not for the host; targets has none to
\* print only where no board is declared.
LEMMA OtherTasksServe ==
    ASSUME IsWorkspace(workspace), RegistryOfSet, NEW t,
           t.word \in {"check", "test", "list", "targets"}
    PROVE  Serves(t, Commands(t))
<1> DEFINE fmt == Command("fmt", {}, {}, << >>)
           clippy == Command("clippy", NotForTheHost, {}, << >>)
           test == Command("test", NotForTheHost, {}, << >>)
<1>0. exclusions = NotForTheHost
  BY DEF RegistryOfSet
<1>1. /\ fmt.do = "fmt" /\ fmt.on = {} /\ fmt.for = {}
      /\ clippy.do = "clippy" /\ clippy.on = NotForTheHost /\ clippy.for = {}
      /\ test.do = "test" /\ test.on = NotForTheHost /\ test.for = {}
  BY CommandFields
<1>2. host_tests = <<test>> /\ check = <<fmt, clippy>> \o <<test>>
  BY <1>0 DEF host_tests, check
<1> HIDE DEF fmt, clippy, test
<1>3. CASE t.word = "check"
  <2> DEFINE T == {fmt, clippy, test}
             two == <<fmt, clippy>>
             cs == two \o <<test>>
  <2>1. Commands(t) = cs
    BY <1>2, <1>3 DEF Commands
  <2>2. cs \in Seq(Range(cs)) /\ cs # << >> /\ Range(cs) = T
    <3>1. two \in Seq(T) /\ test \in T
      OBVIOUS
    <3>2. Len(two) = 2 /\ two[1] = fmt /\ two[2] = clippy
      OBVIOUS
    <3> HIDE DEF T, two
    <3>3. cs = two \o <<test>>
      OBVIOUS
    <3> HIDE DEF cs
    <3>4. /\ cs \in Seq(T) /\ Len(cs) = Len(two) + 1
          /\ \A m \in 1 .. Len(two) : cs[m] = two[m]
          /\ cs[Len(two) + 1] = test
      BY <3>1, <3>3, OneMore
    <3>5. DOMAIN cs = {1, 2, 3} /\ cs[1] = fmt /\ cs[2] = clippy /\ cs[3] = test
      BY <3>2, <3>4
    <3>6. Range(cs) = T
      BY <3>5 DEF Range, T
    <3> QED
      BY <3>4, <3>5, <3>6
  <2>3. DoneWith(Declared, Images, NotForTheHost, t, {fmt, clippy, test})
    BY <1>1, <1>3 DEF DoneWith, Has
  <2> QED
    BY <2>1, <2>2, <2>3 DEF Serves
<1>4. CASE t.word = "test"
  <2>1. Commands(t) = <<test>>
    BY <1>2, <1>4 DEF Commands
  <2>2. <<test>> \in Seq(Range(<<test>>)) /\ <<test>> # << >> /\ Range(<<test>>) = {test}
    BY DEF Range
  <2>3. DoneWith(Declared, Images, NotForTheHost, t, {test})
    BY <1>1, <1>4 DEF DoneWith, Has
  <2> QED
    BY <2>1, <2>2, <2>3 DEF Serves
<1>5. CASE t.word = "list"
  <2>1. PICK c : Commands(t) = <<c>>
    BY <1>5 DEF Commands, list
  <2>2. <<c>> \in Seq(Range(<<c>>)) /\ <<c>> # << >>
    BY DEF Range
  <2>3. DoneWith(Declared, Images, NotForTheHost, t, Range(<<c>>))
    BY <1>5 DEF DoneWith
  <2> QED
    BY <2>1, <2>2, <2>3 DEF Serves
<1>6. CASE t.word = "targets"
  <2>1. CASE Targets = {}
    <3>1. Commands(t) = << >>
      BY <1>6, <2>1 DEF Commands
    <3>2. Declared = {}
      <4>1. DOMAIN boards = {}
        BY <2>1 DEF Targets
      <4>2. \A d \in Declared : d.metadata.id \in DOMAIN boards
        BY RegistryKnown
      <4> QED
        BY <4>1, <4>2
    <3>3. NothingMeant(Declared, Images, t)
      BY <1>6, <3>2 DEF NothingMeant
    <3> QED
      BY <3>1, <3>3 DEF Serves
  <2>2. CASE Targets # {}
    <3>1. PICK c : Commands(t) = <<c>>
      BY <1>6, <2>2 DEF Commands, targets
    <3>2. <<c>> \in Seq(Range(<<c>>)) /\ <<c>> # << >>
      BY DEF Range
    <3>3. DoneWith(Declared, Images, NotForTheHost, t, Range(<<c>>))
      BY <1>6 DEF DoneWith
    <3> QED
      BY <3>1, <3>2, <3>3 DEF Serves
  <2> QED
    BY <2>1, <2>2
<1> QED
  BY <1>3, <1>4, <1>5, <1>6

\* The commands of every task serve it.
LEMMA CommandsServe ==
    ASSUME IsWorkspace(workspace), RegistryOfSet, NEW t, IsTask(t)
    PROVE  Serves(t, Commands(t))
BY NamedTasksServe, BuildAllServes, DoctorServes, OtherTasksServe DEF IsTask

-----------------------------------------------------------------------------
(* The inductive invariant of execute: with the commands that are pending  *)
(* and those that ran, the task does its part.                             *)

ExecutionInv ==
    /\ stage = "commands" =>
          /\ pending \in Seq(Range(pending)) /\ pending # << >>
          /\ DoneWith(Declared, Images, NotForTheHost, task, ran \cup Range(pending))
    /\ result = "success" => DoneWith(Declared, Images, NotForTheHost, task, ran)
    /\ result = "unknown" => NothingMeant(Declared, Images, task)

\* The first of the pending commands and the others.
LEMMA FirstAndOthers ==
    ASSUME NEW s, s \in Seq(Range(s)), s # << >>
    PROVE  /\ Tail(s) \in Seq(Range(Tail(s)))
           /\ Range(s) = {Head(s)} \cup Range(Tail(s))
           /\ Tail(s) = << >> => Range(s) = {Head(s)}
<1> DEFINE S == Range(s)
           u == Tail(s)
<1>0. s \in Seq(S) /\ \A x \in S : \E n \in DOMAIN s : s[n] = x
  BY DEF Range
<1> HIDE DEF S
<1>1. /\ Len(s) \in Nat \ {0} /\ DOMAIN s = 1 .. Len(s) /\ Head(s) = s[1]
      /\ \A n \in DOMAIN s : s[n] \in S
  BY <1>0
<1>2. /\ u \in Seq(S) /\ Len(u) = Len(s) - 1
      /\ \A n \in 1 .. Len(u) : u[n] = s[n + 1]
  BY <1>0, <1>1
<1> HIDE DEF u
<1>3. DOMAIN u = 1 .. (Len(s) - 1)
  BY <1>1, <1>2
<1>4. u \in Seq(Range(u))
  <2>1. \A n \in DOMAIN u : u[n] \in Range(u)
    BY DEF Range
  <2> QED
    BY <1>2, <2>1
<1>5. ASSUME NEW x \in S
      PROVE  x = s[1] \/ x \in Range(u)
  <2>1. PICK n \in DOMAIN s : s[n] = x
    BY <1>0
  <2>2. CASE n # 1
    <3>1. n - 1 \in DOMAIN u /\ (n - 1) + 1 = n
      BY <1>1, <1>3, <2>2
    <3>2. u[n - 1] = s[n]
      BY <1>2, <1>3, <3>1
    <3> QED
      BY <2>1, <3>1, <3>2 DEF Range
  <2> QED
    BY <2>1, <2>2
<1>6. s[1] \in S /\ \A n \in DOMAIN u : u[n] \in S
  BY <1>1, <1>2
<1>7. S = {s[1]} \cup Range(u)
  BY <1>5, <1>6 DEF Range
<1>8. u = << >> => Range(u) = {}
  BY DEF Range
<1> QED
  BY <1>1, <1>4, <1>7, <1>8 DEF S, u

\* The invariant does not depend on anything but these.
LEMMA ExecutionStays ==
    ASSUME ExecutionInv, workspace' = workspace, task' = task, pending' = pending,
           ran' = ran, stage' = "commands" => stage = "commands",
           result' = result \/ result' \notin {"success", "unknown"}
    PROVE  ExecutionInv'
<1>1. Declared' = Declared /\ Images' = Images /\ NotForTheHost' = NotForTheHost
  BY SaysTheSame
<1> QED
  BY <1>1 DEF ExecutionInv

\* A command line that clap lets through is a task.
LEMMA LineIsTask ==
    ASSUME NEW line \in Lines
    PROVE  IsTask(normalize_legacy_args(line))
<1>1. /\ normalize_legacy_args(line).word = line.word
      /\ normalize_legacy_args(line).args = line.legacy \o line.args
  BY DEF normalize_legacy_args
<1> QED
  BY <1>1, LinesAssumption DEF IsTask

\* A task starts with all its commands pending, or none is and it is refused.
LEMMA TaskBegins == DiscoveryInv /\ ExecutionInv /\ (TaskStarted \/ TaskRefused) => ExecutionInv'
<1> SUFFICES ASSUME DiscoveryInv, ExecutionInv, TaskStarted \/ TaskRefused
             PROVE  ExecutionInv'
  OBVIOUS
<1>0. /\ stage = "ready" /\ workspace' = workspace /\ ran' = ran
  BY DEF TaskStarted, TaskRefused
<1>1. Declared' = Declared /\ Images' = Images /\ NotForTheHost' = NotForTheHost
  BY <1>0, SaysTheSame
<1>2. IsWorkspace(workspace) /\ RegistryOfSet /\ result = "running"
  BY <1>0 DEF DiscoveryInv
<1>3. CASE TaskStarted
  <2>1. PICK line \in Lines :
          /\ Commands(normalize_legacy_args(line)) # << >>
          /\ task' = normalize_legacy_args(line)
          /\ pending' = Commands(normalize_legacy_args(line))
          /\ stage' = "commands" /\ result' = result
    BY <1>3 DEF TaskStarted
  <2>2. Serves(normalize_legacy_args(line), Commands(normalize_legacy_args(line)))
    BY <1>2, LineIsTask, CommandsServe
  <2>3. /\ pending' \in Seq(Range(pending')) /\ pending' # << >>
        /\ DoneWith(Declared, Images, NotForTheHost, task', Range(pending'))
    BY <2>1, <2>2 DEF Serves
  <2>4. DoneWith(Declared, Images, NotForTheHost, task', ran' \cup Range(pending'))
    BY <2>3, MoreDoMore
  <2> QED
    BY <1>1, <1>2, <2>1, <2>3, <2>4 DEF ExecutionInv
<1>4. CASE TaskRefused
  <2>1. PICK line \in Lines :
          /\ Commands(normalize_legacy_args(line)) = << >>
          /\ task' = normalize_legacy_args(line)
          /\ stage' = "ended" /\ result' = "unknown"
    BY <1>4 DEF TaskRefused
  <2>2. Serves(normalize_legacy_args(line), Commands(normalize_legacy_args(line)))
    BY <1>2, LineIsTask, CommandsServe
  <2>3. NothingMeant(Declared, Images, task')
    BY <2>1, <2>2 DEF Serves
  <2> QED
    BY <1>1, <2>1, <2>3 DEF ExecutionInv
<1> QED
  BY <1>3, <1>4

\* A command that succeeds is no longer pending; the last one ends the task.
LEMMA CommandDoneKeeps == DiscoveryInv /\ ExecutionInv /\ CommandDone => ExecutionInv'
<1> SUFFICES ASSUME DiscoveryInv, ExecutionInv, CommandDone
             PROVE  ExecutionInv'
  OBVIOUS
<1>0. /\ stage = "commands" /\ workspace' = workspace /\ task' = task
      /\ ran' = ran \cup {Head(pending)} /\ pending' = Tail(pending)
      /\ IF Tail(pending) = << >> THEN stage' = "ended" /\ result' = "success"
         ELSE stage' = stage /\ result' = result
  BY DEF CommandDone
<1>1. Declared' = Declared /\ Images' = Images /\ NotForTheHost' = NotForTheHost
  BY <1>0, SaysTheSame
<1>2. /\ pending \in Seq(Range(pending)) /\ pending # << >>
      /\ DoneWith(Declared, Images, NotForTheHost, task, ran \cup Range(pending))
      /\ result = "running"
  BY <1>0 DEF ExecutionInv, DiscoveryInv
<1>3. /\ Tail(pending) \in Seq(Range(Tail(pending)))
      /\ Range(pending) = {Head(pending)} \cup Range(Tail(pending))
      /\ Tail(pending) = << >> => Range(pending) = {Head(pending)}
  BY <1>2, FirstAndOthers
<1>4. CASE Tail(pending) = << >>
  <2>1. ran \cup Range(pending) = ran'
    BY <1>0, <1>3, <1>4
  <2>2. DoneWith(Declared, Images, NotForTheHost, task, ran')
    BY <1>2, <2>1
  <2> QED
    BY <1>0, <1>1, <1>4, <2>2 DEF ExecutionInv
<1>5. CASE Tail(pending) # << >>
  <2>1. ran \cup Range(pending) = ran' \cup Range(pending')
    BY <1>0, <1>3
  <2>2. DoneWith(Declared, Images, NotForTheHost, task, ran' \cup Range(pending'))
    BY <1>2, <2>1
  <2> QED
    BY <1>0, <1>1, <1>2, <1>3, <1>5, <2>2 DEF ExecutionInv
<1> QED
  BY <1>4, <1>5

\* Every step keeps what execute knows.
LEMMA ExecutionInductive ==
    DiscoveryInv /\ ExecutionInv /\ [BuildNext]_bvars => ExecutionInv'
<1> SUFFICES ASSUME DiscoveryInv, ExecutionInv, [BuildNext]_bvars
             PROVE  ExecutionInv'
  OBVIOUS
<1>1. CASE TaskStarted \/ TaskRefused
  BY <1>1, TaskBegins
<1>2. CASE CommandDone
  BY <1>2, CommandDoneKeeps
<1>3. CASE MetadataUnreadable \/ PackageRefused \/ FirmwareRefused \/ CommandFailed
  <2>1. /\ workspace' = workspace /\ task' = task /\ pending' = pending /\ ran' = ran
        /\ stage' = "ended" /\ result' \in {"unread", "refused", "failed"}
    BY <1>3 DEF MetadataUnreadable, PackageRefused, FirmwareRefused, CommandFailed
  <2> QED
    BY <2>1, ExecutionStays
<1>4. CASE PackageRead \/ PackagesRead \/ FirmwareRegistered \/ Discovered
  <2>1. /\ workspace' = workspace /\ task' = task /\ pending' = pending /\ ran' = ran
        /\ stage' # "commands" /\ result' = result
    BY <1>4 DEF PackageRead, PackagesRead, FirmwareRegistered, Discovered
  <2> QED
    BY <2>1, ExecutionStays
<1>5. CASE UNCHANGED bvars
  <2>1. /\ workspace' = workspace /\ task' = task /\ pending' = pending /\ ran' = ran
        /\ stage' = stage /\ result' = result
    BY <1>5 DEF bvars
  <2> QED
    BY <2>1, ExecutionStays
<1> QED
  BY <1>1, <1>2, <1>3, <1>4, <1>5 DEF BuildNext

\* A task that reports success has done all the workspace demands of it, and a
\* task is refused only if nothing in the workspace bears the name it was given:
\* build_all, doctor, host_tests and the lookups Registry::board and
\* Registry::firmware, for every workspace and every command line.
THEOREM TasksCover == BuildSpec => []TasksCoverWorkspace
<1>1. BuildInit => ExecutionInv
  BY DEF BuildInit, ExecutionInv
<1>2. ExecutionInv => TasksCoverWorkspace
  BY CoverageRestated DEF ExecutionInv
<1> QED
  BY <1>1, <1>2, DiscoveryStarts, DiscoveryInductive, ExecutionInductive, PTL DEF BuildSpec

=============================================================================
