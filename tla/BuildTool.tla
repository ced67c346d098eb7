------------------------------ MODULE BuildTool ------------------------------
(***************************************************************************)
(* cargo xtask (tools/xtask): the registry of boards and firmware that is  *)
(* discovered from the metadata of the workspace's packages, and the       *)
(* commands each task runs from it, one after the other until one fails.   *)
(*                                                                         *)
(* A text is a natural number, ordered as the texts are; no text is a      *)
(* proper prefix of another, so that selectors compare piece by piece.     *)
(* Empty is the empty text, Slashed one with a slash, Spaced one with      *)
(* white space, Missing a field that is absent or no text at all, and      *)
(* Default the variant "default".  A selector is <<board>> or              *)
(* <<board, variant>>; the name of a package is a selector of one piece.   *)
(* An optional value is a set of at most one element.                      *)
(*                                                                         *)
(* Cargo and rustup are external: a command succeeds or fails.             *)
(***************************************************************************)
EXTENDS Naturals, Sequences, FiniteSets, SequencesExt

CONSTANTS Workspaces,   \* the sequences of packages cargo metadata may report
          Lines,        \* the command lines: [word, legacy, args]
          Empty, Slashed, Spaced, Missing, Default

\* The members of a cargo workspace have names of their own, and each has at
\* most one board and one firmware table, whose fields are texts.
ASSUME WorkspacesAssumption ==
    \A w \in Workspaces :
        /\ w \in Seq(Range(w))
        /\ \A i, j \in DOMAIN w : w[i].name = w[j].name => i = j
        /\ \A i \in DOMAIN w : /\ \A b, c \in w[i].board : b = c /\ b.id \in Nat
                               /\ \A f, g \in w[i].firmware :
                                     f = g /\ f.board \in Nat /\ f.variant \in Nat

\* clap knows these tasks only, and refuses build and run without a name.
ASSUME LinesAssumption ==
    \A line \in Lines :
        /\ line.word \in {"build", "run", "build-all", "check", "test", "doctor", "list", "targets"}
        /\ line.word \in {"build", "run"} => line.legacy \o line.args # << >>

VARIABLES workspace,    \* the packages, in the order cargo reports them
          stage,        \* what from_packages or execute is doing
          next,         \* the index of the loop at stage
          boards,       \* Registry::boards, by id
          found,        \* firmware_metadata
          firmware,     \* Registry::firmware
          exclusions,   \* Registry::host_exclusions
          task,         \* the task the command line asks for
          pending,      \* the commands the task has still to run
          ran,          \* the commands that succeeded
          result        \* how the process ended
bvars == <<workspace, stage, next, boards, found, firmware, exclusions, task, pending, ran, result>>

NoTask == [word |-> "none", args |-> <<>>]

BuildInit ==
    /\ workspace \in Workspaces
    /\ stage = "packages" /\ next = 1
    /\ boards = << >> /\ found = << >> /\ firmware = << >> /\ exclusions = {}
    /\ task = NoTask /\ pending = << >> /\ ran = {} /\ result = "running"

-----------------------------------------------------------------------------
(* Registry::discover, and the first loop of from_packages.                *)

MetadataUnreadable ==
    /\ stage = "packages" /\ next = 1
    /\ stage' = "ended" /\ result' = "unread"
    /\ UNCHANGED <<workspace, next, boards, found, firmware, exclusions, task, pending, ran>>

BoardParses(b) == b.id # Missing /\ b.target # Missing

validate_board_metadata(b) ==
    /\ b.id \notin {Empty, Slashed}
    /\ b.target # Empty
    /\ b.runner # << >>
    /\ Range(b.runner) \cap {Empty, Spaced} = {}

\* Mutant: the board is looked up as the package is read.
FirmwareParsesKnown(f) == Missing \notin {f.board, f.variant} /\ f.board \in DOMAIN boards
FirmwareParses(f) == Missing \notin {f.board, f.variant}

PackageAccepted(p) ==
    /\ \A b \in p.board :
          BoardParses(b) /\ validate_board_metadata(b) /\ b.id \notin DOMAIN boards
    /\ \A f \in p.firmware : FirmwareParses(f)

\* The first early return ends the process: no package after it is read.
PackageRefused ==
    /\ stage = "packages" /\ next <= Len(workspace)
    /\ ~PackageAccepted(workspace[next])
    /\ stage' = "ended" /\ result' = "refused"
    /\ UNCHANGED <<workspace, next, boards, found, firmware, exclusions, task, pending, ran>>

PackageRead ==
    /\ stage = "packages" /\ next <= Len(workspace)
    /\ LET p == workspace[next]
       IN /\ PackageAccepted(p)
          /\ boards' = [id \in DOMAIN boards \cup {b.id : b \in p.board} |->
                          IF id \in DOMAIN boards THEN boards[id]
                          ELSE [package |-> p.name, metadata |-> CHOOSE b \in p.board : TRUE]]
          /\ found' = found \o SetToSeq({[package |-> p.name, metadata |-> f] : f \in p.firmware})
          /\ exclusions' = IF p.hostCheck /\ p.firmware = {} THEN exclusions
                           ELSE exclusions \cup {p.name}
    /\ next' = next + 1
    /\ UNCHANGED <<workspace, stage, firmware, task, pending, ran, result>>

PackagesRead ==
    /\ stage = "packages" /\ next > Len(workspace)
    /\ stage' = "firmware" /\ next' = 1
    /\ UNCHANGED <<workspace, boards, found, firmware, exclusions, task, pending, ran, result>>

-----------------------------------------------------------------------------
(* Registry::from_packages, the second loop and the sort.                  *)

firmware_selector(board, variant) ==
    IF variant = Default THEN <<board>> ELSE <<board, variant>>

Selectors == {firmware[i].selector : i \in DOMAIN firmware}

FirmwareAccepted(f) ==
    /\ f.board \in DOMAIN boards
    /\ f.variant \notin {Empty, Slashed}
    /\ firmware_selector(f.board, f.variant) \notin Selectors

FirmwareRefused ==
    /\ stage = "firmware" /\ next <= Len(found)
    /\ ~FirmwareAccepted(found[next].metadata)
    /\ stage' = "ended" /\ result' = "refused"
    /\ UNCHANGED <<workspace, next, boards, found, firmware, exclusions, task, pending, ran>>

FirmwareRegistered ==
    /\ stage = "firmware" /\ next <= Len(found)
    /\ LET f == found[next].metadata
       IN /\ FirmwareAccepted(f)
          /\ firmware' = Append(firmware,
                [package |-> found[next].package, board |-> f.board,
                 selector |-> firmware_selector(f.board, f.variant)])
    /\ next' = next + 1
    /\ UNCHANGED <<workspace, stage, boards, found, exclusions, task, pending, ran, result>>

\* The order of two selectors: by board, then the default variant first.
SortsBefore(s, t) ==
    \/ s[1] < t[1]
    \/ s[1] = t[1] /\ Len(s) < Len(t)
    \/ s[1] = t[1] /\ Len(s) = 2 /\ Len(t) = 2 /\ s[2] < t[2]

\* The elements of a finite set S in order, given what comes before each.
Sorted(S, before) ==
    [n \in 1 .. Cardinality(S) |-> CHOOSE x \in S : Cardinality(before[x]) = n - 1]

BySelector(set) ==
    Sorted(set, [f \in set |-> {g \in set : SortsBefore(g.selector, f.selector)}])

Discovered ==
    /\ stage = "firmware" /\ next > Len(found)
    /\ firmware' = BySelector(Range(firmware))
    /\ stage' = "ready"
    /\ UNCHANGED <<workspace, next, boards, found, exclusions, task, pending, ran, result>>

-----------------------------------------------------------------------------
(* The tasks.  Each is the sequence of its commands; the lookups give an    *)
(* empty set where the code returns an error.                              *)

\* build-NAME and run-NAME are the older form of build NAME and run NAME;
\* build-all is a subcommand of its own.
normalize_legacy_args(line) ==
    [word |-> line.word, args |-> line.legacy \o line.args]

\* Registry::board: by id first, then by the name of its package.
board(text) ==
    IF text \in DOMAIN boards THEN {boards[text]}
    ELSE {boards[id] : id \in {i \in DOMAIN boards : boards[i].package = text}}

\* Registry::firmware: the first, by selector, that has the selector or the name.
MatchesFirmware(f, selector) == f.selector = selector \/ <<f.package>> = selector
firmware_(selector) ==
    LET Matches(i) == MatchesFirmware(firmware[i], selector)
    IN {firmware[i] : i \in {k \in DOMAIN firmware :
                                Matches(k) /\ \A j \in 1 .. (k - 1) : ~Matches(j)}}

Command(do, on, for, with) == [do |-> do, on |-> on, for |-> for, with |-> with]

build_firmware(f) ==
    Command("build", {f.package}, {boards[f.board].metadata.target}, << >>)

run(f) ==
    LET b == boards[f.board].metadata IN Command("run", {f.package}, {b.target}, b.runner)

\* What the sequence s has at the places P, in the same order.
Picked(s, P) ==
    LET place == Sorted(P, [i \in P |-> {j \in P : j < i}])
    IN [n \in DOMAIN place |-> s[place[n]]]

\* Mutant: the filter is compared before it is resolved to an id.
SelectedUnresolved(filter) ==
    Picked(firmware, {i \in DOMAIN firmware : filter = << >> \/ <<firmware[i].board>> = filter})
Selected(filter) ==
    Picked(firmware, {i \in DOMAIN firmware :
        filter = << >> \/ \E b \in board(filter[1]) : firmware[i].board = b.metadata.id})

host_tests == <<Command("test", exclusions, {}, << >>)>>
check == <<Command("fmt", {}, {}, << >>), Command("clippy", exclusions, {}, << >>)>> \o host_tests

\* The boards doctor goes through, in the order of their ids.
DoctorBoards(filter) ==
    LET S == IF filter = << >> THEN Range(boards) ELSE board(filter[1])
    IN Sorted(S, [b \in S |-> {c \in S : c.metadata.id < b.metadata.id}])

\* For each board its target, then its tool ...
DoctorChecks(chosen) ==
    [n \in 1 .. 2 * Len(chosen) |->
        LET b == chosen[(n + 1) \div 2].metadata
        IN IF n % 2 = 1 THEN Command("target", {}, {b.target}, << >>)
           ELSE Command("--version", {}, {}, <<b.runner[1]>>)]

\* ... unless they were checked before.
doctor(filter) ==
    LET checks == DoctorChecks(DoctorBoards(filter))
    IN <<Command("rustup", {}, {}, << >>)>> \o
       Picked(checks, {n \in DOMAIN checks : \A m \in 1 .. (n - 1) : checks[m] # checks[n]})

Targets == {boards[id].metadata.target : id \in DOMAIN boards}
targets == <<Command("print", {}, Targets, << >>)>>
list == <<Command("print", {b.package : b \in Range(boards)} \cup {f.package : f \in Range(firmware)},
                  Targets, << >>)>>

\* The commands of a task: none where it returns an error before the first.
Commands(t) ==
    CASE t.word = "build"     -> SetToSeq({build_firmware(f) : f \in firmware_(t.args[1])})
      [] t.word = "run"       -> SetToSeq({run(f) : f \in firmware_(t.args[1])})
      [] t.word = "build-all" ->
            LET s == Selected(t.args) IN [i \in DOMAIN s |-> build_firmware(s[i])]
      [] t.word = "check"     -> check
      [] t.word = "test"      -> host_tests
      [] t.word = "doctor"    -> IF DoctorBoards(t.args) = << >> THEN << >> ELSE doctor(t.args)
      [] t.word = "list"      -> list
      [] t.word = "targets"   -> IF Targets = {} THEN << >> ELSE targets

-----------------------------------------------------------------------------
(* execute.  Discovery does not look at the task, which is chosen here.    *)

TaskStarted == \E line \in Lines :
    LET t == normalize_legacy_args(line)
    IN /\ stage = "ready"
       /\ Commands(t) # << >>
       /\ task' = t /\ pending' = Commands(t) /\ stage' = "commands"
       /\ UNCHANGED <<workspace, next, boards, found, firmware, exclusions, ran, result>>

TaskRefused == \E line \in Lines :
    LET t == normalize_legacy_args(line)
    IN /\ stage = "ready"
       /\ Commands(t) = << >>
       /\ task' = t /\ stage' = "ended" /\ result' = "unknown"
       /\ UNCHANGED <<workspace, next, boards, found, firmware, exclusions, pending, ran>>

CommandDone ==
    /\ stage = "commands"
    /\ ran' = ran \cup {Head(pending)}
    /\ pending' = Tail(pending)
    /\ IF Tail(pending) = << >> THEN stage' = "ended" /\ result' = "success"
       ELSE UNCHANGED <<stage, result>>
    /\ UNCHANGED <<workspace, next, boards, found, firmware, exclusions, task>>

\* The process could not be started or exited with a failure; printing has none.
CommandFailed ==
    /\ stage = "commands" /\ Head(pending).do # "print"
    /\ stage' = "ended" /\ result' = "failed"
    /\ UNCHANGED <<workspace, next, boards, found, firmware, exclusions, task, pending, ran>>

BuildNext ==
    \/ MetadataUnreadable \/ PackageRefused \/ PackageRead \/ PackagesRead
    \/ FirmwareRefused \/ FirmwareRegistered \/ Discovered
    \/ TaskStarted \/ TaskRefused \/ CommandDone \/ CommandFailed

BuildSpec == BuildInit /\ [][BuildNext]_bvars

-----------------------------------------------------------------------------
(* What the workspace says, whatever the order of its packages.            *)

Packages == Range(workspace)
Declared == UNION {{[package |-> p.name, metadata |-> b] : b \in p.board} : p \in Packages}
Images == UNION {{[package |-> p.name, board |-> f.board,
                   selector |-> firmware_selector(f.board, f.variant)] : f \in p.firmware} : p \in Packages}
NotForTheHost == {p.name : p \in {q \in Packages : ~q.hostCheck \/ q.firmware # {}}}

WellFormed ==
    /\ \A d \in Declared : BoardParses(d.metadata) /\ validate_board_metadata(d.metadata)
    /\ \A d, e \in Declared : d.metadata.id = e.metadata.id => d = e
    /\ \A p \in Packages : \A f \in p.firmware :
          {f.board, f.variant} \cap {Empty, Slashed, Missing} = {}
    /\ \A i \in Images : \E d \in Declared : d.metadata.id = i.board
    /\ \A i, j \in Images : i.selector = j.selector => i = j

(* Discovery does not depend on the order in which cargo reports the       *)
(* packages: a workspace is refused exactly when some package, or pair of  *)
(* packages, is at fault, and one that is accepted gives the registry of   *)
(* the set of its packages, firmware sorted by selector (from_packages).   *)
DiscoveryIsOrderFree ==
    /\ result = "refused" => ~WellFormed
    /\ stage \in {"ready", "commands"} \/ result \in {"success", "unknown", "failed"} =>
          /\ WellFormed
          /\ Range(boards) = Declared /\ \A id \in DOMAIN boards : boards[id].metadata.id = id
          /\ firmware = BySelector(Images)
          /\ exclusions = NotForTheHost

\* The boards that the argument of a task names: by id, or else by package.
Means(d, args) ==
    \/ args = << >>
    \/ args[1] = d.metadata.id
    \/ args[1] = d.package /\ \A e \in Declared : e.metadata.id # args[1]
BoardOf(i) == CHOOSE d \in Declared : d.metadata.id = i.board
Ran(do, on, for) == \E c \in ran : c.do = do /\ c.on = on /\ c.for = for

(* A task that reports success has done all the workspace demands of it:   *)
(* build-all has built every image of the boards named for the target its  *)
(* board declares, build and run an image of that name, doctor has seen    *)
(* every target and tool, and the host commands have left out every image  *)
(* and every package that asks for it.  A task is refused only if nothing  *)
(* in the workspace bears the name it was given (build_all, doctor,        *)
(* host_tests, Registry::board, Registry::firmware).                       *)
TasksCoverWorkspace ==
    LET boardsMeant == {d \in Declared : Means(d, task.args)}
        imagesOfBoards == {i \in Images : Means(BoardOf(i), task.args)}
        imagesMeant == {i \in Images : task.args # << >> /\ MatchesFirmware(i, task.args[1])}
    IN
    /\ result = "success" =>
        /\ task.word = "build-all" => \A i \in imagesOfBoards :
              Ran("build", {i.package}, {BoardOf(i).metadata.target})
        /\ task.word \in {"build", "run"} => \E i \in imagesMeant :
              Ran(task.word, {i.package}, {BoardOf(i).metadata.target})
        /\ task.word = "doctor" => \A d \in boardsMeant :
              /\ Ran("target", {}, {d.metadata.target})
              /\ \E c \in ran : c.do = "--version" /\ c.with = <<d.metadata.runner[1]>>
        /\ task.word = "check" => Ran("fmt", {}, {}) /\ Ran("clippy", NotForTheHost, {})
        /\ task.word \in {"check", "test"} => Ran("test", NotForTheHost, {})
    /\ result = "unknown" =>
        /\ task.word = "build-all" => imagesOfBoards = {}
        /\ task.word \in {"build", "run"} => imagesMeant = {}
        /\ task.word \in {"doctor", "targets"} => boardsMeant = {}
=============================================================================
