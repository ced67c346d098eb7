---------------------------- MODULE MCBuildTool ----------------------------
(* Workspaces of up to MaxPackages of the packages below, in every order.  *)
(* Texts: 0 missing, 1 empty, 2 with a slash, 3 with white space, 4 the    *)
(* default variant, 5 and 6 board ids, 7 a variant, 8 a target, 9 a tool;  *)
(* packages from 10 on, and two packages that bear the id of a board.      *)
EXTENDS BuildTool

CONSTANT MaxPackages

Plain(name) == [name |-> name, board |-> {}, firmware |-> {}, hostCheck |-> TRUE]
Board(name, id, target, runner) ==
    [Plain(name) EXCEPT !.board = {[id |-> id, target |-> target, runner |-> runner]}]
Image(name, of, variant) ==
    [Plain(name) EXCEPT !.firmware = {[board |-> of, variant |-> variant]}]

MCPackages ==
    { Plain(10), [Plain(11) EXCEPT !.hostCheck = FALSE],
      Board(12, 5, 8, <<9>>), Board(13, 6, 8, <<9, 10>>), Board(6, 5, 8, <<9>>),
      Board(15, 2, 8, <<9>>), Board(16, 6, 1, <<9>>), Board(17, 6, 8, <<3>>),
      Board(18, 6, 0, <<9>>), Board(19, 6, 8, << >>),
      Image(20, 5, 4), Image(21, 5, 7), Image(22, 6, 7), Image(23, 5, 7),
      Image(24, 5, 2), Image(25, 0, 4),
      \* an image with the name of a board's id, and a board in one package with an image
      Image(5, 6, 4), [Board(26, 6, 8, <<9>>) EXCEPT !.firmware = {[board |-> 6, variant |-> 4]}] }

MCWorkspaces ==
    {w \in UNION {[1..n -> MCPackages] : n \in 0..MaxPackages} : IsInjective(w)}

Named(word, arg) == [word |-> word, legacy |-> << >>, args |-> <<arg>>]
Bare(word) == [word |-> word, legacy |-> << >>, args |-> << >>]
Legacy(word, arg) == [word |-> word, legacy |-> <<arg>>, args |-> << >>]

MCLines ==
    {Bare(w) : w \in {"check", "test", "list", "targets", "build-all", "doctor"}}
    \cup {Named(w, a) : w \in {"build-all", "doctor"}, a \in {5, 6, 12}}
    \cup {Named(w, a) : w \in {"build", "run"}, a \in {<<5>>, <<5, 7>>, <<22>>}}
    \cup {Legacy("run", <<20>>)}
=============================================================================
