------------------------------ MODULE MCMachine -----------------------------
(* What is done at the machine itself: a machine set up and cleaned up, by  *)
(* two commands of any kind; one that is updated twice, whatever happens to *)
(* the updates, with nothing of it outside the tree; the block in an rc     *)
(* file of every content; and the QR code.  A behaviour is one of one part; *)
(* the others stand still.                                                  *)
EXTENDS Setup, Qr

CONSTANT Bad

VARIABLES part, file

Again == INSTANCE Setup WITH
  Dirs <- InstallDirs, Accounts <- {}, Rcs <- {}, Kinds <- {"systemd"}, MaxTrees <- 3, MaxRuns <- 3

Block == INSTANCE RcBlock WITH MaxLen <- 7

Long(n) == [i \in 1 .. n |-> Bits((37 * i + 11) % 256)]

Scene(text, masks, spots, values, formats) ==
    [text |-> text, masks |-> masks, spots |-> spots, values |-> values, formats |-> formats]

\* Every mask; every damage one block bears; two blocks of correction; four
\* blocks of two sizes, a long count and marks of the version, filled to the
\* last byte.
MCScenes == {
    Scene(<<>>, 0 .. 7, {1}, {{0}}, {{0, 7, 14}}),
    Scene(Long(17), {3}, {1, 19, 20, 26}, {{0}, 0 .. 7}, {}),
    Scene(Long(134), {0}, {1, 2}, {0 .. 7}, {}),
    Scene(Long(271), {6}, {274}, {{3}}, {})}

Updated == Again!Init /\ ~git /\ mixed = {}

NoFile == file = <<>>
NoCode == /\ exp = <<>> /\ log = <<>> /\ turn = <<>> /\ path = <<>> /\ scene = None /\ board = {}
          /\ hit = {} /\ stage = "blank" /\ flip = FALSE /\ blocks = <<>> /\ got = Unread

MachineInit ==
    \/ part = "once" /\ Init /\ NoFile /\ NoCode
    \/ part = "again" /\ Updated /\ NoFile /\ NoCode
    \/ part = "rc" /\ Updated /\ Block!Init /\ NoCode
    \/ part = "qr" /\ Updated /\ NoFile /\ QrInit

MachineNext ==
    /\ UNCHANGED part
    /\ \/ part = "once" /\ Next /\ UNCHANGED <<file, qrVars>>
       \/ /\ part = "again" /\ Again!Next
          /\ UNCHANGED <<hung, pend, late, signed, file, qrVars>>
       \/ part = "rc" /\ Block!Next /\ UNCHANGED <<vars, qrVars>>
       \/ part = "qr" /\ QrNext /\ UNCHANGED <<vars, file>>

\* All but out: while a command runs, it is None, and no action reads it.
MachineView == <<part, world, trees, agent, asked, state, placed, broken, run, runs, file, qrVars>>

\* Nothing is looked at after the last command.
MachineBound == run # None \/ runs < (IF part = "once" THEN MaxRuns ELSE 3)

MachineSpec == MachineInit /\ [][MachineNext]_<<part, vars, file, qrVars>>

-----------------------------------------------------------------------------
\* The block goes into a file and out of it and the user's lines stay
\* (install-relay.mjs applyBlock, removeBlock).
BlockInAndOut == part = "rc" => Block!BlockInAndOut
=============================================================================
