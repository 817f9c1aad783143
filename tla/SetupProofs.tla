---------------------------- MODULE SetupProofs -----------------------------
(***************************************************************************)
(* Proofs about Setup, for any directories, accounts, rc files and service  *)
(* managers, and any number of commands and trees: what an uninstall that   *)
(* reports success has removed, what is spared of an agent that runs, and   *)
(* that there is a way back from wherever a command stops.                  *)
(***************************************************************************)
EXTENDS Setup, WellFoundedInduction, TLAPS

-----------------------------------------------------------------------------
(* A command and the steps it is at.                                        *)

\* The steps that an uninstall has yet to take when it has come to a step.
FromLogout == {"logout", "recheck", "stop", "gone", "hooks", "notify",
               "plan", "rc", "shim", "cli", "service", "purge", "tree"}
FromRecheck == {"recheck", "stop", "gone", "hooks", "notify", "plan", "rc",
              "shim", "cli", "service", "purge", "tree"}
FromGone == {"gone", "hooks", "notify", "plan", "rc", "shim", "cli",
             "service", "purge", "tree"}
FromHooks == {"hooks", "notify", "plan", "rc", "shim", "cli", "service",
              "purge", "tree"}
FromNotify == {"notify", "plan", "rc", "shim", "cli", "service", "purge",
               "tree"}
FromPlan == {"plan", "rc", "shim", "cli", "service", "purge", "tree"}
FromShim == {"shim", "cli", "service", "purge", "tree"}
FromCli == {"cli", "service", "purge", "tree"}
FromService == {"service", "purge", "tree"}
FromPurge == {"purge", "tree"}

\* The steps of each command.
UninstallSteps == {"gate", "logout", "recheck", "stop", "gone", "hooks",
                   "notify", "plan", "rc", "shim", "cli", "service",
                   "purge", "tree"}
InstallSteps == {"gate", "stop", "aside", "place", "service", "notify",
                 "token", "hooks", "plan", "rc", "shim", "cli", "prune"}
PullSteps == {"gate", "restart", "notify", "hooks", "plan", "rc", "shim",
              "cli", "prune"}

\* A command under way, field by field.
Commands == [cmd : {"uninstall", "install", "pull"},
             at : UninstallSteps \cup InstallSteps \cup PullSteps,
             dir : Dirs, force : BOOLEAN, purge : BOOLEAN,
             old : (1 .. MaxTrees) \cup {None},
             updating : BOOLEAN, rc0 : SUBSET Rcs, done : SUBSET Rcs, left : BOOLEAN]

\* A command is at one of its steps.
CommandOK ==
  run # None =>
    /\ run \in Commands
    /\ run.cmd = "uninstall" => run.at \in UninstallSteps
    /\ run.cmd = "install" => run.at \in InstallSteps
    /\ run.cmd = "pull" => run.at \in PullSteps

\* The command under way goes on with step a.
GoesOn(a) ==
  /\ run' \in Commands /\ run'.at = a
  /\ run'.cmd = run.cmd /\ run'.dir = run.dir /\ run'.force = run.force
  /\ run'.purge = run.purge /\ run'.updating = run.updating /\ run'.old = run.old

(* What follows each step of an uninstall.                                  *)
LEMMA AfterUninstall ==
  /\ Steps["uninstall"][1] = "gate"
  /\ CommandOK /\ run # None /\ run.cmd = "uninstall" /\ run.at # "tree" /\ Onward =>
       /\ run.at = "gate" => GoesOn("logout")
       /\ run.at = "logout" => GoesOn("recheck")
       /\ run.at = "recheck" => GoesOn("stop")
       /\ run.at = "stop" => GoesOn("gone")
       /\ run.at = "gone" => GoesOn("hooks")
       /\ run.at = "hooks" => GoesOn("notify")
       /\ run.at = "notify" => GoesOn("plan")
       /\ run.at = "plan" => GoesOn("rc")
       /\ run.at = "rc" => GoesOn("shim")
       /\ run.at = "shim" => GoesOn("cli")
       /\ run.at = "cli" => GoesOn("service")
       /\ run.at = "service" => GoesOn("purge")
       /\ run.at = "purge" => GoesOn("tree")
<1> DEFINE s == Steps["uninstall"]
           i == CHOOSE j \in DOMAIN s : s[j] = run.at
<1>1. s = <<"gate", "logout", "recheck", "stop", "gone", "hooks", "notify",
          "plan", "rc", "shim", "cli", "service", "purge", "tree">>
  BY DEF Steps
<1>2. /\ DOMAIN s = 1 .. 14
      /\ s[1] = "gate"
      /\ s[2] = "logout"
      /\ s[3] = "recheck"
      /\ s[4] = "stop"
      /\ s[5] = "gone"
      /\ s[6] = "hooks"
      /\ s[7] = "notify"
      /\ s[8] = "plan"
      /\ s[9] = "rc"
      /\ s[10] = "shim"
      /\ s[11] = "cli"
      /\ s[12] = "service"
      /\ s[13] = "purge"
      /\ s[14] = "tree"
  BY <1>1, SMTT(60)
<1>0. s[1] = "gate"
  BY <1>2
<1> SUFFICES ASSUME CommandOK, run # None, run.cmd = "uninstall", run.at # "tree", Onward
             PROVE /\ run.at = "gate" => GoesOn("logout")
                   /\ run.at = "logout" => GoesOn("recheck")
                   /\ run.at = "recheck" => GoesOn("stop")
                   /\ run.at = "stop" => GoesOn("gone")
                   /\ run.at = "gone" => GoesOn("hooks")
                   /\ run.at = "hooks" => GoesOn("notify")
                   /\ run.at = "notify" => GoesOn("plan")
                   /\ run.at = "plan" => GoesOn("rc")
                   /\ run.at = "rc" => GoesOn("shim")
                   /\ run.at = "shim" => GoesOn("cli")
                   /\ run.at = "cli" => GoesOn("service")
                   /\ run.at = "service" => GoesOn("purge")
                   /\ run.at = "purge" => GoesOn("tree")
  BY <1>0
<1>3. run \in Commands /\ run.at \in UninstallSteps /\ run' = [run EXCEPT !.at = s[i + 1]]
  BY DEF CommandOK, Onward
<1> HIDE DEF s
<1>4. \E j \in DOMAIN s : s[j] = run.at
  BY <1>2, <1>3 DEF UninstallSteps
<1>5. i \in DOMAIN s /\ s[i] = run.at
  BY <1>4
<1> HIDE DEF i
<1>6. ASSUME NEW a \in UninstallSteps, run' = [run EXCEPT !.at = a] PROVE GoesOn(a)
  <2>1. a \in UninstallSteps \cup InstallSteps \cup PullSteps
    OBVIOUS
  <2> QED BY <1>3, <1>6, <2>1 DEF GoesOn, Commands
<1>7. s[i + 1] \in UninstallSteps /\ GoesOn(s[i + 1])
  BY <1>2, <1>3, <1>5, <1>6 DEF UninstallSteps
<1> QED BY <1>2, <1>5, <1>7

(* What follows each step of an install.                                    *)
LEMMA AfterInstall ==
  /\ Steps["install"][1] = "gate"
  /\ CommandOK /\ run # None /\ run.cmd = "install" /\ run.at # "prune" /\ Onward =>
       /\ run.at = "gate" => GoesOn("stop")
       /\ run.at = "stop" => GoesOn("aside")
       /\ run.at = "aside" => GoesOn("place")
       /\ run.at = "place" => GoesOn("service")
       /\ run.at = "service" => GoesOn("notify")
       /\ run.at = "notify" => GoesOn("token")
       /\ run.at = "token" => GoesOn("hooks")
       /\ run.at = "hooks" => GoesOn("plan")
       /\ run.at = "plan" => GoesOn("rc")
       /\ run.at = "rc" => GoesOn("shim")
       /\ run.at = "shim" => GoesOn("cli")
       /\ run.at = "cli" => GoesOn("prune")
<1> DEFINE s == Steps["install"]
           i == CHOOSE j \in DOMAIN s : s[j] = run.at
<1>1. s = <<"gate", "stop", "aside", "place", "service", "notify", "token",
          "hooks", "plan", "rc", "shim", "cli", "prune">>
  BY DEF Steps
<1>2. /\ DOMAIN s = 1 .. 13
      /\ s[1] = "gate"
      /\ s[2] = "stop"
      /\ s[3] = "aside"
      /\ s[4] = "place"
      /\ s[5] = "service"
      /\ s[6] = "notify"
      /\ s[7] = "token"
      /\ s[8] = "hooks"
      /\ s[9] = "plan"
      /\ s[10] = "rc"
      /\ s[11] = "shim"
      /\ s[12] = "cli"
      /\ s[13] = "prune"
  BY <1>1, SMTT(60)
<1>0. s[1] = "gate"
  BY <1>2
<1> SUFFICES ASSUME CommandOK, run # None, run.cmd = "install", run.at # "prune", Onward
             PROVE /\ run.at = "gate" => GoesOn("stop")
                   /\ run.at = "stop" => GoesOn("aside")
                   /\ run.at = "aside" => GoesOn("place")
                   /\ run.at = "place" => GoesOn("service")
                   /\ run.at = "service" => GoesOn("notify")
                   /\ run.at = "notify" => GoesOn("token")
                   /\ run.at = "token" => GoesOn("hooks")
                   /\ run.at = "hooks" => GoesOn("plan")
                   /\ run.at = "plan" => GoesOn("rc")
                   /\ run.at = "rc" => GoesOn("shim")
                   /\ run.at = "shim" => GoesOn("cli")
                   /\ run.at = "cli" => GoesOn("prune")
  BY <1>0
<1>3. run \in Commands /\ run.at \in InstallSteps /\ run' = [run EXCEPT !.at = s[i + 1]]
  BY DEF CommandOK, Onward
<1> HIDE DEF s
<1>4. \E j \in DOMAIN s : s[j] = run.at
  BY <1>2, <1>3 DEF InstallSteps
<1>5. i \in DOMAIN s /\ s[i] = run.at
  BY <1>4
<1> HIDE DEF i
<1>6. ASSUME NEW a \in InstallSteps, run' = [run EXCEPT !.at = a] PROVE GoesOn(a)
  <2>1. a \in UninstallSteps \cup InstallSteps \cup PullSteps
    OBVIOUS
  <2> QED BY <1>3, <1>6, <2>1 DEF GoesOn, Commands
<1>7. s[i + 1] \in InstallSteps /\ GoesOn(s[i + 1])
  BY <1>2, <1>3, <1>5, <1>6 DEF InstallSteps
<1> QED BY <1>2, <1>5, <1>7

(* What follows each step of a pull.                                        *)
LEMMA AfterPull ==
  /\ Steps["pull"][1] = "gate"
  /\ CommandOK /\ run # None /\ run.cmd = "pull" /\ run.at # "prune" /\ Onward =>
       /\ run.at = "gate" => GoesOn("restart")
       /\ run.at = "restart" => GoesOn("notify")
       /\ run.at = "notify" => GoesOn("hooks")
       /\ run.at = "hooks" => GoesOn("plan")
       /\ run.at = "plan" => GoesOn("rc")
       /\ run.at = "rc" => GoesOn("shim")
       /\ run.at = "shim" => GoesOn("cli")
       /\ run.at = "cli" => GoesOn("prune")
<1> DEFINE s == Steps["pull"]
           i == CHOOSE j \in DOMAIN s : s[j] = run.at
<1>1. s = <<"gate", "restart", "notify", "hooks", "plan", "rc", "shim",
          "cli", "prune">>
  BY DEF Steps
<1>2. /\ DOMAIN s = 1 .. 9
      /\ s[1] = "gate"
      /\ s[2] = "restart"
      /\ s[3] = "notify"
      /\ s[4] = "hooks"
      /\ s[5] = "plan"
      /\ s[6] = "rc"
      /\ s[7] = "shim"
      /\ s[8] = "cli"
      /\ s[9] = "prune"
  BY <1>1, SMTT(60)
<1>0. s[1] = "gate"
  BY <1>2
<1> SUFFICES ASSUME CommandOK, run # None, run.cmd = "pull", run.at # "prune", Onward
             PROVE /\ run.at = "gate" => GoesOn("restart")
                   /\ run.at = "restart" => GoesOn("notify")
                   /\ run.at = "notify" => GoesOn("hooks")
                   /\ run.at = "hooks" => GoesOn("plan")
                   /\ run.at = "plan" => GoesOn("rc")
                   /\ run.at = "rc" => GoesOn("shim")
                   /\ run.at = "shim" => GoesOn("cli")
                   /\ run.at = "cli" => GoesOn("prune")
  BY <1>0
<1>3. run \in Commands /\ run.at \in PullSteps /\ run' = [run EXCEPT !.at = s[i + 1]]
  BY DEF CommandOK, Onward
<1> HIDE DEF s
<1>4. \E j \in DOMAIN s : s[j] = run.at
  BY <1>2, <1>3 DEF PullSteps
<1>5. i \in DOMAIN s /\ s[i] = run.at
  BY <1>4
<1> HIDE DEF i
<1>6. ASSUME NEW a \in PullSteps, run' = [run EXCEPT !.at = a] PROVE GoesOn(a)
  <2>1. a \in UninstallSteps \cup InstallSteps \cup PullSteps
    OBVIOUS
  <2> QED BY <1>3, <1>6, <2>1 DEF GoesOn, Commands
<1>7. s[i + 1] \in PullSteps /\ GoesOn(s[i + 1])
  BY <1>2, <1>3, <1>5, <1>6 DEF PullSteps
<1> QED BY <1>2, <1>5, <1>7

(* What follows a step, of whatever command.                                *)
LEMMA OnwardStep ==
  ASSUME CommandOK, run # None, run.at \notin {"tree", "prune"}, Onward
  PROVE  /\ out' = out /\ runs' = runs
         /\ run.at = "gate" => GoesOn(IF Removing THEN "logout"
                                      ELSE IF run.cmd = "install" THEN "stop" ELSE "restart")
         /\ run.at = "logout" => GoesOn("recheck")
         /\ run.at = "recheck" => GoesOn("stop")
         /\ run.at = "stop" => GoesOn(IF Removing THEN "gone" ELSE "aside")
         /\ run.at = "gone" => GoesOn("hooks")
         /\ run.at = "restart" => GoesOn("notify")
         /\ run.at = "aside" => GoesOn("place")
         /\ run.at = "place" => GoesOn("service")
         /\ run.at = "service" => GoesOn(IF Removing THEN "purge" ELSE "notify")
         /\ run.at = "notify" => GoesOn(IF Removing THEN "plan"
                                        ELSE IF run.cmd = "install" THEN "token" ELSE "hooks")
         /\ run.at = "token" => GoesOn("hooks")
         /\ run.at = "hooks" => GoesOn(IF Removing THEN "notify" ELSE "plan")
         /\ run.at = "shim" => GoesOn("cli")
         /\ run.at = "cli" => GoesOn(IF Removing THEN "service" ELSE "prune")
         /\ run.at = "purge" => GoesOn("tree")
<1>0. out' = out /\ runs' = runs
  BY DEF Onward
<1>1. CASE run.cmd = "uninstall"
  <2>1. run.at \in UninstallSteps
    BY <1>1 DEF CommandOK
  <2> QED BY <1>0, <1>1, <2>1, AfterUninstall DEF UninstallSteps, Removing
<1>2. CASE run.cmd = "install"
  <2>1. run.at \in InstallSteps
    BY <1>2 DEF CommandOK
  <2> QED BY <1>0, <1>2, <2>1, AfterInstall DEF InstallSteps, Removing
<1>3. CASE run.cmd = "pull"
  <2>1. run.at \in PullSteps
    BY <1>3 DEF CommandOK
  <2> QED BY <1>0, <1>3, <2>1, AfterPull DEF PullSteps, Removing
<1> QED BY <1>1, <1>2, <1>3 DEF CommandOK, Commands

(* A command begins at its first step.                                      *)
LEMMA FirstStep ==
  ASSUME SetupAssumption, NEW c \in {"uninstall", "install", "pull"}, NEW d \in Dirs,
         NEW f \in BOOLEAN, NEW p \in BOOLEAN, Begin(c, d, f, p)
  PROVE  /\ run = None /\ run' \in Commands /\ run'.at = "gate" /\ run'.cmd = c
         /\ run'.dir = d /\ run'.force = f /\ run'.purge = p
         /\ run'.updating = (tree # None) /\ CommandOK'
<1>1. Steps[c][1] = "gate"
  BY AfterUninstall, AfterInstall, AfterPull
<1>2. run = None /\ run' = Command(c, d, f, p)
  BY DEF Begin
<1>3. /\ Command(c, d, f, p) \in Commands
      /\ Command(c, d, f, p).at = "gate" /\ Command(c, d, f, p).cmd = c
      /\ Command(c, d, f, p).dir = d /\ Command(c, d, f, p).force = f
      /\ Command(c, d, f, p).purge = p /\ Command(c, d, f, p).updating = (tree # None)
  BY <1>1 DEF Command, Commands, UninstallSteps, InstallSteps, PullSteps
<1> QED
  BY <1>2, <1>3 DEF CommandOK, UninstallSteps, InstallSteps, PullSteps

(* The newest of the trees moved aside is one of them.                      *)
LEMMA NewestIsNat ==
  ASSUME SetupAssumption, olds \subseteq 1 .. MaxTrees
  PROVE  Newest \in Nat
<1>1. CASE olds = {}
  BY <1>1 DEF Newest
<1>2. CASE olds # {}
  <2> DEFINE R == OpToRel(<, Nat)
             T == {MaxTrees - v : v \in olds}
  <2>1. MaxTrees \in Nat /\ olds \subseteq Nat /\ \A v \in olds : MaxTrees - v \in Nat
    BY DEF SetupAssumption
  <2>2. T \subseteq Nat /\ T # {}
    BY <1>2, <2>1
  <2>3. IsWellFoundedOn(R, Nat)
    BY NatLessThanWellFounded
  <2>4. PICK x \in T : \A y \in T : ~ (<<y, x>> \in R)
    <3> HIDE DEF R, T
    <3> QED BY <2>2, <2>3, WFMin
  <2>5. PICK v \in olds : x = MaxTrees - v
    BY <2>4
  <2>6. \A w \in olds : w <= v
    <3> TAKE w \in olds
    <3>1. ~ (MaxTrees - w < MaxTrees - v)
      BY <2>1, <2>4, <2>5 DEF OpToRel
    <3> QED BY <3>1, <2>1
  <2>7. Newest \in olds
    BY <1>2, <2>5, <2>6, Zenon DEF Newest
  <2> QED BY <2>1, <2>7
<1> QED BY <1>1, <1>2

-----------------------------------------------------------------------------
(* The types.                                                               *)

\* What TypeOK says, variable by variable.
Types ==
  /\ kind \in Kinds /\ git \in BOOLEAN
  /\ tree \in (1 .. MaxTrees) \cup {None} /\ good \in (1 .. MaxTrees) \cup {None}
  /\ olds \subseteq 1 .. MaxTrees
  /\ svc \in Dirs \cup {None} /\ up \in Dirs \cup {None}
  /\ enabled \in BOOLEAN /\ hand \in BOOLEAN /\ hung \in BOOLEAN
  /\ pend \in BOOLEAN /\ late \in BOOLEAN
  /\ keys \subseteq Dirs /\ mixed \subseteq Dirs /\ signed \subseteq Dirs
  /\ slots \subseteq Dirs /\ told \subseteq Dirs /\ shim \subseteq Dirs /\ cli \subseteq Dirs
  /\ hooks \subseteq Accounts /\ rc \subseteq Rcs
  /\ broken \subseteq Accounts \cup Rcs
  /\ notify \in {"none", "ours", "edited"}
  /\ runs \in 0 .. MaxRuns

(* It says the same.                                                        *)
LEMMA TypeIsTypes == TypeOK <=> Types
BY DEF TypeOK, Types

\* An uninstall, or an install, is at one of these steps.
Uninstalling(steps) == run # None /\ run.cmd = "uninstall" /\ run.at \in steps
Installing(steps) == run # None /\ run.cmd = "install" /\ run.at \in steps

\* The steps of an install after it moved the tree aside, and after it placed another.
Moved == {"place", "service", "notify", "token", "hooks", "plan", "rc", "shim", "cli", "prune"}
Placed == {"service", "notify", "token", "hooks", "plan", "rc", "shim", "cli", "prune"}

\* An install replaces the tree, if there was one, and a git checkout stays.
TreeInv ==
  /\ git => tree # None
  /\ run # None => (run.cmd = "install" => ~git) /\ (run.cmd = "pull" => git)
  /\ Installing({"gate", "stop", "aside"}) => (run.updating <=> tree # None)
  /\ Installing({"place"}) => tree = None
  /\ Installing(Moved) /\ run.updating => run.old # None
  /\ Installing(Placed) => tree # None

(* The initial states are of their types.                                   *)
LEMMA InitType == SetupAssumption /\ Init => Types /\ CommandOK /\ TreeInv
<1> SUFFICES ASSUME SetupAssumption, Init PROVE Types /\ CommandOK /\ TreeInv
  OBVIOUS
<1>1. tree \in (1 .. MaxTrees) \cup {None} /\ (git => tree # None)
  BY DEF SetupAssumption, Init
<1>2. svc \in Dirs \cup {None} /\ enabled \in BOOLEAN
  BY DEF SetupAssumption, Init
<1>3. mixed \subseteq Dirs /\ 0 \in 0 .. MaxRuns
  BY DEF SetupAssumption, Init
<1> QED BY <1>1, <1>2, <1>3 DEF Init, Types, CommandOK, TreeInv, Installing

(* A command that goes on is at one of its steps, and so is one that stands  *)
(* still.                                                                   *)
LEMMA CommandGoesOn ==
  /\ CommandOK /\ run # None /\ run.at \notin {"tree", "prune"} /\ Onward => CommandOK'
  /\ CommandOK /\ UNCHANGED run => CommandOK'
  /\ run' = None => CommandOK'
<1>1. ASSUME CommandOK, run # None, run.at \notin {"tree", "prune"}, Onward PROVE CommandOK'
  <2>1. CASE run.cmd = "uninstall"
    <3>1. run.at \in UninstallSteps
      BY <1>1, <2>1 DEF CommandOK
    <3> QED BY <1>1, <2>1, <3>1, AfterUninstall DEF UninstallSteps, CommandOK, GoesOn
  <2>2. CASE run.cmd = "install"
    <3>1. run.at \in InstallSteps
      BY <1>1, <2>2 DEF CommandOK
    <3> QED BY <1>1, <2>2, <3>1, AfterInstall DEF InstallSteps, CommandOK, GoesOn
  <2>3. CASE run.cmd = "pull"
    <3>1. run.at \in PullSteps
      BY <1>1, <2>3 DEF CommandOK
    <3> QED BY <1>1, <2>3, <3>1, AfterPull DEF PullSteps, CommandOK, GoesOn
  <2> QED BY <1>1, <2>1, <2>2, <2>3 DEF CommandOK, Commands
<1> QED BY <1>1 DEF CommandOK

(* The steps that change more of a command than where it is.                *)
LEMMA OtherSteps ==
  ASSUME Types, CommandOK
  PROVE  /\ Token => \/ GoesOn("prune") /\ kind = "none"
                     \/ Onward /\ kind # "none"
                     \/ run' = None
         /\ RcPlan => GoesOn("rc") \/ run' = None
         /\ RcCommit => \/ GoesOn("rc") \/ run' = None
                        \/ GoesOn("shim") /\ RcTodo = {} /\ UNCHANGED rc
         /\ Purge => GoesOn("tree")
<1>1. ASSUME Token
      PROVE  (GoesOn("prune") /\ kind = "none") \/ (Onward /\ kind # "none") \/ run' = None
  <2>0. run \in Commands
    BY <1>1 DEF Token, At, CommandOK
  <2>1. CASE run' = [run EXCEPT !.at = "prune"] /\ kind = "none"
    <3>1. "prune" \in UninstallSteps \cup InstallSteps \cup PullSteps
      BY DEF InstallSteps
    <3> QED BY <2>0, <2>1, <3>1 DEF Commands, GoesOn
  <2> QED BY <1>1, <2>1 DEF Token, Ends
<1>2. ASSUME RcPlan PROVE GoesOn("rc") \/ run' = None
  <2>0. run \in Commands
    BY <1>2 DEF RcPlan, At, CommandOK
  <2>1. CASE run' = [run EXCEPT !.at = "rc", !.rc0 = rc, !.done = {}]
    <3>1. rc \in SUBSET Rcs /\ {} \in SUBSET Rcs
      BY DEF Types
    <3>2. "rc" \in UninstallSteps \cup InstallSteps \cup PullSteps
      BY DEF UninstallSteps
    <3> QED BY <2>0, <2>1, <3>1, <3>2 DEF Commands, GoesOn
  <2> QED BY <1>2, <2>1 DEF RcPlan, Ends
<1>3. ASSUME RcCommit
      PROVE  GoesOn("rc") \/ run' = None \/ (GoesOn("shim") /\ RcTodo = {} /\ UNCHANGED rc)
  <2>0. run \in Commands /\ run.at = "rc" /\ RcTodo \subseteq Rcs
    BY <1>3 DEF RcCommit, At, CommandOK, RcTodo, Types
  <2>1. CASE \E f \in RcTodo : run' = [run EXCEPT !.done = @ \cup {f}]
    <3>1. PICK f \in RcTodo : run' = [run EXCEPT !.done = @ \cup {f}]
      BY <2>1
    <3>2. run.done \cup {f} \in SUBSET Rcs
      BY <2>0 DEF Commands
    <3> QED BY <2>0, <3>1, <3>2 DEF Commands, GoesOn
  <2>2. CASE /\ run' = [run EXCEPT !.at = "shim", !.rc0 = {}, !.done = {}]
             /\ RcTodo = {} /\ UNCHANGED rc
    <3>1. "shim" \in UninstallSteps \cup InstallSteps \cup PullSteps /\ {} \in SUBSET Rcs
      BY DEF UninstallSteps
    <3> QED BY <2>0, <2>2, <3>1 DEF Commands, GoesOn
  <2> QED BY <1>3, <2>1, <2>2 DEF RcCommit
<1>4. ASSUME Purge PROVE GoesOn("tree")
  <2>1. run \in Commands /\ run # None /\ run.at = "purge" /\ run.cmd = "uninstall"
    BY <1>4 DEF Purge, At, CommandOK, Commands, InstallSteps, PullSteps
  <2>2. CASE \E left \in BOOLEAN : run' = [run EXCEPT !.at = "tree", !.left = left]
    <3>1. "tree" \in UninstallSteps \cup InstallSteps \cup PullSteps
      BY DEF UninstallSteps
    <3> QED BY <2>1, <2>2, <3>1 DEF Commands, GoesOn
  <2>3. CASE Onward
    BY <2>1, <2>3, AfterUninstall
  <2> QED BY <1>4, <2>2, <2>3 DEF Purge
<1> QED BY <1>1, <1>2, <1>3, <1>4

(* A command goes from one of its steps to another, or ends.                *)
LEMMA CommandStep ==
  SetupAssumption /\ Types /\ CommandOK /\ [Next]_vars => CommandOK'
<1> SUFFICES ASSUME SetupAssumption, Types, CommandOK, [Next]_vars
             PROVE  CommandOK'
  OBVIOUS
<1>1. CASE BeginInstall
  BY <1>1, FirstStep DEF BeginInstall, SetupAssumption, Types, StateDirOf
<1>2. CASE BeginPull
  BY <1>2, FirstStep DEF BeginPull, SetupAssumption, Types, StateDirOf
<1>3. CASE BeginUninstall
  BY <1>3, FirstStep DEF BeginUninstall, SetupAssumption, Types, StateDirOf
<1>4. CASE Gate
  BY <1>4, CommandGoesOn DEF Gate, At, Ends, cmd
<1>5. CASE Logout
  BY <1>5, CommandGoesOn DEF Logout, At, Ends, cmd
<1>6. CASE Stop
  BY <1>6, CommandGoesOn DEF Stop, At, Ends, cmd
<1>7. CASE Restart
  BY <1>7, CommandGoesOn DEF Restart, At, Ends, cmd
<1>8. CASE Gone
  BY <1>8, CommandGoesOn DEF Gone, At, Ends, cmd
<1>9. CASE Aside
  <2>0. run # None /\ run.at = "aside"
    BY <1>9 DEF Aside, At
  <2>1. run \in Commands /\ run.cmd = "install"
    BY <2>0 DEF CommandOK, Commands, UninstallSteps, PullSteps
  <2>2. CASE run.updating
    <3>1. run' = [run EXCEPT !.at = "place", !.old = tree] /\ tree \in (1 .. MaxTrees) \cup {None}
      BY <1>9, <2>2 DEF Aside, Types
    <3>2. "place" \in InstallSteps
      BY DEF InstallSteps
    <3> QED BY <2>1, <3>1, <3>2 DEF CommandOK, Commands
  <2>3. CASE ~run.updating
    BY <1>9, <2>0, <2>3, CommandGoesOn DEF Aside
  <2> QED BY <2>2, <2>3
<1>10. CASE Place
  BY <1>10, CommandGoesOn DEF Place, At, Ends, cmd
<1>11. CASE Prune
  BY <1>11, CommandGoesOn DEF Prune, At, Ends, cmd
<1>12. CASE RemoveTree
  BY <1>12, CommandGoesOn DEF RemoveTree, At, Ends, cmd
<1>13. CASE Service
  BY <1>13, CommandGoesOn DEF Service, WriteService, StartService, RemoveService, At, Ends, cmd
<1>14. CASE Token
  <2>1. run # None /\ run.at = "token" /\ run.cmd = "install"
    BY <1>14 DEF Token, At, CommandOK, Commands, UninstallSteps, PullSteps
  <2> QED BY <1>14, <2>1, OtherSteps, CommandGoesOn DEF CommandOK, GoesOn, InstallSteps
<1>15. CASE Hooks
  BY <1>15, CommandGoesOn DEF Hooks, At, Ends, cmd
<1>16. CASE Notify
  BY <1>16, CommandGoesOn DEF Notify, At, Ends, cmd
<1>17. CASE RcPlan
  <2>1. run # None /\ run.at = "plan"
    BY <1>17 DEF RcPlan, At
  <2> QED BY <1>17, <2>1, OtherSteps, CommandGoesOn
          DEF CommandOK, GoesOn, UninstallSteps, InstallSteps, PullSteps
<1>18. CASE RcCommit
  <2>1. run # None /\ run.at = "rc"
    BY <1>18 DEF RcCommit, At
  <2> QED BY <1>18, <2>1, OtherSteps, CommandGoesOn
          DEF CommandOK, GoesOn, UninstallSteps, InstallSteps, PullSteps
<1>19. CASE Shim
  BY <1>19, CommandGoesOn DEF Shim, PlaceShim, RemoveShim, At, Ends, cmd
<1>20. CASE Cli
  BY <1>20, CommandGoesOn DEF Cli, At, Ends, cmd
<1>21. CASE Purge
  BY <1>21, OtherSteps DEF Purge, At, CommandOK, Commands, GoesOn, UninstallSteps,
     InstallSteps, PullSteps
<1>22. CASE Killed
  BY <1>22, CommandGoesOn DEF Killed, cmd
<1>23. CASE Reboot
  BY <1>23, CommandGoesOn DEF Reboot, cmd
<1>24. CASE Asked
  BY <1>24, CommandGoesOn DEF Asked, cmd
<1>25. CASE Answered
  BY <1>25, CommandGoesOn DEF Answered, cmd
<1>26. CASE StartByHand
  BY <1>26, CommandGoesOn DEF StartByHand, cmd
<1>27. CASE StopByHand
  BY <1>27, CommandGoesOn DEF StopByHand, cmd
<1>28. CASE Hangs
  BY <1>28, CommandGoesOn DEF Hangs, cmd
<1>29. CASE SignIn
  BY <1>29, CommandGoesOn DEF SignIn, cmd
<1>30. CASE Edits
  BY <1>30, CommandGoesOn DEF Edits, cmd
<1>31. CASE UNCHANGED vars
  BY <1>31, CommandGoesOn DEF vars, cmd
<1> QED BY <1>1, <1>2, <1>3, <1>4, <1>5, <1>6, <1>7, <1>8, <1>9, <1>10, <1>11, <1>12, <1>13,
           <1>14, <1>15, <1>16, <1>17, <1>18, <1>19, <1>20, <1>21, <1>22, <1>23, <1>24, <1>25,
           <1>26, <1>27, <1>28, <1>29, <1>30, <1>31 DEF Next

(* Every step keeps the types.                                              *)
LEMMA TypeStep ==
  SetupAssumption /\ Types /\ CommandOK /\ TreeInv /\ [Next]_vars => Types'
<1> SUFFICES ASSUME SetupAssumption, Types, CommandOK, TreeInv, [Next]_vars
             PROVE  Types'
  OBVIOUS
<1> USE DEF Types, world, trees, agent, asked, state, placed, cmd
<1>0. run # None => run.dir \in Dirs /\ run.old \in (1 .. MaxTrees) \cup {None}
                    /\ run.done \subseteq Rcs /\ run.rc0 \subseteq Rcs
  BY DEF CommandOK, Commands
<1>1. CASE BeginInstall
  BY <1>1, <1>0 DEF BeginInstall, SetupAssumption, Begin
<1>2. CASE BeginPull
  BY <1>2, <1>0 DEF BeginPull, SetupAssumption, Begin
<1>3. CASE BeginUninstall
  BY <1>3, <1>0 DEF BeginUninstall, SetupAssumption, Begin
<1>4. CASE Gate
  BY <1>4, <1>0 DEF Gate, At, Ends, Onward
<1>5. CASE Logout
  BY <1>5, <1>0 DEF Logout, At, Ends, Onward
<1>6. CASE Stop
  BY <1>6, <1>0 DEF Stop, ServiceGoes, Down, At, Ends, Onward
<1>7. CASE Restart
  BY <1>7, <1>0 DEF Restart, ServiceGoes, Down, At, Ends, Onward
<1>8. CASE Gone
  BY <1>8, <1>0 DEF Gone, At, Ends, Onward
<1>9. CASE Aside
  <2>1. run # None /\ run.at = "aside" /\ run.cmd = "install"
    BY <1>9 DEF Aside, At, CommandOK, Commands, UninstallSteps, PullSteps
  <2>2. run.updating => tree # None
    BY <2>1 DEF TreeInv, Installing
  <2> QED BY <1>9, <2>1, <2>2 DEF Aside, Onward
<1>10. CASE Place
  BY <1>10, <1>0, NewestIsNat DEF Place, At, Ends, Onward, SetupAssumption
<1>11. CASE Prune
  <2>1. run # None /\ run.at = "prune"
    BY <1>11 DEF Prune, At
  <2>2. run.cmd = "install" /\ run.updating => run.old # None
    BY <2>1 DEF TreeInv, Installing, Moved
  <2>3. olds' \subseteq 1 .. MaxTrees
    BY <1>11, <1>0, <2>1, <2>2 DEF Prune
  <2> QED BY <1>11, <2>3 DEF Prune, Ends
<1>12. CASE RemoveTree
  BY <1>12, <1>0 DEF RemoveTree, At, Ends, Onward
<1>13. CASE Service
  BY <1>13, <1>0 DEF Service, WriteService, StartService, RemoveService, At, Ends, Onward
<1>14. CASE Token
  BY <1>14, <1>0 DEF Token, At, Ends, Onward
<1>15. CASE Hooks
  BY <1>15, <1>0 DEF Hooks, HooksTodo, At, Ends, Onward
<1>16. CASE Notify
  BY <1>16, <1>0 DEF Notify, NotifyAfter, At, Ends, Onward
<1>17. CASE RcPlan
  BY <1>17, <1>0 DEF RcPlan, At, Ends, Onward
<1>18. CASE RcCommit
  <2>1. run # None /\ RcTodo \subseteq Rcs
    BY <1>18 DEF RcCommit, RcTodo, At
  <2>2. rc' \subseteq Rcs /\ runs' \in 0 .. MaxRuns
    BY <1>18, <1>0, <2>1 DEF RcCommit, Ends
  <2> QED BY <1>18, <2>2 DEF RcCommit
<1>19. CASE Shim
  BY <1>19, <1>0 DEF Shim, PlaceShim, RemoveShim, At, Ends, Onward
<1>20. CASE Cli
  BY <1>20, <1>0 DEF Cli, At, Ends, Onward
<1>21. CASE Purge
  <2>1. keys' \subseteq Dirs /\ signed' \subseteq Dirs /\ runs' \in 0 .. MaxRuns
    BY <1>21 DEF Purge, Onward
  <2> QED BY <1>21, <2>1 DEF Purge
<1>22. CASE Killed
  BY <1>22, <1>0 DEF Killed
<1>23. CASE Reboot
  BY <1>23, <1>0 DEF Reboot
<1>24. CASE Asked
  BY <1>24, <1>0 DEF Asked
<1>25. CASE Answered
  BY <1>25, <1>0 DEF Answered
<1>26. CASE StartByHand
  BY <1>26, <1>0 DEF StartByHand, SetupAssumption
<1>27. CASE StopByHand
  BY <1>27, <1>0 DEF StopByHand, Down
<1>28. CASE Hangs
  BY <1>28, <1>0 DEF Hangs
<1>29. CASE SignIn
  BY <1>29, <1>0 DEF SignIn, SetupAssumption
<1>30. CASE Edits
  BY <1>30, <1>0 DEF Edits
<1>31. CASE UNCHANGED vars
  BY <1>31 DEF vars
<1> QED BY <1>1, <1>2, <1>3, <1>4, <1>5, <1>6, <1>7, <1>8, <1>9, <1>10, <1>11, <1>12, <1>13,
           <1>14, <1>15, <1>16, <1>17, <1>18, <1>19, <1>20, <1>21, <1>22, <1>23, <1>24, <1>25,
           <1>26, <1>27, <1>28, <1>29, <1>30, <1>31 DEF Next

(* A command that goes on, between the steps that move or place a tree.      *)
LEMMA TreeStays ==
  ASSUME CommandOK, TreeInv, UNCHANGED <<git, tree>>
  PROVE  /\ run' = None \/ UNCHANGED run => TreeInv'
         /\ run # None /\ run.at \notin {"tree", "prune", "aside", "place"} /\ Onward => TreeInv'
<1>1. run' = None \/ UNCHANGED run => TreeInv'
  BY DEF TreeInv, Installing, Moved, Placed
<1>2. ASSUME run # None, run.at \notin {"tree", "prune", "aside", "place"}, Onward PROVE TreeInv'
  <2>1. CASE run.cmd = "uninstall"
    <3>1. run.at \in UninstallSteps
      BY <1>2, <2>1 DEF CommandOK
    <3>2. run'.cmd = "uninstall"
      BY <1>2, <2>1, <3>1, AfterUninstall DEF UninstallSteps, GoesOn
    <3> QED BY <3>2 DEF TreeInv, Installing
  <2>2. CASE run.cmd = "install"
    <3>1. run.at \in InstallSteps
      BY <1>2, <2>2 DEF CommandOK
    <3> QED BY <1>2, <2>2, <3>1, AfterInstall
            DEF InstallSteps, GoesOn, TreeInv, Installing, Moved, Placed
  <2>3. CASE run.cmd = "pull"
    <3>1. run.at \in PullSteps
      BY <1>2, <2>3 DEF CommandOK
    <3>2. run'.cmd = "pull" /\ git
      BY <1>2, <2>3, <3>1, AfterPull DEF PullSteps, GoesOn, TreeInv
    <3> QED BY <3>2 DEF TreeInv, Installing
  <2> QED BY <1>2, <2>1, <2>2, <2>3 DEF CommandOK, Commands
<1> QED BY <1>1, <1>2

(* Every step keeps TreeInv.                                                *)
LEMMA TreeStep ==
  SetupAssumption /\ Types /\ CommandOK /\ TreeInv /\ [Next]_vars => TreeInv'
<1> SUFFICES ASSUME SetupAssumption, Types, CommandOK, TreeInv, [Next]_vars
             PROVE  TreeInv'
  OBVIOUS
<1> USE DEF world, trees, agent, cmd
<1>0. \A d \in InstallDirs : d \in Dirs
  BY DEF SetupAssumption
<1>1. CASE BeginInstall
  BY <1>1, <1>0, FirstStep DEF BeginInstall, TreeInv, Installing, Moved, Placed
<1>2. CASE BeginPull
  <2>1. PICK d \in InstallDirs, f \in BOOLEAN : Begin("pull", d, f, FALSE)
    BY <1>2 DEF BeginPull
  <2>2. run'.cmd = "pull" /\ git'
    BY <1>0, <1>2, <2>1, FirstStep DEF BeginPull
  <2>3. tree' # None
    BY <1>2 DEF BeginPull, Types, SetupAssumption
  <2> QED BY <2>2, <2>3 DEF TreeInv, Installing
<1>3. CASE BeginUninstall
  <2>1. PICK e \in Dirs, f \in BOOLEAN, p \in BOOLEAN : Begin("uninstall", StateDirOf(e), f, p)
    BY <1>3 DEF BeginUninstall
  <2>2. run'.cmd = "uninstall"
    BY <2>1, FirstStep DEF StateDirOf, Types
  <2> QED BY <1>3, <2>2 DEF BeginUninstall, TreeInv, Installing
<1>4. CASE Gate
  BY <1>4, TreeStays DEF Gate, At, Ends
<1>5. CASE Logout
  BY <1>5, TreeStays DEF Logout, At, Ends
<1>6. CASE Stop
  BY <1>6, TreeStays DEF Stop, At, Ends
<1>7. CASE Restart
  BY <1>7, TreeStays DEF Restart, At, Ends
<1>8. CASE Gone
  BY <1>8, TreeStays DEF Gone, At, Ends
<1>9. CASE Aside
  <2>1. run # None /\ run.at = "aside" /\ run.cmd = "install" /\ run \in Commands
    BY <1>9 DEF Aside, At, CommandOK, Commands, UninstallSteps, PullSteps
  <2>2. ~git /\ (run.updating <=> tree # None)
    BY <2>1 DEF TreeInv, Installing
  <2>3. CASE run.updating
    <3>1. tree' = None /\ run' = [run EXCEPT !.at = "place", !.old = tree]
      BY <1>9, <2>3 DEF Aside
    <3>2. run'.at = "place" /\ run'.cmd = "install" /\ run'.old # None
      BY <2>1, <2>2, <2>3, <3>1 DEF Commands
    <3> QED BY <1>9, <2>2, <3>1, <3>2 DEF Aside, TreeInv, Installing, Placed
  <2>4. CASE ~run.updating
    <3>1. tree' = None /\ Onward
      BY <1>9, <2>2, <2>4 DEF Aside
    <3>2. GoesOn("place")
      BY <2>1, <3>1, AfterInstall
    <3> QED BY <1>9, <2>1, <2>2, <2>4, <3>1, <3>2 DEF Aside, GoesOn, TreeInv, Installing, Placed
  <2> QED BY <2>3, <2>4
<1>10. CASE Place
  <2>1. run # None /\ run.at = "place" /\ run.cmd = "install" /\ run \in Commands
    BY <1>10 DEF Place, At, CommandOK, Commands, UninstallSteps, PullSteps
  <2>2. ~git /\ (run.updating => run.old # None)
    BY <2>1 DEF TreeInv, Installing, Moved
  <2>3. CASE tree' = Newest + 1 /\ Onward
    <3>1. tree' # None
      BY <2>3, NewestIsNat DEF SetupAssumption, Types
    <3>2. GoesOn("service")
      BY <2>1, <2>3, AfterInstall
    <3> QED BY <1>10, <2>1, <2>2, <3>1, <3>2 DEF Place, GoesOn, TreeInv, Installing
  <2>4. CASE UNCHANGED tree /\ run' = None
    BY <1>10, <2>4, TreeStays DEF Place
  <2> QED BY <1>10, <2>3, <2>4 DEF Place, Ends
<1>11. CASE Prune
  BY <1>11, TreeStays DEF Prune, At, Ends
<1>12. CASE RemoveTree
  BY <1>12, TreeStays DEF RemoveTree, TreeKept, Ends, TreeInv, Installing
<1>13. CASE Service
  BY <1>13, TreeStays DEF Service, WriteService, StartService, RemoveService, At, Ends
<1>14. CASE Token
  <2>1. run # None /\ run.at = "token" /\ run.cmd = "install"
    BY <1>14 DEF Token, At, CommandOK, Commands, UninstallSteps, PullSteps
  <2> QED BY <1>14, <2>1, OtherSteps, TreeStays DEF Token, GoesOn, TreeInv, Installing, Moved,
             Placed
<1>15. CASE Hooks
  BY <1>15, TreeStays DEF Hooks, At, Ends
<1>16. CASE Notify
  BY <1>16, TreeStays DEF Notify, At, Ends
<1>17. CASE RcPlan
  BY <1>17, OtherSteps, TreeStays DEF RcPlan, At, GoesOn, TreeInv, Installing, Moved, Placed
<1>18. CASE RcCommit
  BY <1>18, OtherSteps, TreeStays DEF RcCommit, At, GoesOn, TreeInv, Installing, Moved, Placed
<1>19. CASE Shim
  BY <1>19, TreeStays DEF Shim, PlaceShim, RemoveShim, At, Ends
<1>20. CASE Cli
  BY <1>20, TreeStays DEF Cli, At, Ends
<1>21. CASE Purge
  <2>1. run'.cmd = "uninstall"
    BY <1>21, OtherSteps DEF Purge, At, CommandOK, Commands, InstallSteps, PullSteps, GoesOn
  <2> QED BY <1>21, <2>1 DEF Purge, TreeInv, Installing
<1>22. CASE Killed
  BY <1>22, TreeStays DEF Killed
<1>23. CASE Reboot
  BY <1>23, TreeStays DEF Reboot
<1>24. CASE Asked
  BY <1>24, TreeStays DEF Asked
<1>25. CASE Answered
  BY <1>25, TreeStays DEF Answered
<1>26. CASE StartByHand
  BY <1>26, TreeStays DEF StartByHand
<1>27. CASE StopByHand
  BY <1>27, TreeStays DEF StopByHand
<1>28. CASE Hangs
  BY <1>28, TreeStays DEF Hangs
<1>29. CASE SignIn
  BY <1>29, TreeStays DEF SignIn
<1>30. CASE Edits
  BY <1>30, TreeStays DEF Edits
<1>31. CASE UNCHANGED vars
  BY <1>31, TreeStays DEF vars
<1> QED BY <1>1, <1>2, <1>3, <1>4, <1>5, <1>6, <1>7, <1>8, <1>9, <1>10, <1>11, <1>12, <1>13,
           <1>14, <1>15, <1>16, <1>17, <1>18, <1>19, <1>20, <1>21, <1>22, <1>23, <1>24, <1>25,
           <1>26, <1>27, <1>28, <1>29, <1>30, <1>31 DEF Next

-----------------------------------------------------------------------------
(* The service file.                                                       *)

\* The service file names the state directory that an uninstall goes by.
ServiceInv ==
  /\ svc \in InstallDirs \cup {None}
  /\ kind = "none" => svc = None
  /\ svc = None => ~enabled
  /\ run # None => IF run.cmd = "uninstall" THEN svc # None => run.dir = svc
                   ELSE run.dir \in InstallDirs

(* A command that goes on with another step is the same command.            *)
LEMMA SameCommand ==
  ASSUME CommandOK, run # None, run.at \notin {"tree", "prune"}, Onward
  PROVE  \E a : GoesOn(a)
<1>1. CASE run.cmd = "uninstall"
  BY <1>1, AfterUninstall DEF CommandOK, UninstallSteps
<1>2. CASE run.cmd = "install"
  BY <1>2, AfterInstall DEF CommandOK, InstallSteps
<1>3. CASE run.cmd = "pull"
  BY <1>3, AfterPull DEF CommandOK, PullSteps
<1> QED BY <1>1, <1>2, <1>3 DEF CommandOK, Commands

(* While nothing is done to the service file.                               *)
LEMMA ServiceStays ==
  ASSUME CommandOK, ServiceInv, UNCHANGED <<kind, svc>>, enabled' => enabled
  PROVE  /\ run' = None \/ UNCHANGED run \/ (run # None /\ \E a : GoesOn(a)) => ServiceInv'
         /\ run # None /\ run.at \notin {"tree", "prune"} /\ Onward => ServiceInv'
<1>1. run' = None \/ UNCHANGED run \/ (run # None /\ \E a : GoesOn(a)) => ServiceInv'
  BY DEF ServiceInv, GoesOn
<1> QED BY <1>1, SameCommand

(* Every step keeps ServiceInv.                                            *)
LEMMA ServiceStep ==
  SetupAssumption /\ Types /\ CommandOK /\ ServiceInv /\ [Next]_vars => ServiceInv'
<1> SUFFICES ASSUME SetupAssumption, Types, CommandOK, ServiceInv, [Next]_vars
             PROVE  ServiceInv'
  OBVIOUS
<1> USE DEF world, trees, agent, cmd
<1>0. \A d \in InstallDirs : d \in Dirs
  BY DEF SetupAssumption
<1>1. CASE BeginInstall
  <2>1. PICK d \in InstallDirs : Begin("install", d, FALSE, FALSE)
    BY <1>1 DEF BeginInstall
  <2>2. run'.cmd = "install" /\ run'.dir = d
    BY <1>0, <2>1, FirstStep
  <2> QED BY <1>1, <2>2 DEF BeginInstall, ServiceInv
<1>2. CASE BeginPull
  <2>1. PICK d \in InstallDirs, f \in BOOLEAN : Begin("pull", d, f, FALSE)
    BY <1>2 DEF BeginPull
  <2>2. run'.cmd = "pull" /\ run'.dir = d
    BY <1>0, <2>1, FirstStep
  <2> QED BY <1>2, <2>2 DEF BeginPull, ServiceInv
<1>3. CASE BeginUninstall
  <2>1. PICK e \in Dirs, f \in BOOLEAN, p \in BOOLEAN : Begin("uninstall", StateDirOf(e), f, p)
    BY <1>3 DEF BeginUninstall
  <2>2. run'.cmd = "uninstall" /\ run'.dir = StateDirOf(e)
    BY <2>1, FirstStep DEF StateDirOf, Types
  <2> QED BY <1>3, <2>2 DEF BeginUninstall, ServiceInv, StateDirOf
<1>4. CASE Gate
  BY <1>4, ServiceStays DEF Gate, At, Ends
<1>5. CASE Logout
  BY <1>5, ServiceStays DEF Logout, At, Ends
<1>6. CASE Stop
  <2>1. run # None /\ run.at = "stop" /\ UNCHANGED <<kind, svc>>
    BY <1>6 DEF Stop, At
  <2>2. run' = None \/ Onward
    BY <1>6 DEF Stop, Ends
  <2>3. enabled' => enabled
    BY <1>6 DEF Stop
  <2> QED BY <2>1, <2>2, <2>3, ServiceStays
<1>7. CASE Restart
  <2>1. run # None /\ run.at = "restart" /\ UNCHANGED <<kind, svc, enabled>>
    BY <1>7 DEF Restart, At
  <2>2. run' = None \/ Onward
    BY <1>7 DEF Restart, Ends
  <2> QED BY <2>1, <2>2, ServiceStays
<1>8. CASE Gone
  BY <1>8, ServiceStays DEF Gone, At, Ends
<1>9. CASE Aside
  <2>1. run # None /\ run.at = "aside" /\ run \in Commands
    BY <1>9 DEF Aside, At, CommandOK
  <2>2. CASE run' = [run EXCEPT !.at = "place", !.old = tree]
    <3>1. run'.cmd = run.cmd /\ run'.dir = run.dir
      BY <2>1, <2>2 DEF Commands
    <3> QED BY <1>9, <2>1, <3>1 DEF Aside, ServiceInv
  <2> QED BY <1>9, <2>1, <2>2, ServiceStays DEF Aside
<1>10. CASE Place
  BY <1>10, ServiceStays DEF Place, At, Ends
<1>11. CASE Prune
  BY <1>11, ServiceStays DEF Prune, At, Ends
<1>12. CASE RemoveTree
  BY <1>12, ServiceStays DEF RemoveTree, At, Ends
<1>13. CASE Service
  <2>1. run # None /\ run.at = "service" /\ run \in Commands
    BY <1>13 DEF Service, At, CommandOK
  <2>2. CASE Removing /\ RemoveService
    <3>1. svc' = None /\ ~enabled' /\ GoesOn("purge")
      BY <2>1, <2>2, OnwardStep DEF RemoveService, Removing
    <3> QED BY <1>13, <2>2, <3>1 DEF Service, ServiceInv, GoesOn, Removing
  <2>3. CASE ~Removing /\ WriteService
    <3>1. kind # "none" /\ svc' = run.dir /\ run.dir \in InstallDirs /\ run.dir # None
      BY <1>0, <2>1, <2>3 DEF WriteService, ServiceInv, Removing, SetupAssumption
    <3>2. run' = None \/ GoesOn("notify")
      BY <2>1, <2>3, OnwardStep DEF WriteService, StartService, Ends
    <3> QED BY <1>13, <2>3, <3>1, <3>2 DEF Service, ServiceInv, GoesOn, Removing
  <2>4. CASE ~Removing /\ Onward /\ UNCHANGED agent
    BY <1>13, <2>1, <2>4, ServiceStays DEF Service
  <2> QED BY <1>13, <2>2, <2>3, <2>4 DEF Service
<1>14. CASE Token
  BY <1>14, OtherSteps, ServiceStays DEF Token, At
<1>15. CASE Hooks
  BY <1>15, ServiceStays DEF Hooks, At, Ends
<1>16. CASE Notify
  BY <1>16, ServiceStays DEF Notify, At, Ends
<1>17. CASE RcPlan
  BY <1>17, OtherSteps, ServiceStays DEF RcPlan, At
<1>18. CASE RcCommit
  BY <1>18, OtherSteps, ServiceStays DEF RcCommit, At
<1>19. CASE Shim
  BY <1>19, ServiceStays DEF Shim, PlaceShim, RemoveShim, At, Ends
<1>20. CASE Cli
  BY <1>20, ServiceStays DEF Cli, At, Ends
<1>21. CASE Purge
  BY <1>21, OtherSteps, ServiceStays DEF Purge, At
<1>22. CASE Killed
  BY <1>22, ServiceStays DEF Killed
<1>23. CASE Reboot
  BY <1>23, ServiceStays DEF Reboot
<1>24. CASE Asked
  BY <1>24, ServiceStays DEF Asked
<1>25. CASE Answered
  BY <1>25, ServiceStays DEF Answered
<1>26. CASE StartByHand
  BY <1>26, ServiceStays DEF StartByHand
<1>27. CASE StopByHand
  BY <1>27, ServiceStays DEF StopByHand
<1>28. CASE Hangs
  BY <1>28, ServiceStays DEF Hangs
<1>29. CASE SignIn
  BY <1>29, ServiceStays DEF SignIn
<1>30. CASE Edits
  BY <1>30, ServiceStays DEF Edits
<1>31. CASE UNCHANGED vars
  BY <1>31, ServiceStays DEF vars
<1> QED BY <1>1, <1>2, <1>3, <1>4, <1>5, <1>6, <1>7, <1>8, <1>9, <1>10, <1>11, <1>12, <1>13,
           <1>14, <1>15, <1>16, <1>17, <1>18, <1>19, <1>20, <1>21, <1>22, <1>23, <1>24, <1>25,
           <1>26, <1>27, <1>28, <1>29, <1>30, <1>31 DEF Next

-----------------------------------------------------------------------------
(* What an uninstall has removed.                                          *)

\* What an uninstall has removed by the time it comes to a step.
CleanInv ==
  /\ slots \ told \subseteq signed
  /\ Uninstalling(FromRecheck) => run.dir \notin slots \ told
  /\ Uninstalling(FromNotify) => hooks = {}
  /\ Uninstalling(FromPlan) => notify # "ours"
  /\ Uninstalling(FromShim) => rc = {}
  /\ Uninstalling(FromCli) => run.dir \notin shim
  /\ Uninstalling(FromService) => run.dir \notin cli
  /\ Uninstalling(FromPurge) => svc = None

(* While nothing is removed or placed, and the command does not go past a    *)
(* step that removes something.                                             *)
LEMMA CleanStays ==
  ASSUME CommandOK, CleanInv, UNCHANGED <<signed, slots, told, hooks, notify, rc, shim, cli, svc>>
  PROVE  /\ run' = None \/ UNCHANGED run => CleanInv'
         /\ run # None /\ GoesOn("rc") /\ run.at \in {"plan", "rc"} => CleanInv'
         /\ /\ run # None /\ Onward
            /\ run.at \in {"gate", "recheck", "stop", "restart", "gone", "aside", "place", "token"}
            => CleanInv'
<1> USE DEF CleanInv, Uninstalling, FromRecheck, FromNotify, FromPlan, FromShim, FromCli,
            FromService, FromPurge
<1>1. run' = None \/ UNCHANGED run => CleanInv'
  OBVIOUS
<1>2. run # None /\ GoesOn("rc") /\ run.at \in {"plan", "rc"} => CleanInv'
  BY DEF GoesOn
<1>3. ASSUME run # None, Onward,
             run.at \in {"gate", "recheck", "stop", "restart", "gone", "aside", "place", "token"}
      PROVE  CleanInv'
  <2>1. CASE run.cmd = "uninstall"
    BY <1>3, <2>1, AfterUninstall DEF CommandOK, UninstallSteps, GoesOn
  <2>2. CASE run.cmd # "uninstall"
    <3>1. run'.cmd # "uninstall"
      BY <1>3, <2>2, SameCommand DEF GoesOn
    <3> QED BY <3>1
  <2> QED BY <2>1, <2>2
<1> QED BY <1>1, <1>2, <1>3

(* What is done by a command that is no uninstall.                          *)
LEMMA CleanElse ==
  ASSUME CommandOK, CleanInv, UNCHANGED <<signed, slots, told>>, run # None, run.cmd # "uninstall"
  PROVE  /\ (\E a : GoesOn(a)) => CleanInv'
         /\ UNCHANGED run => CleanInv'
         /\ run.at \notin {"tree", "prune"} /\ Onward => CleanInv'
<1>1. (\E a : GoesOn(a)) \/ UNCHANGED run => CleanInv'
  BY DEF CleanInv, Uninstalling, GoesOn
<1> QED BY <1>1, SameCommand

(* At its first step a command has removed nothing.                         *)
LEMMA CleanNew ==
  ASSUME CleanInv, UNCHANGED <<signed, slots, told>>, run'.at = "gate" PROVE CleanInv'
BY DEF CleanInv, Uninstalling, FromRecheck, FromNotify, FromPlan, FromShim, FromCli,
   FromService, FromPurge

(* Every step keeps CleanInv.                                              *)
LEMMA CleanStep ==
  SetupAssumption /\ Types /\ CommandOK /\ CleanInv /\ [Next]_vars => CleanInv'
<1> SUFFICES ASSUME SetupAssumption, Types, CommandOK, CleanInv, [Next]_vars
             PROVE  CleanInv'
  OBVIOUS
<1> USE DEF world, trees, agent, asked, state, placed, cmd
<1>0. \A d \in InstallDirs : d \in Dirs
  BY DEF SetupAssumption
<1>1. CASE BeginInstall
  <2>1. PICK d \in InstallDirs : Begin("install", d, FALSE, FALSE)
    BY <1>1 DEF BeginInstall
  <2>2. run'.at = "gate"
    BY <1>0, <2>1, FirstStep
  <2> QED BY <1>1, <2>2, CleanNew DEF BeginInstall
<1>2. CASE BeginPull
  <2>1. PICK d \in InstallDirs, f \in BOOLEAN : Begin("pull", d, f, FALSE)
    BY <1>2 DEF BeginPull
  <2>2. run'.at = "gate"
    BY <1>0, <2>1, FirstStep
  <2> QED BY <1>2, <2>2, CleanNew DEF BeginPull
<1>3. CASE BeginUninstall
  <2>1. PICK e \in Dirs, f \in BOOLEAN, p \in BOOLEAN : Begin("uninstall", StateDirOf(e), f, p)
    BY <1>3 DEF BeginUninstall
  <2>2. run'.at = "gate"
    BY <2>1, FirstStep DEF StateDirOf, Types
  <2> QED BY <1>3, <2>2, CleanNew DEF BeginUninstall
<1>4. CASE Gate
  BY <1>4, CleanStays DEF Gate, At, Ends
<1>5. CASE Logout
  <2>1. run # None /\ run.at = "logout"
    BY <1>5 DEF Logout, At
  <2>2. CASE run' = None
    <3>1. slots' \ told' \subseteq signed'
      BY <1>5 DEF Logout, CleanInv
    <3> QED BY <2>2, <3>1 DEF CleanInv, Uninstalling
  <2>3. CASE Onward /\ run' # None
    <3>1. GoesOn("recheck")
      BY <2>1, <2>3, OnwardStep
    <3>2. run.dir \notin slots' \ told' /\ slots' \ told' \subseteq signed'
      BY <1>5, <2>3 DEF Logout, Ends, CleanInv
    <3> QED BY <3>1, <3>2 DEF GoesOn, CleanInv, Uninstalling, FromRecheck, FromNotify,
               FromPlan, FromShim, FromCli, FromService, FromPurge
  <2> QED BY <1>5, <2>2, <2>3 DEF Logout, Ends
<1>6. CASE Stop
  BY <1>6, CleanStays DEF Stop, At, Ends
<1>7. CASE Restart
  BY <1>7, CleanStays DEF Restart, At, Ends
<1>8. CASE Gone
  BY <1>8, CleanStays DEF Gone, At, Ends
<1>9. CASE Aside
  <2>1. run # None /\ run.at = "aside" /\ run \in Commands /\ run.cmd # "uninstall"
    BY <1>9 DEF Aside, At, CommandOK, UninstallSteps
  <2>2. CASE run' = [run EXCEPT !.at = "place", !.old = tree]
    <3>1. run'.cmd # "uninstall"
      BY <2>1, <2>2 DEF Commands
    <3> QED BY <1>9, <3>1 DEF Aside, CleanInv, Uninstalling
  <2> QED BY <1>9, <2>1, <2>2, CleanStays DEF Aside
<1>10. CASE Place
  BY <1>10, CleanStays DEF Place, At, Ends
<1>11. CASE Prune
  BY <1>11, CleanStays DEF Prune, At, Ends
<1>12. CASE RemoveTree
  BY <1>12, CleanStays DEF RemoveTree, At, Ends
<1>13. CASE Service
  <2>1. run # None /\ run.at = "service"
    BY <1>13 DEF Service, At
  <2>2. CASE run' = None
    BY <1>13, <2>2 DEF Service, CleanInv, Uninstalling
  <2>3. CASE Removing /\ Onward /\ run' # None
    <3>1. GoesOn("purge")
      BY <2>1, <2>3, OnwardStep DEF Removing
    <3>2. svc' = None
      BY <1>13, <2>3 DEF Service, RemoveService
    <3> QED BY <1>13, <2>1, <2>3, <3>1, <3>2 DEF Service, GoesOn, Removing,
            CleanInv, Uninstalling, FromRecheck, FromNotify, FromPlan,
            FromShim, FromCli, FromService, FromPurge
  <2>4. CASE ~Removing /\ Onward
    BY <1>13, <2>1, <2>4, CleanElse DEF Service, Removing
  <2> QED BY <1>13, <2>2, <2>3, <2>4 DEF Service, WriteService, StartService, RemoveService,
             Ends
<1>14. CASE Token
  <2>1. run # None /\ run.at = "token" /\ run.cmd = "install"
    BY <1>14 DEF Token, At, CommandOK, Commands, UninstallSteps, PullSteps
  <2> QED BY <1>14, <2>1, OtherSteps, CleanElse, CleanStays DEF Token
<1>15. CASE Hooks
  <2>1. run # None /\ run.at = "hooks"
    BY <1>15 DEF Hooks, At
  <2>2. CASE run' = None
    BY <1>15, <2>2 DEF Hooks, CleanInv, Uninstalling
  <2>3. CASE UNCHANGED run
    BY <1>15, <2>1, <2>3 DEF Hooks, CleanInv, Uninstalling, FromRecheck, FromNotify, FromPlan,
       FromShim, FromCli, FromService, FromPurge
  <2>4. CASE Removing /\ Onward /\ hooks' = {}
    <3>1. GoesOn("notify")
      BY <2>1, <2>4, OnwardStep DEF Removing
    <3> QED BY <1>15, <2>1, <2>4, <3>1 DEF Hooks, GoesOn, Removing,
            CleanInv, Uninstalling, FromRecheck, FromNotify, FromPlan,
            FromShim, FromCli, FromService, FromPurge
  <2>5. CASE ~Removing /\ Onward
    BY <1>15, <2>1, <2>5, CleanElse DEF Hooks, Removing
  <2>6. Removing /\ HooksTodo = {} /\ broken \cap Accounts = {} => hooks = {}
    BY DEF HooksTodo, Types
  <2> QED BY <1>15, <2>2, <2>3, <2>4, <2>5, <2>6 DEF Hooks, Ends
<1>16. CASE Notify
  <2>1. run # None /\ run.at = "notify"
    BY <1>16 DEF Notify, At
  <2>2. CASE run' = None
    BY <1>16, <2>2 DEF Notify, CleanInv, Uninstalling
  <2>3. CASE Removing /\ Onward /\ run' # None
    <3>1. GoesOn("plan")
      BY <2>1, <2>3, OnwardStep DEF Removing
    <3>2. notify' # "ours"
      BY <1>16, <2>1, <2>3, <3>1 DEF Notify, NotifyAfter, GoesOn, Ends
    <3> QED BY <1>16, <2>1, <2>3, <3>1, <3>2 DEF Notify, GoesOn, Removing,
            CleanInv, Uninstalling, FromRecheck, FromNotify, FromPlan,
            FromShim, FromCli, FromService, FromPurge
  <2>4. CASE ~Removing /\ Onward
    BY <1>16, <2>1, <2>4, CleanElse DEF Notify, Removing
  <2> QED BY <1>16, <2>2, <2>3, <2>4 DEF Notify, Ends
<1>17. CASE RcPlan
  BY <1>17, OtherSteps, CleanStays DEF RcPlan, At
<1>18. CASE RcCommit
  <2>1. run # None /\ run.at = "rc"
    BY <1>18 DEF RcCommit, At
  <2>2. CASE run' = None
    BY <1>18, <2>2 DEF RcCommit, CleanInv, Uninstalling
  <2>3. CASE GoesOn("rc")
    BY <1>18, <2>1, <2>3 DEF RcCommit, GoesOn, CleanInv, Uninstalling, FromRecheck,
       FromNotify, FromPlan, FromShim, FromCli, FromService, FromPurge
  <2>4. CASE GoesOn("shim") /\ RcTodo = {} /\ UNCHANGED rc
    <3>1. Removing => rc' = {}
      BY <2>4 DEF RcTodo
    <3> QED BY <1>18, <2>1, <2>4, <3>1 DEF RcCommit, GoesOn, Removing, CleanInv, Uninstalling,
               FromRecheck, FromNotify, FromPlan, FromShim, FromCli, FromService, FromPurge
  <2> QED BY <1>18, <2>2, <2>3, <2>4, OtherSteps
<1>19. CASE Shim
  <2>1. run # None /\ run.at = "shim"
    BY <1>19 DEF Shim, At
  <2>2. CASE run' = None
    BY <1>19, <2>2 DEF Shim, CleanInv, Uninstalling
  <2>3. CASE Removing /\ Onward /\ run' # None
    <3>1. GoesOn("cli")
      BY <2>1, <2>3, OnwardStep DEF Removing
    <3>2. run.dir \notin shim'
      BY <1>19, <2>3 DEF Shim, RemoveShim
    <3> QED BY <1>19, <2>1, <2>3, <3>1, <3>2 DEF Shim, RemoveShim, GoesOn, Removing,
            CleanInv, Uninstalling, FromRecheck, FromNotify, FromPlan,
            FromShim, FromCli, FromService, FromPurge
  <2>4. CASE ~Removing /\ Onward
    BY <1>19, <2>1, <2>4, CleanElse DEF Shim, Removing
  <2> QED BY <1>19, <2>2, <2>3, <2>4 DEF Shim, PlaceShim, RemoveShim, Ends
<1>20. CASE Cli
  <2>1. run # None /\ run.at = "cli"
    BY <1>20 DEF Cli, At
  <2>2. CASE run' = None
    BY <1>20, <2>2 DEF Cli, CleanInv, Uninstalling
  <2>3. CASE Removing /\ Onward /\ run' # None
    <3>1. GoesOn("service")
      BY <2>1, <2>3, OnwardStep DEF Removing
    <3>2. run.dir \notin cli'
      BY <1>20, <2>3 DEF Cli
    <3> QED BY <1>20, <2>1, <2>3, <3>1, <3>2 DEF Cli, GoesOn, Removing,
            CleanInv, Uninstalling, FromRecheck, FromNotify, FromPlan,
            FromShim, FromCli, FromService, FromPurge
  <2>4. CASE ~Removing /\ Onward
    BY <1>20, <2>1, <2>4, CleanElse DEF Cli, Removing
  <2> QED BY <1>20, <2>2, <2>3, <2>4 DEF Cli, Ends
<1>21. CASE Purge
  <2>1. /\ run # None /\ run.at = "purge" /\ run.cmd = "uninstall"
        /\ GoesOn("tree")
    BY <1>21, OtherSteps DEF Purge, At, CommandOK, Commands, InstallSteps, PullSteps
  <2>2. signed' = signed \/ signed' = signed \ {run.dir}
    BY <1>21 DEF Purge
  <2> QED BY <1>21, <2>1, <2>2 DEF Purge, GoesOn, CleanInv, Uninstalling, FromRecheck,
             FromNotify, FromPlan, FromShim, FromCli, FromService, FromPurge
<1>22. CASE Killed
  BY <1>22, CleanStays DEF Killed
<1>23. CASE Reboot
  BY <1>23, CleanStays DEF Reboot
<1>24. CASE Asked
  BY <1>24, CleanStays DEF Asked
<1>25. CASE Answered
  BY <1>25, CleanStays DEF Answered
<1>26. CASE StartByHand
  BY <1>26, CleanStays DEF StartByHand
<1>27. CASE StopByHand
  BY <1>27, CleanStays DEF StopByHand
<1>28. CASE Hangs
  BY <1>28, CleanStays DEF Hangs
<1>29. CASE SignIn
  BY <1>29, <1>0 DEF SignIn, CleanInv, Uninstalling
<1>30. CASE Edits
  <2>1. run' = None
    BY <1>30 DEF Edits
  <2> QED BY <1>30, <2>1 DEF Edits, CleanInv, Uninstalling
<1>31. CASE UNCHANGED vars
  BY <1>31, CleanStays DEF vars
<1> QED BY <1>1, <1>2, <1>3, <1>4, <1>5, <1>6, <1>7, <1>8, <1>9, <1>10, <1>11, <1>12, <1>13,
           <1>14, <1>15, <1>16, <1>17, <1>18, <1>19, <1>20, <1>21, <1>22, <1>23, <1>24, <1>25,
           <1>26, <1>27, <1>28, <1>29, <1>30, <1>31 DEF Next

-----------------------------------------------------------------------------
(* What is spared of the agent.                                            *)

\* No command has come past its look at the approvals with one waiting that
\* it knew of; and no agent runs whose keys or tree are about to go, but one
\* that hangs, or that systemd did not stop.
SparedInv ==
  /\ pend => up # None
  /\ up # None /\ ~hand => svc # None
  /\ run # None /\ run.at \in {"stop", "restart"} /\ pend
       => \/ late \/ run.force \/ hung \/ up # run.dir
          \/ run.cmd = "install" /\ (~run.updating \/ kind = "none")
  /\ up # None /\ Uninstalling(FromLogout) /\ hung => run.force
  /\ up # None /\ Uninstalling(FromGone) => hand
  /\ up # None /\ Uninstalling(FromHooks) => run.force
  /\ up # None /\ Installing({"aside"}) /\ run.updating /\ kind = "launchd" => hand

(* While nothing is done to the agent, past the steps that look at it.      *)
LEMMA SparedStays ==
  ASSUME CommandOK, SparedInv, UNCHANGED <<kind, svc, up, hand, hung, pend, late>>
  PROVE  /\ run' = None \/ UNCHANGED run => SparedInv'
         /\ run # None /\ run.at \in FromHooks /\ (\E a \in FromHooks : GoesOn(a)) => SparedInv'
         /\ /\ run # None /\ Onward
            /\ run.at \notin {"gate", "recheck", "stop", "gone", "tree", "prune"}
            => SparedInv'
<1>1. run' = None \/ UNCHANGED run => SparedInv'
  BY DEF SparedInv, Uninstalling, Installing, FromLogout, FromGone, FromHooks
<1>2. ASSUME run # None, run.at \in FromHooks, NEW a \in FromHooks, GoesOn(a) PROVE SparedInv'
  <2>1. a \notin {"stop", "restart", "aside"} /\ run.at \in FromLogout \cap FromGone
    BY <1>2 DEF FromLogout, FromGone, FromHooks
  <2> QED BY <1>2, <2>1 DEF SparedInv, Uninstalling, Installing, GoesOn
<1>3. ASSUME run # None, Onward,
             run.at \notin {"gate", "recheck", "stop", "gone", "tree", "prune"}
      PROVE  SparedInv'
  <2>1. CASE run.cmd = "uninstall"
    BY <1>3, <2>1, AfterUninstall DEF CommandOK, UninstallSteps, GoesOn, SparedInv,
       Uninstalling, Installing, FromLogout, FromGone, FromHooks
  <2>2. CASE run.cmd = "install"
    BY <1>3, <2>2, AfterInstall DEF CommandOK, InstallSteps, GoesOn, SparedInv, Uninstalling,
       Installing
  <2>3. CASE run.cmd = "pull"
    BY <1>3, <2>3, AfterPull DEF CommandOK, PullSteps, GoesOn, SparedInv, Uninstalling,
       Installing
  <2> QED BY <1>3, <2>1, <2>2, <2>3 DEF CommandOK, Commands
<1> QED BY <1>1, <1>2, <1>3

(* At its first step a command has passed nothing.                          *)
LEMMA SparedNew ==
  ASSUME SparedInv, UNCHANGED <<svc, up, hand, pend>>, run'.at = "gate" PROVE SparedInv'
BY DEF SparedInv, Uninstalling, Installing, FromLogout, FromGone, FromHooks

(* Every step keeps SparedInv.                                             *)
LEMMA SparedStep ==
  SetupAssumption /\ Types /\ CommandOK /\ ServiceInv /\ SparedInv /\ [Next]_vars => SparedInv'
<1> SUFFICES ASSUME SetupAssumption, Types, CommandOK, ServiceInv, SparedInv, [Next]_vars
             PROVE  SparedInv'
  OBVIOUS
<1> USE DEF world, trees, agent, asked, cmd
<1>0. \A d \in InstallDirs : d \in Dirs
  BY DEF SetupAssumption
<1>1. CASE BeginInstall
  <2>1. PICK d \in InstallDirs : Begin("install", d, FALSE, FALSE)
    BY <1>1 DEF BeginInstall
  <2>2. run'.at = "gate"
    BY <1>0, <2>1, FirstStep
  <2> QED BY <1>1, <2>2, SparedNew DEF BeginInstall
<1>2. CASE BeginPull
  <2>1. PICK d \in InstallDirs, f \in BOOLEAN : Begin("pull", d, f, FALSE)
    BY <1>2 DEF BeginPull
  <2>2. run'.at = "gate"
    BY <1>0, <2>1, FirstStep
  <2> QED BY <1>2, <2>2, SparedNew DEF BeginPull
<1>3. CASE BeginUninstall
  <2>1. PICK e \in Dirs, f \in BOOLEAN, p \in BOOLEAN : Begin("uninstall", StateDirOf(e), f, p)
    BY <1>3 DEF BeginUninstall
  <2>2. run'.at = "gate"
    BY <2>1, FirstStep DEF StateDirOf, Types
  <2> QED BY <1>3, <2>2, SparedNew DEF BeginUninstall
<1>4. CASE Gate
  <2>1. run # None /\ run.at \in {"gate", "recheck"} /\ ~late'
        /\ UNCHANGED <<kind, svc, up, hand, hung, pend>>
    BY <1>4 DEF Gate, At
  <2>2. CASE run' = None
    BY <2>1, <2>2 DEF SparedInv, Uninstalling, Installing
  <2>3. CASE MayGo /\ Onward
    <3>1. pend => run.force \/ hung \/ up # run.dir
                  \/ (run.cmd = "install" /\ (~run.updating \/ kind = "none"))
      BY <2>3 DEF MayGo, PendingCode, SparedInv
    <3>2. run.cmd = "uninstall" /\ up # None /\ hung => run.force
      BY <2>3 DEF MayGo, PendingCode
    <3>3. GoesOn("logout") \/ GoesOn("stop") \/ GoesOn("restart")
      BY <2>1, <2>3, OnwardStep
    <3> QED BY <2>1, <3>1, <3>2, <3>3 DEF GoesOn, SparedInv, Uninstalling, Installing,
               FromLogout, FromGone, FromHooks
  <2> QED BY <1>4, <2>2, <2>3 DEF Gate, Ends
<1>5. CASE Logout
  BY <1>5, SparedStays DEF Logout, At, Ends
<1>6. CASE Stop
  <2>1. run # None /\ run.at = "stop" /\ UNCHANGED <<kind, svc>>
    BY <1>6 DEF Stop, At
  <2>2. (up' = up /\ hand' = hand /\ hung' = hung /\ pend' = pend) \/ (up' = None /\ ~pend')
    BY <1>6 DEF Stop, ServiceGoes, Down
  <2>3. CASE run' = None
    BY <2>1, <2>2, <2>3 DEF SparedInv, Uninstalling, Installing
  <2>4. CASE Onward /\ run' # None
    <3>1. GoesOn(IF Removing THEN "gone" ELSE "aside")
      BY <2>1, <2>4, OnwardStep
    <3>2. up' # None /\ (Removing \/ (run.updating /\ kind = "launchd")) => hand'
      <4>1. CASE svc = None \/ (run.cmd = "install" /\ ~run.updating)
        BY <1>6, <2>1, <4>1 DEF Stop, SparedInv, Removing
      <4>2. CASE ServiceGoes
        BY <4>2 DEF ServiceGoes, Down
      <4>3. CASE ~(Removing \/ kind = "launchd")
        BY <4>3
      <4> QED BY <1>6, <2>4, <4>1, <4>2, <4>3 DEF Stop, Ends
    <3>3. CASE Removing
      <4>1. GoesOn("gone")
        BY <3>1, <3>3
      <4>2. up' # None /\ hung' => run.force
        BY <2>1, <2>2, <3>3 DEF Removing, SparedInv, Uninstalling, FromLogout
      <4> QED BY <2>1, <2>2, <3>2, <3>3, <4>1, <4>2 DEF GoesOn, Removing, SparedInv,
                 Uninstalling, Installing, FromLogout, FromGone, FromHooks
    <3>4. CASE ~Removing
      <4>1. GoesOn("aside")
        BY <3>1, <3>4
      <4> QED BY <2>1, <2>2, <3>2, <3>4, <4>1 DEF GoesOn, Removing, SparedInv, Uninstalling,
                 Installing
    <3> QED BY <3>3, <3>4
  <2> QED BY <1>6, <2>3, <2>4 DEF Stop, Ends
<1>7. CASE Restart
  <2>1. run # None /\ run.at = "restart" /\ run.cmd = "pull" /\ UNCHANGED <<kind, svc>>
    BY <1>7 DEF Restart, At, CommandOK, Commands, UninstallSteps, InstallSteps
  <2>2. (pend' => up' # None) /\ (up' # None /\ ~hand' => svc' # None)
    BY <1>7 DEF Restart, ServiceGoes, Down, SparedInv
  <2>3. CASE run' = None
    BY <2>2, <2>3 DEF SparedInv, Uninstalling, Installing
  <2>4. CASE Onward
    <3>1. GoesOn("notify")
      BY <2>1, <2>4, OnwardStep
    <3> QED BY <2>1, <2>2, <3>1 DEF GoesOn, SparedInv, Uninstalling, Installing
  <2> QED BY <1>7, <2>3, <2>4 DEF Restart, Ends
<1>8. CASE Gone
  <2>1. run # None /\ run.at = "gone" /\ run.cmd = "uninstall"
        /\ UNCHANGED <<kind, svc, up, hand, hung, pend, late>>
    BY <1>8 DEF Gone, At, CommandOK, Commands, InstallSteps, PullSteps
  <2>2. CASE run' = None
    BY <2>1, <2>2, SparedStays
  <2>3. CASE Onward /\ (up = None \/ hung)
    <3>1. GoesOn("hooks")
      BY <2>1, <2>3, OnwardStep
    <3>2. up # None => hand /\ run.force
      BY <2>1, <2>3 DEF SparedInv, Uninstalling, Installing, FromLogout, FromGone, FromHooks
    <3> QED BY <2>1, <3>1, <3>2 DEF GoesOn, SparedInv, Uninstalling, Installing, FromLogout,
               FromGone, FromHooks
  <2> QED BY <1>8, <2>2, <2>3 DEF Gone, Ends
<1>9. CASE Aside
  <2>1. run # None /\ run.at = "aside" /\ run \in Commands /\ run.cmd # "uninstall"
    BY <1>9 DEF Aside, At, CommandOK, UninstallSteps
  <2>2. CASE run' = [run EXCEPT !.at = "place", !.old = tree]
    <3>1. run'.cmd # "uninstall" /\ run'.at = "place"
      BY <2>1, <2>2 DEF Commands
    <3> QED BY <1>9, <3>1 DEF Aside, SparedInv, Uninstalling, Installing
  <2> QED BY <1>9, <2>1, <2>2, SparedStays DEF Aside
<1>10. CASE Place
  BY <1>10, SparedStays DEF Place, At, Ends
<1>11. CASE Prune
  BY <1>11, SparedStays DEF Prune, At, Ends
<1>12. CASE RemoveTree
  BY <1>12, SparedStays DEF RemoveTree, At, Ends
<1>13. CASE Service
  <2>1. run # None /\ run.at = "service" /\ run \in Commands /\ UNCHANGED <<kind, pend, late>>
    BY <1>13 DEF Service, At, CommandOK
  <2>2. CASE Removing /\ RemoveService
    <3>1. GoesOn("purge")
      BY <2>1, <2>2, OnwardStep DEF RemoveService, Removing
    <3>2. up # None => hand /\ run.force
      BY <2>1, <2>2 DEF Removing, SparedInv, Uninstalling, Installing, FromLogout, FromGone,
         FromHooks
    <3>3. UNCHANGED <<up, hand, hung>>
      BY <2>2 DEF RemoveService
    <3> QED BY <2>1, <3>1, <3>2, <3>3 DEF GoesOn, SparedInv, Uninstalling, Installing,
               FromLogout, FromGone, FromHooks
  <2>3. CASE ~Removing /\ WriteService
    <3>1. svc' # None /\ (pend' => up' # None)
      BY <1>0, <2>1, <2>3 DEF WriteService, StartService, SparedInv, ServiceInv, Removing,
         SetupAssumption
    <3>2. run' = None \/ GoesOn("notify")
      BY <2>1, <2>3, OnwardStep DEF WriteService, StartService, Ends
    <3> QED BY <2>1, <2>3, <3>1, <3>2 DEF GoesOn, Removing, SparedInv, Uninstalling, Installing
  <2>4. CASE ~Removing /\ Onward /\ UNCHANGED agent
    BY <1>13, <2>1, <2>4, SparedStays DEF Service
  <2> QED BY <1>13, <2>2, <2>3, <2>4 DEF Service
<1>14. CASE Token
  <2>1. run # None /\ run.at = "token" /\ run.cmd = "install"
    BY <1>14 DEF Token, At, CommandOK, Commands, UninstallSteps, PullSteps
  <2>2. CASE GoesOn("prune")
    BY <1>14, <2>1, <2>2 DEF Token, GoesOn, SparedInv, Uninstalling, Installing
  <2> QED BY <1>14, <2>1, <2>2, OtherSteps, SparedStays DEF Token
<1>15. CASE Hooks
  BY <1>15, SparedStays DEF Hooks, At, Ends
<1>16. CASE Notify
  BY <1>16, SparedStays DEF Notify, At, Ends
<1>17. CASE RcPlan
  BY <1>17, OtherSteps, SparedStays DEF RcPlan, At, FromHooks
<1>18. CASE RcCommit
  BY <1>18, OtherSteps, SparedStays DEF RcCommit, At, FromHooks
<1>19. CASE Shim
  BY <1>19, SparedStays DEF Shim, PlaceShim, RemoveShim, At, Ends
<1>20. CASE Cli
  BY <1>20, SparedStays DEF Cli, At, Ends
<1>21. CASE Purge
  BY <1>21, OtherSteps, SparedStays DEF Purge, At, FromHooks
<1>22. CASE Killed
  BY <1>22, SparedStays DEF Killed
<1>23. CASE Reboot
  <2>1. run' = None /\ up' \in {svc, None} /\ svc' = svc /\ ~pend'
    BY <1>23 DEF Reboot
  <2> QED BY <2>1 DEF SparedInv, Uninstalling, Installing
<1>24. CASE Asked
  <2>1. up # None /\ UNCHANGED <<kind, svc, up, hand, hung, run>> /\ (run # None => late')
    BY <1>24 DEF Asked
  <2> QED BY <2>1 DEF SparedInv, Uninstalling, Installing
<1>25. CASE Answered
  BY <1>25, <1>0 DEF Answered, SparedInv, Uninstalling, Installing
<1>26. CASE StartByHand
  BY <1>26, <1>0 DEF StartByHand, SparedInv, Uninstalling, Installing, SetupAssumption
<1>27. CASE StopByHand
  BY <1>27, <1>0 DEF StopByHand, Down, SparedInv, Uninstalling, Installing
<1>28. CASE Hangs
  BY <1>28, <1>0 DEF Hangs, SparedInv, Uninstalling, Installing
<1>29. CASE SignIn
  BY <1>29, SparedStays DEF SignIn
<1>30. CASE Edits
  BY <1>30, SparedStays DEF Edits
<1>31. CASE UNCHANGED vars
  BY <1>31, SparedStays DEF vars
<1> QED BY <1>1, <1>2, <1>3, <1>4, <1>5, <1>6, <1>7, <1>8, <1>9, <1>10, <1>11, <1>12, <1>13,
           <1>14, <1>15, <1>16, <1>17, <1>18, <1>19, <1>20, <1>21, <1>22, <1>23, <1>24, <1>25,
           <1>26, <1>27, <1>28, <1>29, <1>30, <1>31 DEF Next

-----------------------------------------------------------------------------
(* The tree and the service file that a way back needs.                    *)

\* Every install and update names the same state directory.
OneInstallDir == \A d, e \in InstallDirs : d = e

\* What is placed by an install stands with a service file, and that with a tree.
WayInv ==
  /\ shim \subseteq InstallDirs /\ cli \subseteq InstallDirs
  /\ Installing({"notify", "token"}) /\ kind # "none" => svc # None
  /\ Installing({"hooks", "plan", "rc", "shim", "cli"}) => svc # None
  /\ ~git /\ svc = None => hooks = {} /\ rc = {} /\ shim = {} /\ cli = {}
  /\ svc # None => tree # None \/ olds # {}
  /\ good # None => good \in olds \cup {tree} \/ git

(* What a command under way is of, and where it places things.              *)
LEMMA WayOfCommand ==
  ASSUME CommandOK, TreeInv, ServiceInv, run # None
  PROVE  \/ run.cmd = "uninstall"
         \/ run.cmd = "install" /\ ~git /\ run.dir \in InstallDirs
         \/ run.cmd = "pull" /\ git /\ run.dir \in InstallDirs
BY DEF CommandOK, Commands, TreeInv, ServiceInv

(* While nothing of it is moved.                                            *)
LEMMA WayStays ==
  ASSUME CommandOK, WayInv,
         UNCHANGED <<kind, git, tree, olds, good, svc, hooks, rc, shim, cli>>
  PROVE  /\ run' = None \/ UNCHANGED run => WayInv'
         /\ run # None /\ run.at \in {"plan", "rc"}
            /\ (GoesOn("rc") \/ GoesOn("shim")) => WayInv'
         /\ run # None /\ (GoesOn("prune") \/ GoesOn("place") \/ GoesOn("tree")) => WayInv'
         /\ /\ run # None /\ Onward
            /\ run.at \notin {"service", "tree", "prune"}
            /\ run.at = "token" => kind # "none"
            => WayInv'
<1>1. run' = None \/ UNCHANGED run => WayInv'
  BY DEF WayInv, Installing
<1>2. ASSUME run # None, run.at \in {"plan", "rc"}, GoesOn("rc") \/ GoesOn("shim") PROVE WayInv'
  BY <1>2 DEF GoesOn, WayInv, Installing
<1>3. ASSUME run # None, GoesOn("prune") \/ GoesOn("place") \/ GoesOn("tree") PROVE WayInv'
  BY <1>3 DEF GoesOn, WayInv, Installing
<1>4. ASSUME run # None, Onward, run.at \notin {"service", "tree", "prune"},
             run.at = "token" => kind # "none"
      PROVE  WayInv'
  <2>1. CASE run.cmd = "install"
    BY <1>4, <2>1, AfterInstall DEF CommandOK, InstallSteps, GoesOn, WayInv, Installing
  <2>2. CASE run.cmd # "install"
    <3>1. run'.cmd # "install"
      BY <1>4, <2>2, SameCommand DEF GoesOn
    <3> QED BY <3>1 DEF WayInv, Installing
  <2> QED BY <2>1, <2>2
<1> QED BY <1>1, <1>2, <1>3, <1>4

(* Something is placed by a command that has a service file, or in a        *)
(* checkout; and removed by an uninstall.                                   *)
LEMMA WayPlaces ==
  ASSUME CommandOK, TreeInv, ServiceInv, WayInv, run # None,
         run.at \in {"hooks", "rc", "shim", "cli"},
         UNCHANGED <<kind, git, tree, olds, good, svc>>,
         shim' \subseteq InstallDirs, cli' \subseteq InstallDirs,
         Removing => /\ hooks = {} => hooks' = {}
                     /\ rc = {} => rc' = {}
                     /\ shim' \subseteq shim /\ cli' \subseteq cli
  PROVE  /\ run' = None \/ UNCHANGED run => WayInv'
         /\ (GoesOn("rc") \/ GoesOn("shim")) /\ run.at = "rc" => WayInv'
         /\ Onward => WayInv'
<1>1. ~git /\ svc = None => hooks' = {} /\ rc' = {} /\ shim' = {} /\ cli' = {}
  BY WayOfCommand DEF WayInv, Installing, Removing
<1>2. run' = None \/ UNCHANGED run => WayInv'
  BY <1>1 DEF WayInv, Installing
<1>3. ASSUME GoesOn("rc") \/ GoesOn("shim"), run.at = "rc" PROVE WayInv'
  BY <1>1, <1>3 DEF GoesOn, WayInv, Installing
<1>4. ASSUME Onward PROVE WayInv'
  <2>1. CASE run.cmd = "install"
    BY <1>1, <1>4, <2>1, AfterInstall DEF CommandOK, InstallSteps, GoesOn, WayInv, Installing
  <2>2. CASE run.cmd # "install"
    <3>1. run'.cmd # "install"
      BY <1>4, <2>2, SameCommand DEF GoesOn
    <3> QED BY <1>1, <3>1 DEF WayInv, Installing
  <2> QED BY <2>1, <2>2
<1> QED BY <1>2, <1>3, <1>4

(* At its first step a command has placed nothing.                          *)
LEMMA WayNew ==
  ASSUME WayInv, UNCHANGED <<kind, git, tree, olds, good, svc, hooks, rc, shim, cli>>,
         run'.at = "gate"
  PROVE  WayInv'
BY DEF WayInv, Installing

(* Every step keeps WayInv, if there is one state directory to install to. *)
LEMMA WayStep ==
  SetupAssumption /\ OneInstallDir /\ Types /\ CommandOK /\ TreeInv /\ ServiceInv /\ CleanInv
  /\ WayInv /\ [Next]_vars => WayInv'
<1> SUFFICES ASSUME SetupAssumption, OneInstallDir, Types, CommandOK, TreeInv, ServiceInv,
                    CleanInv, WayInv, [Next]_vars
             PROVE  WayInv'
  OBVIOUS
<1> USE DEF world, trees, agent, state, placed, cmd
<1>0. \A d \in InstallDirs : d \in Dirs
  BY DEF SetupAssumption
<1>1. CASE BeginInstall
  <2>1. PICK d \in InstallDirs : Begin("install", d, FALSE, FALSE)
    BY <1>1 DEF BeginInstall
  <2>2. run'.at = "gate"
    BY <1>0, <2>1, FirstStep
  <2> QED BY <1>1, <2>2, WayNew DEF BeginInstall
<1>2. CASE BeginPull
  <2>1. PICK d \in InstallDirs, f \in BOOLEAN : Begin("pull", d, f, FALSE)
    BY <1>2 DEF BeginPull
  <2>2. run'.at = "gate"
    BY <1>0, <2>1, FirstStep
  <2>3. git /\ tree' # None
    BY <1>2 DEF BeginPull, Types, SetupAssumption
  <2> QED BY <1>2, <2>2, <2>3 DEF BeginPull, WayInv, Installing
<1>3. CASE BeginUninstall
  <2>1. PICK e \in Dirs, f \in BOOLEAN, p \in BOOLEAN : Begin("uninstall", StateDirOf(e), f, p)
    BY <1>3 DEF BeginUninstall
  <2>2. run'.at = "gate"
    BY <2>1, FirstStep DEF StateDirOf, Types
  <2> QED BY <1>3, <2>2, WayNew DEF BeginUninstall
<1>4. CASE Gate
  BY <1>4, WayStays DEF Gate, At, Ends
<1>5. CASE Logout
  BY <1>5, WayStays DEF Logout, At, Ends
<1>6. CASE Stop
  <2>1. run # None /\ run.at = "stop" /\ UNCHANGED svc /\ (run' = None \/ Onward)
    BY <1>6 DEF Stop, At, Ends
  <2> QED BY <1>6, <2>1, WayStays DEF Stop
<1>7. CASE Restart
  <2>1. run # None /\ run.at = "restart" /\ UNCHANGED svc /\ (run' = None \/ Onward)
    BY <1>7 DEF Restart, At, Ends
  <2> QED BY <1>7, <2>1, WayStays DEF Restart
<1>8. CASE Gone
  BY <1>8, WayStays DEF Gone, At, Ends
<1>9. CASE Aside
  <2>1. run # None /\ run.at = "aside" /\ run \in Commands /\ run.cmd = "install"
    BY <1>9 DEF Aside, At, CommandOK, Commands, UninstallSteps, PullSteps
  <2>2. CASE run' = [run EXCEPT !.at = "place", !.old = tree] /\ olds' = olds \cup {tree}
    <3>1. run'.at = "place"
      BY <2>1, <2>2 DEF Commands
    <3>2. good # None => good \in olds'
      BY <2>1, <2>2 DEF WayInv, TreeInv
    <3> QED BY <1>9, <2>2, <3>1, <3>2 DEF Aside, WayInv, Installing
  <2> QED BY <1>9, <2>1, <2>2, WayStays DEF Aside
<1>10. CASE Place
  <2>1. run # None /\ run.at = "place" /\ run.cmd = "install"
    BY <1>10 DEF Place, At, CommandOK, Commands, UninstallSteps, PullSteps
  <2>2. tree = None
    BY <2>1 DEF TreeInv, Installing
  <2>3. CASE tree' = Newest + 1 /\ Onward
    <3>1. GoesOn("service")
      BY <2>1, <2>3, AfterInstall
    <3> QED BY <1>10, <2>2, <3>1 DEF Place, GoesOn, WayInv, Installing
  <2>4. CASE UNCHANGED tree /\ run' = None
    BY <1>10, <2>4, WayStays DEF Place
  <2> QED BY <1>10, <2>3, <2>4 DEF Place, Ends
<1>11. CASE Prune
  <2>1. run # None /\ run.at = "prune" /\ run' = None
    BY <1>11 DEF Prune, At, Ends
  <2>2. olds' = {run.old} \/ olds' = olds
    BY <1>11 DEF Prune
  <2> QED BY <1>11, <2>1, <2>2 DEF Prune, WayInv, Installing
<1>12. CASE RemoveTree
  <2>1. run # None /\ run.at = "tree" /\ run.cmd = "uninstall" /\ run' = None
    BY <1>12 DEF RemoveTree, At, Ends, CommandOK, Commands, InstallSteps, PullSteps
  <2>2. svc = None
    BY <2>1 DEF CleanInv, Uninstalling, FromPurge
  <2> QED BY <1>12, <2>1, <2>2 DEF RemoveTree, WayInv, Installing
<1>13. CASE Service
  <2>1. run # None /\ run.at = "service" /\ run \in Commands
    BY <1>13 DEF Service, At, CommandOK
  <2>2. CASE Removing /\ RemoveService
    <3>1. svc' = None /\ GoesOn("purge")
      BY <2>1, <2>2, OnwardStep DEF RemoveService, Removing
    <3>2. hooks = {} /\ rc = {} /\ run.dir \notin shim /\ run.dir \notin cli
      BY <2>1, <2>2 DEF Removing, CleanInv, Uninstalling, FromNotify, FromShim, FromCli,
         FromService
    <3>3. ~git => shim = {} /\ cli = {}
      <4>1. CASE svc = None
        BY <4>1 DEF WayInv
      <4>2. CASE svc # None
        <5>1. run.dir \in InstallDirs
          BY <2>1, <2>2, <4>2 DEF Removing, ServiceInv
        <5> QED BY <3>2, <5>1 DEF OneInstallDir, WayInv
      <4> QED BY <4>1, <4>2
    <3> QED BY <1>13, <3>1, <3>2, <3>3 DEF Service, GoesOn, WayInv, Installing
  <2>3. CASE ~Removing /\ WriteService
    <3>1. svc' # None /\ run.cmd = "install"
      BY <1>0, <2>1, <2>3 DEF WriteService, ServiceInv, Removing, SetupAssumption,
         CommandOK, Commands, PullSteps
    <3>2. run' = None \/ GoesOn("notify")
      BY <2>1, <2>3, OnwardStep DEF WriteService, StartService, Ends
    <3>3. tree # None
      BY <2>1, <3>1 DEF TreeInv, Installing, Placed
    <3> QED BY <1>13, <3>1, <3>2, <3>3 DEF Service, GoesOn, WayInv, Installing
  <2>4. CASE ~Removing /\ kind = "none" /\ Onward /\ UNCHANGED agent
    <3>1. GoesOn("notify")
      BY <2>1, <2>4, OnwardStep
    <3> QED BY <1>13, <2>4, <3>1 DEF Service, GoesOn, WayInv, Installing
  <2> QED BY <1>13, <2>2, <2>3, <2>4 DEF Service
<1>14. CASE Token
  <2>1. run # None /\ run.at = "token"
    BY <1>14 DEF Token, At
  <2> QED BY <1>14, <2>1, OtherSteps, WayStays DEF Token
<1>15. CASE Hooks
  <2>1. run # None /\ run.at = "hooks" /\ (Removing /\ hooks = {} => hooks' = {})
    BY <1>15 DEF Hooks, At, HooksTodo
  <2>2. run' = None \/ UNCHANGED run \/ Onward
    BY <1>15 DEF Hooks, Ends
  <2>3. shim' \subseteq InstallDirs /\ cli' \subseteq InstallDirs
    BY <1>15 DEF Hooks, WayInv
  <2> QED BY <1>15, <2>1, <2>2, <2>3, WayPlaces DEF Hooks
<1>16. CASE Notify
  BY <1>16, WayStays DEF Notify, At, Ends
<1>17. CASE RcPlan
  BY <1>17, OtherSteps, WayStays DEF RcPlan, At
<1>18. CASE RcCommit
  <2>1. run # None /\ run.at = "rc" /\ (Removing /\ rc = {} => rc' = {})
    BY <1>18 DEF RcCommit, At, RcTodo
  <2>2. run' = None \/ GoesOn("rc") \/ GoesOn("shim")
    BY <1>18, OtherSteps
  <2>3. shim' \subseteq InstallDirs /\ cli' \subseteq InstallDirs
    BY <1>18 DEF RcCommit, WayInv
  <2> QED BY <1>18, <2>1, <2>2, <2>3, WayPlaces DEF RcCommit
<1>19. CASE Shim
  <2>1. run # None /\ run.at = "shim" /\ (Removing => shim' \subseteq shim)
    BY <1>19 DEF Shim, At, RemoveShim
  <2>2. run' = None \/ Onward
    BY <1>19 DEF Shim, RemoveShim, PlaceShim, Ends
  <2>3. shim' \subseteq InstallDirs /\ cli' \subseteq InstallDirs
    BY <1>19, <2>1, WayOfCommand DEF Shim, RemoveShim, PlaceShim, WayInv, Removing
  <2> QED BY <1>19, <2>1, <2>2, <2>3, WayPlaces DEF Shim
<1>20. CASE Cli
  <2>1. run # None /\ run.at = "cli" /\ (Removing => cli' \subseteq cli) /\ Onward
    BY <1>20 DEF Cli, At
  <2>2. shim' \subseteq InstallDirs /\ cli' \subseteq InstallDirs
    BY <1>20, <2>1, WayOfCommand DEF Cli, WayInv, Removing
  <2> QED BY <1>20, <2>1, <2>2, WayPlaces DEF Cli
<1>21. CASE Purge
  BY <1>21, OtherSteps, WayStays DEF Purge, At
<1>22. CASE Killed
  BY <1>22, WayStays DEF Killed
<1>23. CASE Reboot
  BY <1>23, WayStays DEF Reboot
<1>24. CASE Asked
  BY <1>24, WayStays DEF Asked
<1>25. CASE Answered
  BY <1>25, WayStays DEF Answered
<1>26. CASE StartByHand
  BY <1>26, WayStays DEF StartByHand
<1>27. CASE StopByHand
  BY <1>27, WayStays DEF StopByHand
<1>28. CASE Hangs
  BY <1>28, WayStays DEF Hangs
<1>29. CASE SignIn
  BY <1>29, WayStays DEF SignIn
<1>30. CASE Edits
  BY <1>30, WayStays DEF Edits
<1>31. CASE UNCHANGED vars
  BY <1>31, WayStays DEF vars
<1> QED BY <1>1, <1>2, <1>3, <1>4, <1>5, <1>6, <1>7, <1>8, <1>9, <1>10, <1>11, <1>12, <1>13,
           <1>14, <1>15, <1>16, <1>17, <1>18, <1>19, <1>20, <1>21, <1>22, <1>23, <1>24, <1>25,
           <1>26, <1>27, <1>28, <1>29, <1>30, <1>31 DEF Next

-----------------------------------------------------------------------------
(* All of it together.                                                      *)

\* What holds of a machine between two steps, wherever it installs to.
SetupInv == Types /\ CommandOK /\ TreeInv /\ ServiceInv /\ CleanInv /\ SparedInv

(* A machine on which no command was run yet.                               *)
LEMMA InitInv == SetupAssumption /\ Init => SetupInv /\ WayInv
<1> SUFFICES ASSUME SetupAssumption, Init PROVE SetupInv /\ WayInv
  OBVIOUS
<1>1. run = None /\ up = None /\ ~pend /\ slots = {}
  BY DEF Init
<1>2. ServiceInv
  BY <1>1 DEF Init, ServiceInv
<1>3. CleanInv
  BY <1>1 DEF CleanInv, Uninstalling
<1>4. SparedInv
  BY <1>1 DEF SparedInv, Uninstalling, Installing
<1>5. WayInv
  <2>1. svc # None => tree # None
    BY DEF Init, SetupAssumption
  <2> QED BY <1>1, <2>1 DEF Init, WayInv, Installing
<1> QED BY <1>2, <1>3, <1>4, <1>5, InitType DEF SetupInv

(* It holds always.                                                         *)
THEOREM SetupInvariant == Spec => []SetupInv
<1>1. Init => SetupInv
  BY InitInv, SetupConstants
<1>2. SetupInv /\ [Next]_vars => SetupInv'
  BY SetupConstants, TypeStep, CommandStep, TreeStep, ServiceStep, CleanStep, SparedStep DEF
     SetupInv
<1> QED BY <1>1, <1>2, PTL DEF Spec

\* Every variable of a machine keeps its type.
THEOREM TypeCorrect == Spec => []TypeOK
<1>1. SetupInv => TypeOK
  BY TypeIsTypes DEF SetupInv
<1> QED BY <1>1, SetupInvariant, PTL

-----------------------------------------------------------------------------
(* What an uninstall leaves.                                                *)

(* An uninstall reports success at its last step only.                      *)
LEMMA SuccessAtTheEnd ==
  ASSUME SetupInv, [Next]_vars, EndsNow("uninstall", 0)
  PROVE  RemoveTree
<1> USE DEF EndsNow, cmd
<1>1. run # None /\ run.cmd = "uninstall" /\ out' # out /\ run' = None /\ out'.code = 0
  OBVIOUS
<1>2. \A c : Ends(c) => c = 0
  BY <1>1 DEF Ends
<1>3. ~Onward
  BY <1>1 DEF Onward
<1>4. ~(BeginInstall \/ BeginPull \/ BeginUninstall)
  BY <1>1 DEF BeginInstall, BeginPull, BeginUninstall, Begin
<1>5. ~Gate
  BY <1>2, <1>3 DEF Gate, MayGo
<1>6. ~(Logout \/ Stop \/ Restart \/ Gone)
  <2>1. ~Logout
    BY <1>2, <1>3 DEF Logout
  <2>2. ~Stop
    BY <1>2, <1>3 DEF Stop
  <2>3. ~Restart /\ ~Gone
    BY <1>2, <1>3 DEF Restart, Gone
  <2> QED BY <2>1, <2>2, <2>3
<1>7. ~(Aside \/ Place)
  BY <1>1, <1>2, <1>3 DEF Aside, Place
<1>8. ~Prune
  BY <1>1 DEF Prune, At, SetupInv, CommandOK, UninstallSteps
<1>9. ~(Service \/ Token \/ Hooks \/ Notify)
  <2>1. ~Service
    BY <1>1, <1>2, <1>3 DEF Service, RemoveService, Removing
  <2>2. ~Token
    BY <1>1, <1>2, <1>3 DEF Token
  <2>3. ~Hooks /\ ~Notify
    BY <1>1, <1>2, <1>3 DEF Hooks, Notify
  <2> QED BY <2>1, <2>2, <2>3
<1>10. ~(RcPlan \/ RcCommit)
  BY <1>1, <1>2 DEF RcPlan, RcCommit
<1>11. ~(Shim \/ Cli \/ Purge)
  BY <1>1, <1>3 DEF Shim, RemoveShim, Removing, Cli, Purge
<1>12. ~(Killed \/ Reboot \/ Asked \/ Answered \/ StartByHand \/ StopByHand \/ Hangs \/ SignIn
         \/ Edits \/ UNCHANGED vars)
  BY <1>1 DEF Killed, Reboot, Asked, Answered, StartByHand, StopByHand, Hangs, SignIn, Edits,
     vars
<1> QED BY <1>4, <1>5, <1>6, <1>7, <1>8, <1>9, <1>10, <1>11, <1>12 DEF Next

(* The service file goes when an uninstall removes it.                      *)
LEMMA ServiceGone ==
  ASSUME SetupAssumption, SetupInv, [Next]_vars, svc # None, svc' = None
  PROVE  Service /\ Removing /\ RemoveService
<1> USE DEF agent, cmd
<1>1. ~Service => UNCHANGED svc
  <2>1. Stop \/ Restart => UNCHANGED svc
    BY DEF Stop, Restart
  <2>2. Killed \/ Reboot \/ Asked \/ Answered \/ StartByHand \/ StopByHand \/ Hangs \/ SignIn
        \/ Edits \/ UNCHANGED vars => UNCHANGED svc
    BY DEF Killed, Reboot, Asked, Answered, StartByHand, StopByHand, Hangs, SignIn, Edits, vars
  <2>3. BeginInstall \/ BeginPull \/ BeginUninstall \/ Gate \/ Logout \/ Gone \/ Aside \/ Place
        \/ Prune \/ RemoveTree => UNCHANGED svc
    BY DEF BeginInstall, BeginPull, BeginUninstall, Gate, Logout, Gone, Aside, Place, Prune,
       RemoveTree
  <2>4. Token \/ Hooks \/ Notify \/ RcPlan \/ RcCommit \/ Shim \/ Cli \/ Purge => UNCHANGED svc
    BY DEF Token, Hooks, Notify, RcPlan, RcCommit, Shim, Cli, Purge
  <2> QED BY <2>1, <2>2, <2>3, <2>4 DEF Next
<1>2. Service
  BY <1>1
<1>3. run # None /\ run.dir # None
  BY <1>2 DEF Service, At, SetupInv, CommandOK, Commands, SetupAssumption
<1> QED BY <1>2, <1>3 DEF Service, WriteService

\* An uninstall that reports success has left nothing behind, and the service file,
\* which tells where to go on, goes after what it leads to (uninstall.mjs main).
THEOREM UninstalledIsCleanHolds == Spec => UninstalledIsClean
<1> USE DEF FromRecheck, FromNotify, FromPlan, FromShim, FromCli, FromService, FromPurge
<1>1. ASSUME SetupInv, [Next]_vars, EndsNow("uninstall", 0)
      PROVE  /\ hooks' = {} /\ rc' = {} /\ svc' = None /\ ~enabled'
             /\ notify' # "ours" /\ run.dir \notin shim' \cup cli'
             /\ run.dir \notin slots' \ told
  <2>1. RemoveTree /\ Uninstalling({"tree"})
    BY <1>1, SuccessAtTheEnd DEF EndsNow, RemoveTree, At, Uninstalling
  <2>2. UNCHANGED <<hooks, notify, rc, shim, cli, slots, svc, enabled>>
    BY <2>1 DEF RemoveTree, placed, state, agent
  <2>3. hooks = {} /\ rc = {} /\ svc = None /\ notify # "ours" /\ run.dir \notin slots \ told
        /\ run.dir \notin shim /\ run.dir \notin cli
    BY <1>1, <2>1 DEF SetupInv, CleanInv, Uninstalling
  <2>4. ~enabled
    BY <1>1, <2>3 DEF SetupInv, ServiceInv
  <2> QED BY <2>2, <2>3, <2>4
<1>2. ASSUME SetupInv, [Next]_vars, svc # None, svc' = None
      PROVE  hooks \cup rc = {} /\ svc \notin shim \cup cli /\ svc \notin slots \ told
  <2>1. Uninstalling({"service"})
    BY <1>2, SetupConstants, ServiceGone DEF Service, At, Removing, Uninstalling
  <2>2. run.dir = svc
    BY <1>2, <2>1 DEF SetupInv, ServiceInv, Uninstalling
  <2>3. hooks = {} /\ rc = {} /\ run.dir \notin slots \ told
        /\ run.dir \notin shim /\ run.dir \notin cli
    BY <1>2, <2>1 DEF SetupInv, CleanInv, Uninstalling
  <2> QED BY <2>2, <2>3
<1>3. SetupInv /\ [Next]_vars
      => [/\ EndsNow("uninstall", 0)
               => /\ hooks' = {} /\ rc' = {} /\ svc' = None /\ ~enabled'
                  /\ notify' # "ours" /\ run.dir \notin shim' \cup cli'
                  /\ run.dir \notin slots' \ told
          /\ svc # None /\ svc' = None
               => /\ hooks \cup rc = {} /\ svc \notin shim \cup cli
                  /\ svc \notin slots \ told]_vars
  BY <1>1, <1>2
<1> QED BY <1>3, SetupInvariant, PTL DEF Spec, UninstalledIsClean

-----------------------------------------------------------------------------
(* What is taken from the agent.                                            *)

(* Keys go in a purge only, of a directory with nothing but our files.      *)
LEMMA KeysGone ==
  ASSUME SetupInv, [Next]_vars, NEW d \in keys, d \notin keys'
  PROVE  /\ run # None /\ run.cmd = "uninstall" /\ run.at = "purge"
         /\ run.purge /\ d \notin mixed
<1> USE DEF state
<1>1. Purge
  <2>1. BeginInstall \/ BeginPull \/ BeginUninstall \/ Gate \/ Logout \/ Stop \/ Restart \/ Gone
        \/ Aside \/ Place \/ Prune \/ RemoveTree => keys \subseteq keys'
    BY DEF BeginInstall, BeginPull, BeginUninstall, Gate, Logout, Stop, Restart, Gone, Aside,
       Place, Prune, RemoveTree
  <2>2. Service \/ Token \/ Hooks \/ Notify \/ RcPlan \/ RcCommit \/ Shim \/ Cli
        => keys \subseteq keys'
    BY DEF Service, WriteService, StartService, RemoveService, Token, Hooks, Notify, RcPlan,
       RcCommit, Shim, Cli
  <2>3. Killed \/ Reboot \/ Asked \/ Answered \/ StartByHand \/ StopByHand \/ Hangs \/ SignIn
        \/ Edits \/ UNCHANGED vars => keys \subseteq keys'
    BY DEF Killed, Reboot, Asked, Answered, StartByHand, StopByHand, Hangs, SignIn, Edits, vars
  <2> QED BY <2>1, <2>2, <2>3 DEF Next
<1>2. run # None /\ run.at = "purge" /\ run.cmd = "uninstall"
  BY <1>1 DEF Purge, At, SetupInv, CommandOK, Commands, InstallSteps, PullSteps
<1>3. run.purge /\ d = run.dir /\ OnlyOurs(run.dir)
  BY <1>1 DEF Purge
<1> QED BY <1>2, <1>3 DEF OnlyOurs

(* The tree goes when an update moves it aside, or at the end of an uninstall. *)
LEMMA TreeGone ==
  ASSUME SetupAssumption, SetupInv, [Next]_vars, tree # None, tree' = None
  PROVE  Uninstalling({"tree"}) \/ (Installing({"aside"}) /\ run.updating)
<1> USE DEF trees
<1>1. Aside \/ RemoveTree
  <2>1. ~BeginPull
    <3>1. tree \in 1 .. MaxTrees /\ MaxTrees \in Nat
      BY DEF SetupInv, Types, SetupAssumption
    <3>2. tree + 1 \in Nat /\ None \notin Nat
      BY <3>1 DEF SetupAssumption
    <3> QED BY <3>2 DEF BeginPull
  <2>2. ~Place
    <3>1. Newest + 1 \in Nat
      BY NewestIsNat DEF SetupInv, Types
    <3> QED BY <3>1 DEF Place, SetupAssumption
  <2>3. BeginInstall \/ BeginUninstall \/ Gate \/ Logout \/ Stop \/ Restart \/ Gone \/ Prune
        \/ Service => UNCHANGED tree
    BY DEF BeginInstall, BeginUninstall, Gate, Logout, Stop, Restart, Gone, Prune, Service
  <2>4. Token \/ Hooks \/ Notify \/ RcPlan \/ RcCommit \/ Shim \/ Cli \/ Purge => UNCHANGED tree
    BY DEF Token, Hooks, Notify, RcPlan, RcCommit, Shim, Cli, Purge
  <2>5. Killed \/ Reboot \/ Asked \/ Answered \/ StartByHand \/ StopByHand \/ Hangs \/ SignIn
        \/ Edits \/ UNCHANGED vars => UNCHANGED tree
    BY DEF Killed, Reboot, Asked, Answered, StartByHand, StopByHand, Hangs, SignIn, Edits, vars
  <2> QED BY <2>1, <2>2, <2>3, <2>4, <2>5 DEF Next
<1>2. CASE Aside
  <2>1. run # None /\ run.at = "aside" /\ run.cmd = "install"
    BY <1>2 DEF Aside, At, SetupInv, CommandOK, Commands, UninstallSteps, PullSteps
  <2> QED BY <1>2, <2>1 DEF Aside, Installing
<1>3. CASE RemoveTree
  BY <1>3 DEF RemoveTree, At, SetupInv, CommandOK, Commands, InstallSteps, PullSteps,
     Uninstalling
<1> QED BY <1>1, <1>2, <1>3

(* A command drops an approval, as it stops or restarts the agent, only for *)
(* one of the reasons for which it did not have to look.                    *)
LEMMA ApprovalDropped ==
  ASSUME SetupInv, [Next]_vars, pend, ~pend', run # None, run.at \in {"stop", "restart"},
         run' # None \/ out' # out
  PROVE  late \/ run.force \/ hung \/ up # run.dir
<1> USE DEF asked, cmd
<1>1. \/ late \/ run.force \/ hung \/ up # run.dir
      \/ run.cmd = "install" /\ (~run.updating \/ kind = "none")
  BY DEF SetupInv, SparedInv
<1>2. Stop \/ Restart
  <2>1. ~(BeginInstall \/ BeginPull \/ BeginUninstall)
    BY DEF BeginInstall, BeginPull, BeginUninstall, Begin
  <2>2. ~(Gate \/ Logout \/ Gone \/ Aside \/ Place \/ Prune \/ RemoveTree \/ Service \/ Token)
    BY DEF Gate, Logout, Gone, Aside, Place, Prune, RemoveTree, Service, Token, At
  <2>3. ~(Hooks \/ Notify \/ RcPlan \/ RcCommit \/ Shim \/ Cli \/ Purge)
    BY DEF Hooks, Notify, RcPlan, RcCommit, Shim, Cli, Purge, At
  <2>4. ~(Killed \/ Reboot \/ Asked \/ Answered \/ StartByHand \/ StopByHand \/ Hangs \/ SignIn
          \/ Edits \/ UNCHANGED vars)
    BY DEF Killed, Reboot, Asked, Answered, StartByHand, StopByHand, Hangs, SignIn, Edits, vars
  <2> QED BY <2>1, <2>2, <2>3, <2>4 DEF Next
<1>3. CASE Stop
  <2>1. svc # None /\ (Removing \/ run.updating)
    BY <1>3 DEF Stop
  <2>2. kind # "none"
    BY <2>1 DEF SetupInv, ServiceInv
  <2> QED BY <1>1, <2>1, <2>2 DEF Removing
<1>4. CASE Restart
  BY <1>1, <1>4 DEF Restart, At, SetupInv, CommandOK, InstallSteps
<1> QED BY <1>2, <1>3, <1>4

\* The keys, the approvals that wait and the tree of an agent that runs are spared
\* (uninstall.mjs, install.sh, pending.mjs).
THEOREM AgentSparedHolds == Spec => AgentSpared
<1> USE DEF FromHooks
<1>1. ASSUME SetupInv, [Next]_vars, NEW d \in keys \ keys'
      PROVE  run # None /\ Removing /\ run.purge /\ d \notin mixed
  BY <1>1, KeysGone DEF Removing
<1>2. ASSUME SetupInv, [Next]_vars, pend, ~pend', run # None, run.at \in {"stop", "restart"},
             run' # None \/ out' # out
      PROVE  late \/ run.force \/ hung \/ up # run.dir
  BY <1>2, ApprovalDropped
<1>3. ASSUME SetupInv, [Next]_vars, up # None,
             keys \ keys' # {} \/ (tree # None /\ tree' = None)
      PROVE  run.force \/ (~Removing /\ (hand \/ kind # "launchd"))
  <2>1. Uninstalling({"purge", "tree"}) \/ (Installing({"aside"}) /\ run.updating)
    BY <1>3, SetupConstants, KeysGone, TreeGone DEF Uninstalling, Installing
  <2>2. CASE Uninstalling({"purge", "tree"})
    BY <1>3, <2>2 DEF SetupInv, SparedInv, Uninstalling
  <2>3. CASE Installing({"aside"}) /\ run.updating
    BY <1>3, <2>3 DEF SetupInv, SparedInv, Installing, Removing
  <2> QED BY <2>1, <2>2, <2>3
<1>4. SetupInv /\ [Next]_vars
      => [/\ \A d \in keys \ keys' : run # None /\ Removing /\ run.purge /\ d \notin mixed
          /\ pend /\ ~pend' /\ run # None /\ run.at \in {"stop", "restart"}
                 /\ (run' # None \/ out' # out)
               => late \/ run.force \/ hung \/ up # run.dir
          /\ (keys \ keys' # {} \/ (tree # None /\ tree' = None)) /\ up # None
               => run.force \/ (~Removing /\ (hand \/ kind # "launchd"))]_vars
  BY <1>1, <1>2, <1>3
<1> QED BY <1>4, SetupInvariant, PTL DEF Spec, AgentSpared

-----------------------------------------------------------------------------
(* The way back.                                                            *)

(* What is placed stands with a service file or in a checkout, and so with  *)
(* a tree.                                                                  *)
LEMMA WayBackOf == TreeInv /\ WayInv => WayBack
BY DEF TreeInv, WayInv, WayBack

(* A command that stops at the rc files has put them back.                  *)
LEMMA RcPutBack == SetupInv /\ [Next]_vars => RcRestored
<1> SUFFICES ASSUME SetupInv, [Next]_vars, At("rc"), run' = None, out' # out
             PROVE  shim' = shim /\ \A f \in Rcs \ out'.named : f \in rc' <=> f \in run.rc0
  BY DEF RcRestored
<1> USE DEF cmd, At
<1>1. RcCommit
  <2>1. ~(BeginInstall \/ BeginPull \/ BeginUninstall)
    BY DEF BeginInstall, BeginPull, BeginUninstall, Begin
  <2>2. ~(Gate \/ Logout \/ Stop \/ Restart \/ Gone \/ Aside \/ Place \/ Prune \/ RemoveTree)
    BY DEF Gate, Logout, Stop, Restart, Gone, Aside, Place, Prune, RemoveTree
  <2>3. ~(Service \/ Token \/ Hooks \/ Notify \/ RcPlan \/ Shim \/ Cli \/ Purge)
    BY DEF Service, Token, Hooks, Notify, RcPlan, Shim, Cli, Purge
  <2>4. ~(Killed \/ Reboot \/ Asked \/ Answered \/ StartByHand \/ StopByHand \/ Hangs \/ SignIn
          \/ Edits \/ UNCHANGED vars)
    BY DEF Killed, Reboot, Asked, Answered, StartByHand, StopByHand, Hangs, SignIn, Edits, vars
  <2> QED BY <2>1, <2>2, <2>3, <2>4 DEF Next
<1>2. PICK lost \in SUBSET run.done :
         /\ rc' = {f \in Rcs : IF f \in lost THEN f \in rc ELSE f \in run.rc0}
         /\ out' = [code |-> 1, named |-> lost]
  BY <1>1 DEF RcCommit
<1> QED BY <1>1, <1>2 DEF RcCommit

\* Where all installs name one state directory, whatever stops a command there is a
\* way on, and the rc files are as it found them (install.sh, install-relay.mjs).
THEOREM RecoverableHolds == OneInstallDir => (Spec => Recoverable)
<1> SUFFICES ASSUME OneInstallDir PROVE Spec => Recoverable
  OBVIOUS
<1>1. Init => SetupInv /\ WayInv
  BY InitInv, SetupConstants
<1>2. SetupInv /\ WayInv /\ [Next]_vars => WayInv'
  BY SetupConstants, WayStep DEF SetupInv
<1>3. SetupInv /\ WayInv => WayBack
  BY WayBackOf DEF SetupInv
<1>4. SetupInv /\ [Next]_vars => [RcRestored]_vars
  BY RcPutBack
<1> QED BY <1>1, <1>2, <1>3, <1>4, SetupInvariant, PTL DEF Spec, Recoverable
=============================================================================
