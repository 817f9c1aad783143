------------------------------- MODULE Setup --------------------------------
(***************************************************************************)
(* One machine being set up, updated and cleaned up: install.sh (fresh and  *)
(* with NYAN_REMOTE_UPDATE), `nyan update` of a git checkout, and `nyan     *)
(* uninstall`, with the scripts they call: pending.mjs, account.mjs logout, *)
(* launchd.mjs, install-permission-hook.mjs, install-notify.mjs and         *)
(* install-relay.mjs.                                                       *)
(*                                                                         *)
(* A command is a sequence of steps (Steps); each step is one action, may   *)
(* fail where the script looks at a result, and the command may be killed,  *)
(* or the machine rebooted, between any two.  Commands are run one after    *)
(* the other, from a shell in which NYAN_REMOTE_STATE_DIR may or may not    *)
(* name the agent's state directory.  The agent, the approvals it keeps,    *)
(* the user's edits and the account service are the environment.            *)
(*                                                                         *)
(* Simplified: every agent listens on the one port; a settings file or an   *)
(* rc file is its part that is ours; the temporary files, the backups and   *)
(* the texts are left out; a tarball that does not unpack is a command that *)
(* never began.                                                             *)
(***************************************************************************)
EXTENDS Naturals, FiniteSets, Sequences

CONSTANTS
    Dirs,         \* state directories (the default one and a chosen one)
    InstallDirs,  \* what NYAN_REMOTE_STATE_DIR says when installing or updating
    Accounts,     \* ~/.claude* directories, each with its settings.json
    Rcs,          \* the rc files that get the PATH block
    Kinds,        \* of {"systemd", "launchd", "none"}: how the agent is kept up
    MaxTrees,     \* bound: trees downloaded
    MaxRuns,      \* bound: commands begun
    None          \* no tree, no service file, no agent, no command

SetupAssumption ==
    /\ InstallDirs \subseteq Dirs
    /\ Kinds \subseteq {"systemd", "launchd", "none"}
    /\ MaxTrees \in Nat \ {0} /\ MaxRuns \in Nat
    /\ None \notin Dirs /\ None \notin Nat

ASSUME SetupConstants == SetupAssumption

VARIABLES
    kind,     \* the service manager of this machine
    git,      \* the tree is a git checkout
    tree,     \* the version at ROOT, or None
    olds,     \* the versions moved aside (ROOT.old-<stamp>)
    svc,      \* the state directory our service file names, or None
    enabled,  \* the service comes up at the next login
    up,       \* the state directory the running agent uses, or None
    hand,     \* that agent was started by hand
    hung,     \* it accepts connections and never answers
    pend,     \* an approval is waiting in it
    late,     \* that approval came after the last look at them
    keys,     \* state directories that hold the agent's keys
    mixed,    \* state directories that hold files that are not ours
    signed,   \* state directories with an account.json
    slots,    \* state directories whose machine has a slot in the account
    told,     \* those the user was told of, to free on the account's page
    hooks,    \* settings files with our hooks
    broken,   \* settings files that are not JSON, rc files with one marker only
    notify,   \* notify.sh: "none", "ours" or "edited"
    rc,       \* rc files with our block
    shim,     \* state directories with our claude in bin/
    cli,      \* state directories with our nyan in bin/
    run,      \* the command under way, or None
    out,      \* how the last command ended: its exit code and the rc files it
              \* names as not restored; None while one runs or if it was killed
    good,     \* the version of the last install or update that went through
    runs      \* commands begun

world == <<kind, git>>
trees == <<tree, olds, good>>
agent == <<svc, enabled, up, hand, hung>>
asked == <<pend, late>>
state == <<keys, mixed, signed, slots, told>>
placed == <<hooks, notify, rc, shim, cli>>
cmd == <<run, out, runs>>
vars == <<world, trees, agent, asked, state, placed, broken, cmd>>

-----------------------------------------------------------------------------
(* The steps of each command, in the order of the scripts.                  *)

\* A fault: the service file goes when the service is stopped.
StepsFault ==
    [uninstall |-> <<"gate", "logout", "recheck", "stop", "gone", "service",
                     "hooks", "notify", "plan", "rc", "shim", "cli", "purge", "tree">>,
     install   |-> <<"gate", "stop", "aside", "place", "service", "notify",
                     "token", "hooks", "plan", "rc", "shim", "cli", "prune">>,
     pull      |-> <<"gate", "restart", "notify", "hooks", "plan", "rc",
                     "shim", "cli", "prune">>]

Steps ==
    [uninstall |-> <<"gate", "logout", "recheck", "stop", "gone", "hooks",
                     "notify", "plan", "rc", "shim", "cli", "service",
                     "purge", "tree">>,
     install   |-> <<"gate", "stop", "aside", "place", "service", "notify",
                     "token", "hooks", "plan", "rc", "shim", "cli", "prune">>,
     pull      |-> <<"gate", "restart", "notify", "hooks", "plan", "rc",
                     "shim", "cli", "prune">>]

At(step) == run # None /\ run.at = step
Removing == run.cmd = "uninstall"

(* The command goes on with the step after this one.                        *)
Onward ==
    LET s == Steps[run.cmd]
        i == CHOOSE j \in DOMAIN s : s[j] = run.at
    IN  run' = [run EXCEPT !.at = s[i + 1]] /\ UNCHANGED <<out, runs>>

(* The command ends with an exit code.                                      *)
Ends(code) ==
    /\ run' = None
    /\ out' = [code |-> code, named |-> {}]
    /\ UNCHANGED runs

Init ==
    /\ kind \in Kinds
    /\ git \in BOOLEAN
    /\ tree = IF git THEN 1 ELSE None
    /\ olds = {} /\ good = None
    /\ svc \in IF git /\ kind # "none" THEN InstallDirs ELSE {None}
    /\ enabled = (svc # None) /\ up = None
    /\ hand = FALSE /\ hung = FALSE
    /\ pend = FALSE /\ late = FALSE
    /\ keys = {} /\ mixed \in SUBSET InstallDirs /\ signed = {} /\ slots = {} /\ told = {}
    /\ hooks = {} /\ notify = "none" /\ rc = {} /\ shim = {} /\ cli = {}
    /\ broken = {}
    /\ run = None /\ out = None /\ runs = 0

(* stateDirOf: our service file tells the directory, else the shell does.   *)
StateDirOf(env) == IF svc # None THEN svc ELSE env

Command(name, dir, force, purge) ==
    [cmd |-> name, at |-> Steps[name][1], dir |-> dir, force |-> force,
     purge |-> purge, old |-> None, updating |-> tree # None, rc0 |-> {},
     done |-> {}, left |-> FALSE]

Begin(name, dir, force, purge) ==
    /\ run = None /\ runs < MaxRuns
    /\ run' = Command(name, dir, force, purge)
    /\ out' = None /\ runs' = runs + 1

(* install.sh: an existing tree is updated; an update interrupted between   *)
(* the two mv finds none, and installs afresh.                              *)
BeginInstall ==
    /\ ~git
    /\ \E d \in InstallDirs : Begin("install", d, FALSE, FALSE)
    /\ UNCHANGED <<world, trees, agent, asked, state, placed, broken>>

(* git pull: the running agent goes on with the code it has loaded.         *)
BeginPull ==
    /\ git /\ tree # None /\ tree < MaxTrees
    /\ \E d \in InstallDirs, force \in BOOLEAN : Begin("pull", d, force, FALSE)
    /\ tree' = tree + 1
    /\ UNCHANGED <<world, olds, good, agent, asked, state, placed, broken>>

BeginUninstall ==
    /\ tree # None
    /\ \E env \in Dirs, force, purge \in BOOLEAN :
          Begin("uninstall", StateDirOf(env), force, purge)
    /\ UNCHANGED <<world, trees, agent, asked, state, placed, broken>>

-----------------------------------------------------------------------------
(* Approvals that a stop would drop.                                        *)

(* pending.mjs: 0 none, 1 some, 2 no agent, 3 could not tell (no answer, or *)
(* the directory asked about has not the token of the agent that runs).     *)
PendingCode ==
    IF up = None THEN 2
    ELSE IF hung \/ up # run.dir THEN 3
    ELSE IF pend THEN 1
    ELSE 0

(* pendingDecision; install.sh goes on when it could not tell, and does not *)
(* ask at all on a fresh install or without a service.                      *)
MayGo ==
    \/ PendingCode \in {0, 2}
    \/ PendingCode = 3 /\ (run.force \/ run.cmd = "install")
    \/ run.cmd = "install" /\ (~run.updating \/ kind = "none")

Gate ==
    /\ At("gate") \/ At("recheck")
    /\ IF MayGo THEN Onward ELSE Ends(PendingCode)
    /\ late' = FALSE
    /\ UNCHANGED <<world, trees, agent, pend, state, placed, broken>>

(* account.mjs logout: the slot first, then the file that holds the         *)
(* credential.  A slot that was freed by a call whose answer was lost is    *)
(* refused the next time.  With --force the file goes without the slot.     *)
Logout ==
    /\ At("logout")
    /\ \/ /\ run.dir \notin signed
          /\ Onward /\ UNCHANGED <<signed, slots, told>>
       \/ /\ run.dir \in signed \cap slots
          /\ slots' = slots \ {run.dir}
          /\ signed' = signed \ {run.dir}
          /\ Onward /\ UNCHANGED told
       \/ /\ run.dir \in signed /\ ~run.force
          /\ slots' \in {slots, slots \ {run.dir}}
          /\ Ends(1) /\ UNCHANGED <<signed, told>>
       \/ /\ run.dir \in signed /\ run.force
          /\ signed' = signed \ {run.dir}
          /\ told' = told \cup {run.dir}
          /\ Onward /\ UNCHANGED slots
    /\ UNCHANGED <<world, trees, agent, asked, keys, mixed, placed, broken>>

(* The agent is gone, and the approvals it kept with it.                    *)
Down == up' = None /\ hand' = FALSE /\ hung' = FALSE /\ pend' = FALSE /\ late' = FALSE

(* The service manager stops the agent it started, not one that was started *)
(* by hand.                                                                 *)
ServiceGoes == IF hand THEN UNCHANGED <<up, hand, hung, asked>> ELSE Down

(* Stopping the service: `disable --now` or launchctl bootout when an        *)
(* uninstall does it, `stop` when install.sh does, which goes on if          *)
(* systemctl fails.                                                          *)
Stop ==
    /\ At("stop")
    /\ \/ /\ svc = None \/ (run.cmd = "install" /\ ~run.updating)
          /\ Onward /\ UNCHANGED <<agent, asked>>
       \/ /\ svc # None /\ (Removing \/ run.updating)
          /\ ServiceGoes
          /\ enabled' = (enabled /\ ~(Removing /\ kind = "systemd"))
          /\ Onward /\ UNCHANGED svc
       \/ /\ svc # None /\ (Removing \/ run.updating)
          /\ IF Removing \/ kind = "launchd" THEN Ends(1) ELSE Onward
          /\ UNCHANGED <<agent, asked>>
    /\ UNCHANGED <<world, trees, state, placed, broken>>

(* `nyan update`: restart the service and wait until its agent answers.     *)
Restart ==
    /\ At("restart")
    /\ \/ /\ svc = None
          /\ Onward /\ UNCHANGED <<agent, asked, keys>>
       \/ /\ svc # None /\ ~hand
          /\ up' = svc /\ hung' = FALSE /\ pend' = FALSE /\ late' = FALSE
          /\ keys' = keys \cup {svc}
          /\ Onward /\ UNCHANGED <<svc, enabled, hand>>
       \/ /\ svc # None
          /\ ServiceGoes \/ UNCHANGED <<up, hand, hung, asked>>
          /\ Ends(1) /\ UNCHANGED <<svc, enabled, keys>>
    /\ UNCHANGED <<world, trees, mixed, signed, slots, told, placed, broken>>

\* A fault: the service was stopped, so nothing is asked.
GoneFault ==
    /\ At("gone") /\ Onward
    /\ UNCHANGED <<world, trees, agent, asked, state, placed, broken>>

(* agentAnswers: an agent that answers ends the command; one that only      *)
(* accepts the connection is taken for a stopped one.                       *)
Gone ==
    /\ At("gone")
    /\ IF up # None /\ ~hung THEN Ends(1) ELSE Onward
    /\ UNCHANGED <<world, trees, agent, asked, state, placed, broken>>

-----------------------------------------------------------------------------
(* The tree.                                                                *)

Aside ==
    /\ At("aside")
    /\ IF run.updating
       THEN /\ olds' = olds \cup {tree} /\ tree' = None
            /\ run' = [run EXCEPT !.at = "place", !.old = tree]
            /\ UNCHANGED <<out, runs>>
       ELSE Onward /\ UNCHANGED <<olds, tree>>
    /\ UNCHANGED <<world, good, agent, asked, state, placed, broken>>

Newest == IF olds = {} THEN 0 ELSE CHOOSE v \in olds : \A w \in olds : w <= v

Place ==
    /\ At("place")
    /\ \/ /\ Newest < MaxTrees
          /\ tree' = Newest + 1 /\ Onward
       \/ UNCHANGED tree /\ Ends(1)
    /\ UNCHANGED <<world, olds, good, agent, asked, state, placed, broken>>

(* install.sh deletes the trees moved aside by earlier updates, at the very *)
(* end; the one this update moved stays.                                    *)
Prune ==
    /\ At("prune")
    /\ olds' = IF run.updating /\ run.cmd = "install" THEN {run.old} ELSE olds
    /\ good' = tree
    /\ Ends(0)
    /\ UNCHANGED <<world, tree, agent, asked, state, placed, broken>>

(* treeProblem: a git checkout is kept.                                     *)
TreeKept == git

(* uninstall: the trees go last, and only an installed one.                 *)
RemoveTree ==
    /\ At("tree")
    /\ \/ /\ TreeKept
          /\ Ends(IF run.left THEN 1 ELSE 0) /\ UNCHANGED trees
       \/ /\ ~TreeKept
          /\ tree' = None /\ olds' = {} /\ good' = None
          /\ \E failed \in BOOLEAN : Ends(IF run.left \/ failed THEN 1 ELSE 0)
    /\ UNCHANGED <<world, agent, asked, state, placed, broken>>

-----------------------------------------------------------------------------
(* The service file.                                                        *)

(* The agent of a started service makes its keys.  Behind one that still    *)
(* runs it does not stay up, which only launchd.mjs looks at.               *)
StartService ==
    \/ /\ up = None
       /\ up' = run.dir /\ keys' = keys \cup {run.dir} /\ Onward
    \/ /\ up # None /\ kind = "systemd"
       /\ UNCHANGED <<up, keys>> /\ Onward
    \/ UNCHANGED <<up, keys>> /\ Ends(1)

(* install.sh writes it with the state directory it was given.              *)
WriteService ==
    /\ kind # "none"
    /\ svc' = run.dir /\ enabled' = TRUE
    /\ StartService
    /\ UNCHANGED <<hand, hung>>

RemoveService ==
    svc' = None /\ enabled' = FALSE /\ Onward
    /\ UNCHANGED <<up, hand, hung, keys>>

Service ==
    /\ At("service")
    /\ \/ Removing /\ RemoveService
       \/ ~Removing /\ WriteService
       \/ ~Removing /\ kind = "none" /\ Onward /\ UNCHANGED <<agent, keys>>
    /\ UNCHANGED <<world, trees, asked, mixed, signed, slots, told, placed, broken>>

(* wait_state: without a service the hooks and the entry are left for later.*)
Token ==
    /\ At("token")
    /\ IF kind = "none" THEN run' = [run EXCEPT !.at = "prune"] /\ UNCHANGED <<out, runs>>
       ELSE IF run.dir \in keys THEN Onward ELSE Ends(1)
    /\ UNCHANGED <<world, trees, agent, asked, state, placed, broken>>

-----------------------------------------------------------------------------
(* What is placed outside the tree.                                         *)

(* install-permission-hook.mjs writes the settings files one after the      *)
(* other and steps over those it cannot read, which a removal reports; to   *)
(* place them it needs the token an agent has left in the state directory.  *)
HooksTodo == IF Removing THEN hooks \ broken ELSE Accounts \ (hooks \cup broken)

Hooks ==
    /\ At("hooks")
    /\ \/ ~Removing /\ run.dir \notin keys /\ UNCHANGED hooks /\ Ends(1)
       \/ /\ Removing \/ run.dir \in keys
          /\ \E a \in HooksTodo :
                hooks' = IF Removing THEN hooks \ {a} ELSE hooks \cup {a}
          /\ UNCHANGED cmd
       \/ /\ Removing \/ run.dir \in keys
          /\ HooksTodo = {} /\ UNCHANGED hooks
          /\ IF Removing /\ broken \cap Accounts # {} THEN Ends(1) ELSE Onward
    /\ UNCHANGED <<world, trees, agent, asked, state, notify, rc, shim, cli, broken>>

(* decide, decideRemove: a notify.sh that the user changed is left alone.   *)
NotifyAfter ==
    IF notify = "edited" THEN "edited" ELSE IF Removing THEN "none" ELSE "ours"

Notify ==
    /\ At("notify")
    /\ \/ /\ notify' = NotifyAfter
          /\ Onward
       \/ UNCHANGED notify /\ Ends(1)
    /\ UNCHANGED <<world, trees, agent, asked, state, hooks, rc, shim, cli, broken>>

(* install-relay.mjs reads every rc file and stages what will replace it;   *)
(* a marker without its pair, or no real claude to run, ends it here.       *)
RcPlan ==
    /\ At("plan")
    /\ \/ /\ broken \cap Rcs = {}
          /\ run' = [run EXCEPT !.at = "rc", !.rc0 = rc, !.done = {}]
          /\ UNCHANGED <<out, runs>>
       \/ /\ ~Removing \/ broken \cap Rcs # {}
          /\ Ends(1)
    /\ UNCHANGED <<world, trees, agent, asked, state, placed, broken>>

RcTodo == IF Removing THEN rc ELSE Rcs \ rc

\* A fault: those replaced before stay.
RcCommitFault ==
    /\ At("rc")
    /\ \/ \E f \in RcTodo :
             /\ rc' = IF Removing THEN rc \ {f} ELSE rc \cup {f}
             /\ run' = [run EXCEPT !.done = @ \cup {f}]
             /\ UNCHANGED <<out, runs>>
       \/ RcTodo # {} /\ UNCHANGED rc /\ Ends(1)
       \/ /\ RcTodo = {} /\ UNCHANGED rc
          /\ run' = [run EXCEPT !.at = "shim", !.rc0 = {}, !.done = {}]
          /\ UNCHANGED <<out, runs>>
    /\ UNCHANGED <<world, trees, agent, asked, state, hooks, notify, shim, cli, broken>>

(* commitStaged: the files are replaced one by one; when one fails, those   *)
(* replaced before are restored from their backups, and those that could    *)
(* not be are named.                                                        *)
RcCommit ==
    /\ At("rc")
    /\ \/ \E f \in RcTodo :
             /\ rc' = IF Removing THEN rc \ {f} ELSE rc \cup {f}
             /\ run' = [run EXCEPT !.done = @ \cup {f}]
             /\ UNCHANGED <<out, runs>>
       \/ /\ RcTodo # {}
          /\ \E lost \in SUBSET run.done :
                /\ rc' = {f \in Rcs : IF f \in lost THEN f \in rc ELSE f \in run.rc0}
                /\ run' = None
                /\ out' = [code |-> 1, named |-> lost]
                /\ UNCHANGED runs
       \/ /\ RcTodo = {} /\ UNCHANGED rc
          /\ run' = [run EXCEPT !.at = "shim", !.rc0 = {}, !.done = {}]
          /\ UNCHANGED <<out, runs>>
    /\ UNCHANGED <<world, trees, agent, asked, state, hooks, notify, shim, cli, broken>>

(* Only then the shim: its text is checked and run before (RcPlan ends if   *)
(* it does not reach the real claude), and it may still not be placed.      *)
PlaceShim ==
    \/ shim' = shim \cup {run.dir} /\ Onward
    \/ UNCHANGED shim /\ Ends(1)

RemoveShim == shim' = shim \ {run.dir} /\ Onward

Shim ==
    /\ At("shim")
    /\ IF Removing THEN RemoveShim ELSE PlaceShim
    /\ UNCHANGED <<world, trees, agent, asked, state, hooks, notify, rc, cli, broken>>

(* The nyan command; where another one is on PATH, none is placed.          *)
Cli ==
    /\ At("cli")
    /\ IF Removing THEN cli' = cli \ {run.dir} ELSE cli' \in {cli, cli \cup {run.dir}}
    /\ Onward
    /\ UNCHANGED <<world, trees, agent, asked, state, hooks, notify, rc, shim, broken>>

(* Every file in the directory is one we know, and its bin/ is empty.       *)
OnlyOurs(d) == d \notin mixed \cup shim \cup cli

(* --purge: the state directory, when every file in it is ours.  One that   *)
(* cannot be deleted whole is named at the end.                             *)
Purge ==
    /\ At("purge")
    /\ IF run.purge /\ run.dir \in keys /\ OnlyOurs(run.dir)
       THEN /\ keys' = keys \ {run.dir} /\ signed' = signed \ {run.dir}
            /\ \E left \in BOOLEAN :
                  run' = [run EXCEPT !.at = "tree", !.left = left]
            /\ UNCHANGED <<out, runs>>
       ELSE Onward /\ UNCHANGED <<keys, signed>>
    /\ UNCHANGED <<world, trees, agent, asked, mixed, slots, told, placed, broken>>

-----------------------------------------------------------------------------
(* The environment.                                                         *)

Killed ==
    /\ run # None /\ run' = None
    /\ UNCHANGED <<world, trees, agent, asked, state, placed, broken, out, runs>>

(* The machine goes down; at the next login the service comes up, if its    *)
(* file is there and its tree is.                                           *)
Reboot ==
    /\ run # None \/ up # None
    /\ run' = None
    /\ up' = IF enabled /\ svc # None /\ tree # None THEN svc ELSE None
    /\ keys' = IF up' = None THEN keys ELSE keys \cup {up'}
    /\ hand' = FALSE /\ hung' = FALSE /\ pend' = FALSE /\ late' = FALSE
    /\ UNCHANGED <<world, trees, svc, enabled, mixed, signed, slots,
                   told, placed, broken, out, runs>>

(* An approval arrives, at any time; the user answers it, or stops an agent *)
(* they started, only between commands.                                     *)
Asked ==
    /\ up # None /\ ~pend /\ pend' = TRUE /\ late' = (run # None)
    /\ UNCHANGED <<world, trees, agent, state, placed, broken, cmd>>

Answered ==
    /\ run = None /\ pend /\ pend' = FALSE /\ late' = FALSE
    /\ UNCHANGED <<world, trees, agent, state, placed, broken, cmd>>

StartByHand ==
    /\ run = None /\ up = None /\ tree # None
    /\ \E d \in InstallDirs : up' = d /\ keys' = keys \cup {d}
    /\ hand' = TRUE
    /\ UNCHANGED <<world, trees, svc, enabled, hung, asked, mixed, signed,
                   slots, told, placed, broken, cmd>>

StopByHand ==
    /\ run = None /\ hand /\ Down
    /\ UNCHANGED <<world, trees, svc, enabled, state, placed, broken, cmd>>

Hangs ==
    /\ run = None /\ up # None /\ ~hung /\ hung' = TRUE
    /\ UNCHANGED <<world, trees, svc, enabled, up, hand, asked, state, placed,
                   broken, cmd>>

(* `nyan login`, in the state directory the shell names.                    *)
SignIn ==
    /\ run = None /\ tree # None
    /\ \E d \in InstallDirs \ signed :
          signed' = signed \cup {d} /\ slots' = slots \cup {d}
    /\ UNCHANGED <<world, trees, agent, asked, keys, mixed, told, placed, broken, cmd>>

(* The user breaks, or mends, a settings file or an rc file, or changes     *)
(* notify.sh.                                                               *)
Edits ==
    /\ run = None
    /\ \/ /\ \E f \in Accounts \cup Rcs :
                broken' = IF f \in broken THEN broken \ {f} ELSE broken \cup {f}
          /\ UNCHANGED notify
       \/ notify = "ours" /\ notify' = "edited" /\ UNCHANGED broken
    /\ UNCHANGED <<world, trees, agent, asked, state, hooks, rc, shim, cli, cmd>>

Next ==
    \/ BeginInstall \/ BeginPull \/ BeginUninstall
    \/ Gate \/ Logout \/ Stop \/ Restart \/ Gone
    \/ Aside \/ Place \/ Prune \/ RemoveTree \/ Service \/ Token
    \/ Hooks \/ Notify \/ RcPlan \/ RcCommit \/ Shim \/ Cli \/ Purge
    \/ Killed \/ Reboot \/ Asked \/ Answered \/ StartByHand \/ StopByHand
    \/ Hangs \/ SignIn \/ Edits

Spec == Init /\ [][Next]_vars

-----------------------------------------------------------------------------
(* Properties.                                                              *)

TypeOK ==
    /\ kind \in Kinds /\ git \in BOOLEAN
    /\ {tree, good} \subseteq (1 .. MaxTrees) \cup {None}
    /\ olds \subseteq 1 .. MaxTrees
    /\ {svc, up} \subseteq Dirs \cup {None}
    /\ {enabled, hand, hung, pend, late} \subseteq BOOLEAN
    /\ keys \cup mixed \cup signed \cup slots \cup told \cup shim \cup cli \subseteq Dirs
    /\ hooks \subseteq Accounts /\ rc \subseteq Rcs
    /\ broken \subseteq Accounts \cup Rcs
    /\ notify \in {"none", "ours", "edited"}
    /\ runs \in 0 .. MaxRuns

EndsNow(name, code) ==
    run # None /\ run.cmd = name /\ run' = None /\ out' # out /\ out'.code = code

(* An uninstall that reports success has removed everything this machine    *)
(* was given - through whatever failed, was killed and was run again before *)
(* it: no hook would hold up a session, no PATH block, no shim, no service  *)
(* that comes back, no notify.sh of ours, and no slot of the account, unless *)
(* the command said so.  The service file, which tells a second attempt the *)
(* state directory whatever the shell says, goes only after the rest of it. *)
UninstalledIsClean ==
    [][/\ EndsNow("uninstall", 0)
            => /\ hooks' = {} /\ rc' = {} /\ svc' = None /\ ~enabled'
               /\ notify' # "ours" /\ run.dir \notin shim' \cup cli'
               /\ run.dir \notin slots' \ told
       /\ svc # None /\ svc' = None
            => /\ hooks \cup rc = {} /\ svc \notin shim \cup cli
               /\ svc \notin slots \ told]_vars

(* The agent's keys - and so every phone paired with it - survive all but   *)
(* an uninstall that purges a directory of our files only; no approval that *)
(* was waiting at the last look is dropped; and no tree and no keys go from *)
(* under an agent that runs (an update through systemd cannot tell).        *)
AgentSpared ==
    [][/\ \A d \in keys \ keys' : run # None /\ Removing /\ run.purge /\ d \notin mixed
       /\ pend /\ ~pend' /\ run # None /\ run.at \in {"stop", "restart"}
              /\ (run' # None \/ out' # out)
            => late \/ run.force \/ hung \/ up # run.dir
       /\ (keys \ keys' # {} \/ (tree # None /\ tree' = None)) /\ up # None
            => run.force \/ (~Removing /\ (hand \/ kind # "launchd"))]_vars

(* Whatever stops a command, there is a way on: while anything of ours is   *)
(* placed, a tree with the scripts that remove it is on the disk, and so is *)
(* the version that last went through; a command that stops on an rc file   *)
(* leaves them as it found them, but for those it names, and no new shim.   *)
WayBack ==
    /\ hooks # {} \/ rc # {} \/ shim \cup cli # {} \/ svc # None => tree # None \/ olds # {}
    /\ good # None => good \in olds \cup {tree} \/ git

RcRestored ==
    At("rc") /\ run' = None /\ out' # out
      => shim' = shim /\ \A f \in Rcs \ out'.named : f \in rc' <=> f \in run.rc0

Recoverable == []WayBack /\ [][RcRestored]_vars
=============================================================================
