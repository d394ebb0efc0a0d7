-------------------------- MODULE IntegrationProofs --------------------------
(***************************************************************************)
(* The Codex integration, for any executables, ports, earlier service and  *)
(* number of credential generations, with a crash or a failure before any  *)
(* step. The argument has four layers.                                     *)
(*                                                                         *)
(* ControlInv is about the list of steps alone: which step may follow      *)
(* which, that the steps applying a LaunchAgent transaction stand in front *)
(* of all others, and that a call which has not failed still holds every   *)
(* step that is to follow the ones it has left.                            *)
(*                                                                         *)
(* StoreInv and ServiceInv say what the first step of the list relies on:  *)
(* of the settings and their journal, and of the LaunchAgent and its       *)
(* transaction. ConvergeInv says what a call has achieved by the steps it  *)
(* no longer has before it.                                                *)
(***************************************************************************)
EXTENDS CodexIntegration, SequenceTheorems, TLAPS

----------------------------------------------------------------------------
(* The list of steps                                                       *)

\* b may come directly after a. A step with no other predecessor is only
\* ever the first of what is left.
May(a, b) ==
  /\ b \notin {"recover_migration", "journal", "finalize", "restore_settings", "save", "reinstall"}
  /\ b = "generate" => a = "journal"
  /\ b = "adopt" => a = "generate"
  /\ b = "probe" => a \in {"install_settings", "adopt"}
  /\ b = "drop_replacement" => a = "restore_settings"
  /\ b = "install_settings" => a \in {"recover_migration", "unjournal"}
  /\ b = "install" => a \in {"recover", "owned", "own", "undone"}
  /\ b = "uninstall" => a \in {"recover", "restored", "owned", "own", "undone"}
  /\ b = "release" => a \in {"uninstall", "restored"}
  /\ b = "commit_uninstall" => a = "release"
  /\ b = "stop" => a = "save"
  /\ b = "stopped" => a = "stop"
  /\ b = "replace" => a = "stopped"
  /\ b = "written" => a = "replace"
  /\ b = "start" => a = "written"
  /\ b = "started" => a = "start"
  /\ b \in Finishing => a \in {"written", "started"}
  /\ b = "remove" => a = "restored"

Linked(q) == \A i \in 1..(Len(q) - 1) : May(q[i], q[i + 1])
\* The steps at work come first.
Fronted(q) == \A i, j \in 1..Len(q) : i < j /\ q[j] \in Working => q[i] \in Working
Idle(q) == \A i \in 1..Len(q) : q[i] \notin Working
Good(q) == q \in Seq(CallSteps) /\ Linked(q) /\ Fronted(q)

\* A connect and a disconnect have milestones; a precedes m in the call.
BeforeInstall ==
  {"recover_migration", "install_settings", "journal", "generate", "adopt", "probe", "recover",
   "owned", "own", "undone"}
Precedes(a, m) ==
  \/ m = "install" /\ a \in BeforeInstall
  \/ m = "config" /\ a \in BeforeInstall \cup {"install", "ready"} \cup Working
  \/ m = "commit_install" /\ a \in BeforeInstall \cup {"install", "ready", "config"} \cup Working
  \/ m = "commit_settings"
     /\ a \in BeforeInstall \cup {"install", "ready", "config", "commit_install"} \cup Working
  \/ m = "release" /\ a \in {"recover", "uninstall"} \cup Working
  \/ m = "commit_uninstall" /\ a \in {"recover", "uninstall", "release"} \cup Working
  \/ m = "rollback_settings"
     /\ a \in {"recover", "uninstall", "release", "commit_uninstall"} \cup Working
Milestones(kind) ==
  CASE kind = "connect"    -> {"install", "config", "commit_install", "commit_settings"}
    [] kind = "disconnect" -> {"release", "commit_uninstall", "rollback_settings"}
    [] OTHER               -> {}
\* What a call does as long as it has not failed.
StepsOf(kind) ==
  CASE kind = "connect" ->
         {"recover_migration", "install_settings", "journal", "generate", "adopt", "probe",
          "finalize", "unjournal", "drop_replacement", "recover", "install", "ready", "config",
          "commit_install", "commit_settings"} \cup Working
    [] kind = "disconnect" ->
         {"recover", "uninstall", "release", "commit_uninstall", "rollback_settings",
          "finalize", "unjournal", "drop_replacement", "restore_settings"} \cup Working
    [] OTHER -> CallSteps

Has(q, m) == \E i \in 1..Len(q) : q[i] = m
\* Milestone m is before the call in its proper place, or behind it.
Heads(q, m) ==
  /\ \A i \in 1..Len(q) : Precedes(q[i], m) => Has(q, m)
  /\ \A i, j \in 1..Len(q) : i < j /\ q[i] = m => q[j] # m /\ ~Precedes(q[j], m)
Staged(q, kind) ==
  /\ \A i \in 1..Len(q) : q[i] \in StepsOf(kind)
  /\ \A m \in Milestones(kind) : Heads(q, m)

\* A call at work.
Legal(o) ==
  /\ DOMAIN o = {"kind", "executable", "todo", "mode", "restart", "txn", "expected", "failed"}
  /\ o.kind \in {"connect", "disconnect", "status"} /\ o.executable \in Executables
  /\ o.failed \in BOOLEAN
  /\ Good(o.todo)
  /\ Has(o.todo, "install") => o.mode = "connect"
  /\ Has(o.todo, "uninstall") => o.mode = "disconnect"
  /\ ~o.failed => Staged(o.todo, o.kind)
ControlInv == call # NoCall => Legal(call)

----------------------------------------------------------------------------
(* The settings                                                            *)

\* What the first step finds.
StoreReady ==
  /\ Due("journal") => settings # NoSettings /\ ~IsV3
  /\ Due("generate") => ~IsV3
  /\ Due("adopt") => ~IsV3 /\ generations \in credentials
  /\ Due("drop_replacement") => ~IsV3
  /\ Due("probe") => settings # NoSettings
  /\ Due("finalize") => journal # NoJournal /\ journal.phase = "committed"
  /\ Due("restore_settings") => journal # NoJournal /\ journal.phase = "pending"
StoreInv ==
  /\ settings \in Settings \cup {NoSettings}
  /\ journal \in Journals \cup {NoJournal}
  /\ journal # NoJournal => journal.previous.generation = Legacy
  /\ generations \in Nat
  /\ StoreReady
  /\ SettingsUsable

----------------------------------------------------------------------------
(* The LaunchAgent                                                         *)

Busy(o) == o # NoCall /\ o.todo # <<>> /\ Head(o.todo) \in Working
Undoing(o) == o # NoCall /\ Has(o.todo, "undone")
Owning(o) == o # NoCall /\ Has(o.todo, "own")

\* A transaction t that call o can take back: to the service s that was there
\* before us, and, once we own it, to one of ours that runs.
Sound(t, s, o) ==
  /\ t.prior = s.plist /\ t.priorLoaded = s.loaded
  /\ t.operation = "connect" /\ t.phase # "owned" =>
       t.rollback = s.plist /\ t.rollbackLoaded = s.loaded
  /\ t.operation # "connect" => t.rollbackLoaded
  /\ t.operation # "disconnect" /\ ~Undoing(o) => t.desiredLoaded
  /\ t.operation = "disconnect" =>
       /\ t.phase # "owned"
       /\ ~Owning(o) => t.desired = s.plist /\ t.desiredLoaded = s.loaded

\* The steps at work and the transaction they apply.
Fits(step, t, s) ==
  /\ step \in {"restored", "undone", "remove"} =>
       t.desired = s.plist /\ t.desiredLoaded = s.loaded
  /\ step = "restored" => t.operation = "disconnect"
  /\ step = "owned" => t.operation = "reconnect"
  /\ step = "applied" => t.operation # "disconnect"
  /\ step \in {"start", "started", "own", "owned", "applied"} => t.desiredLoaded
Serves(q, t, s) ==
  /\ \A i \in 1..Len(q) : Fits(q[i], t, s)
  /\ \A i \in 1..(Len(q) - 1) : q[i] = "written" /\ q[i + 1] \in Finishing => ~t.desiredLoaded

\* How far the work has come when step is next, with file p and service l.
Progress(step, t, p, l) ==
  /\ step \in {"stopped", "replace"} => ~l
  /\ step \in {"written", "start"} => ~l /\ p = t.desired
  /\ step = "started" => l /\ p = t.desired
  /\ step \in Finishing \cup {"remove"} => p = t.desired /\ l = t.desiredLoaded
AtWork(o, x, p, l, s) ==
  /\ o.txn \in Txns /\ Sound(o.txn, s, o) /\ o.txn.phase # "owned"
  /\ Progress(Head(o.todo), o.txn, p, l)
  /\ Head(o.todo) # "save" => x # NoTxn

\* What recovery leaves for an installation, and for a removal.
Given(step, x, p, l, s) ==
  /\ step = "install" /\ x # NoTxn => x.phase = "owned" /\ p = x.desired /\ l
  /\ step \in {"uninstall", "release", "commit_uninstall"} /\ x # NoTxn
       /\ x.operation = "disconnect" =>
       x.phase = "restored" /\ p = s.plist /\ l = s.loaded
ServiceInv ==
  /\ plist \in Plists /\ loaded \in BOOLEAN /\ original \in PriorServices
  /\ txn \in Txns \cup {NoTxn}
  /\ txn # NoTxn => Sound(txn, original, call)
  /\ call # NoCall => call \in Calls /\ Serves(call.todo, call.txn, original)
  /\ Busy(call) => AtWork(call, txn, plist, loaded, original)
  /\ call # NoCall /\ call.todo # <<>> => Given(Head(call.todo), txn, plist, loaded, original)
  /\ PriorServiceReturns

----------------------------------------------------------------------------
(* What the calls achieve                                                  *)

Configured(o, c, k) ==
  /\ c # NoConfig /\ k # NoSettings
  /\ c.generation = k.generation /\ c.port = k.port /\ c.executable = o.executable
Up(o, x, p, l) == x # NoTxn /\ x.desired = o.executable /\ p = o.executable /\ l

\* What call o has reached, with transaction x, plist p, service l,
\* configuration c, settings k and their journal j.
ConnectReached(o, x, p, l, c, k, j) ==
  /\ \/ Has(o.todo, "probe") \/ Has(o.todo, "adopt") \/ Has(o.todo, "install_settings")
     \/ k # NoSettings
  /\ Has(o.todo, "install") \/ Has(o.todo, "applied") \/ Up(o, x, p, l)
  /\ Busy(o) => Has(o.todo, "install") \/ Has(o.todo, "applied")
  /\ Has(o.todo, "applied") => o.txn.desired = o.executable
  /\ Has(o.todo, "config") \/ Configured(o, c, k)
  /\ Has(o.todo, "commit_install") \/ x.phase = "owned"
  /\ Has(o.todo, "commit_settings") \/ Has(o.todo, "unjournal") \/ j = NoJournal
DisconnectReached(o, x, c, j) ==
  /\ Has(o.todo, "release") \/ c = NoConfig
  /\ Has(o.todo, "commit_uninstall") \/ x = NoTxn
  /\ Has(o.todo, "rollback_settings") \/ Has(o.todo, "unjournal") \/ j = NoJournal
ConvergeInv ==
  /\ call # NoCall /\ ~call.failed /\ call.kind = "connect" =>
       ConnectReached(call, txn, plist, loaded, managed, settings, journal)
  /\ call # NoCall /\ ~call.failed /\ call.kind = "disconnect" =>
       DisconnectReached(call, txn, managed, journal)
  /\ outcome # "none" => call = NoCall
  /\ CallsConverge

----------------------------------------------------------------------------
(* Lists                                                                   *)

\* The elements of a tail.
LEMMA TailAt ==
  ASSUME NEW q \in Seq(CallSteps), q # <<>>
  PROVE  /\ Tail(q) \in Seq(CallSteps) /\ Len(q) \in Nat \ {0} /\ Len(Tail(q)) = Len(q) - 1
         /\ Head(q) = q[1] /\ Head(q) \in CallSteps
         /\ \A i \in 1..Len(Tail(q)) : Tail(q)[i] = q[i + 1]
         /\ Tail(q) # <<>> => Head(Tail(q)) = q[2] /\ Len(q) >= 2
BY HeadTailProperties, EmptySeq, LenProperties

\* What holds of the list holds of what is left of it.
LEMMA TailGood ==
  ASSUME NEW q, Good(q), q # <<>>
  PROVE  /\ Good(Tail(q))
         /\ Tail(q) # <<>> => May(Head(q), Head(Tail(q)))
         /\ Head(q) \notin Working => Idle(Tail(q))
         /\ \A m : Has(Tail(q), m) => Has(q, m)
         /\ \A m : Has(q, m) => m = Head(q) \/ Has(Tail(q), m)
<1>1. Linked(Tail(q))
  BY TailAt DEF Good, Linked
<1>2. Fronted(Tail(q))
  BY TailAt DEF Good, Fronted
<1>3. Tail(q) # <<>> => May(Head(q), Head(Tail(q)))
  BY TailAt DEF Good, Linked
<1>4. Head(q) \notin Working => Idle(Tail(q))
  BY TailAt DEF Good, Fronted, Idle
<1>5. \A m : Has(Tail(q), m) => Has(q, m)
  BY TailAt DEF Good, Has
<1>6. ASSUME NEW m, Has(q, m), m # Head(q)
      PROVE  Has(Tail(q), m)
  <2>1. PICK i \in 1..Len(q) : q[i] = m
    BY <1>6 DEF Has
  <2>2. i - 1 \in 1..Len(Tail(q)) /\ Tail(q)[i - 1] = m
    BY <2>1, <1>6, TailAt DEF Good
  <2> QED BY <2>2 DEF Has
<1> QED BY <1>1, <1>2, <1>3, <1>4, <1>5, <1>6, TailAt DEF Good

\* The elements of a list that was put in front of another.
LEMMA JoinAt ==
  ASSUME NEW a \in Seq(CallSteps), NEW r \in Seq(CallSteps)
  PROVE  /\ a \o r \in Seq(CallSteps) /\ Len(a) \in Nat /\ Len(r) \in Nat
         /\ Len(a \o r) = Len(a) + Len(r)
         /\ \A i \in 1..Len(a) : (a \o r)[i] = a[i]
         /\ \A i \in (Len(a) + 1)..(Len(a) + Len(r)) : (a \o r)[i] = r[i - Len(a)]
         /\ \A i \in 1..Len(r) : (a \o r)[i + Len(a)] = r[i]
BY ConcatProperties, LenProperties

\* p holds the n elements of a and then those of r.
Joined(p, a, r, n) ==
  /\ p \in Seq(CallSteps) /\ Len(p) = n + Len(r)
  /\ \A i \in 1..n : p[i] = a[i]
  /\ \A i \in 1..Len(r) : p[i + n] = r[i]

\* The same of a concatenation that has a name.
LEMMA JoinedAt ==
  ASSUME NEW a \in Seq(CallSteps), NEW r \in Seq(CallSteps),
         NEW p, p = a \o r, NEW n, n = Len(a)
  PROVE  Joined(p, a, r, n)
BY JoinAt DEF Joined

\* Two lists joined are a good one when the second is idle and its first step
\* may follow the last of the first.
LEMMA JoinGood ==
  ASSUME NEW a, NEW r, Good(a), Good(r), Idle(r),
         a # <<>> /\ r # <<>> => May(a[Len(a)], Head(r))
  PROVE  /\ Good(a \o r)
         /\ \A m : Has(a \o r, m) <=> Has(a, m) \/ Has(r, m)
         /\ a # <<>> => a \o r # <<>> /\ Head(a \o r) = Head(a)
<1> DEFINE q == a \o r
<1>0. a \in Seq(CallSteps) /\ r \in Seq(CallSteps)
  BY DEF Good
<1>1. Linked(q)
  <2> SUFFICES ASSUME NEW i \in 1..(Len(q) - 1) PROVE May(q[i], q[i + 1])
    BY DEF Linked
  <2>1. CASE i < Len(a)
    BY <1>0, <2>1, JoinAt DEF Good, Linked
  <2>2. CASE i = Len(a)
    <3>1. a # <<>> /\ r # <<>> /\ q[i] = a[Len(a)] /\ q[i + 1] = r[1]
      BY <1>0, <2>2, JoinAt, EmptySeq
    <3> QED BY <3>1, <1>0, TailAt
  <2>3. CASE i > Len(a)
    <3>1. i - Len(a) \in 1..(Len(r) - 1) /\ q[i] = r[i - Len(a)] /\ q[i + 1] = r[i - Len(a) + 1]
      BY <1>0, <2>3, JoinAt
    <3> QED BY <3>1 DEF Good, Linked
  <2> QED BY <2>1, <2>2, <2>3, <1>0, JoinAt
<1>2. Fronted(q)
  BY <1>0, JoinAt DEF Good, Fronted, Idle
<1>3. \A m : Has(q, m) <=> Has(a, m) \/ Has(r, m)
  <2> SUFFICES ASSUME NEW m PROVE Has(q, m) <=> Has(a, m) \/ Has(r, m)
    OBVIOUS
  <2>1. Has(q, m) => Has(a, m) \/ Has(r, m)
    BY <1>0, JoinAt DEF Has
  <2>2. Has(a, m) => Has(q, m)
    BY <1>0, JoinAt DEF Has
  <2>3. Has(r, m) => Has(q, m)
    <3> SUFFICES ASSUME NEW i \in 1..Len(r), r[i] = m PROVE Has(q, m)
      BY DEF Has
    <3>1. i + Len(a) \in 1..Len(q) /\ q[i + Len(a)] = m
      BY <1>0, JoinAt
    <3> QED BY <3>1 DEF Has
  <2> QED BY <2>1, <2>2, <2>3
<1>4. a # <<>> => q # <<>> /\ Head(q) = Head(a)
  <2> SUFFICES ASSUME a # <<>> PROVE q # <<>> /\ Head(q) = Head(a)
    OBVIOUS
  <2>1. Len(a) > 0 /\ Head(a) = a[1]
    BY <1>0, TailAt
  <2>2. q # <<>>
    BY <1>0, <2>1, JoinAt, EmptySeq
  <2> QED BY <1>0, <2>1, <2>2, JoinAt, TailAt
<1> QED BY <1>0, <1>1, <1>2, <1>3, <1>4, JoinAt DEF Good

\* The stages of a call survive when its first step is done, ...
LEMMA TailStaged ==
  ASSUME NEW q, NEW kind, Good(q), q # <<>>, Staged(q, kind)
  PROVE  Staged(Tail(q), kind)
<1>1. ASSUME NEW i \in 1..Len(Tail(q)) PROVE Tail(q)[i] \in StepsOf(kind)
  BY TailAt DEF Good, Staged
<1>2. ASSUME NEW m \in Milestones(kind) PROVE Heads(Tail(q), m)
  <2>0. Heads(q, m)
    BY DEF Staged
  <2>1. ASSUME NEW i \in 1..Len(Tail(q)), Precedes(Tail(q)[i], m) PROVE Has(Tail(q), m)
    <3>1. i + 1 \in 1..Len(q) /\ q[i + 1] = Tail(q)[i] /\ 1 \in 1..Len(q) /\ 1 < i + 1
      BY TailAt DEF Good
    <3>2. Has(q, m) /\ q[1] # m
      BY <2>0, <2>1, <3>1 DEF Heads
    <3> QED BY <3>2, TailGood, TailAt DEF Good
  <2>2. ASSUME NEW i \in 1..Len(Tail(q)), NEW j \in 1..Len(Tail(q)), i < j, Tail(q)[i] = m
        PROVE  Tail(q)[j] # m /\ ~Precedes(Tail(q)[j], m)
    BY <2>0, <2>2, TailAt DEF Good, Heads
  <2> QED BY <2>1, <2>2 DEF Heads
<1> QED BY <1>1, <1>2 DEF Staged

\* ... and when that step becomes several of the same stage.
Stands(a, h, kind) ==
  \A i \in 1..Len(a) :
    /\ a[i] \in StepsOf(kind) /\ a[i] \notin Milestones(kind)
    /\ \A m \in Milestones(kind) : Precedes(a[i], m) => Precedes(h, m)

\* The milestones stay in place when the first step gives way to such a list.
LEMMA JoinStaged ==
  ASSUME NEW q, NEW kind, Good(q), q # <<>>, Staged(q, kind),
         NEW a \in Seq(CallSteps), Stands(a, Head(q), kind)
  PROVE  Staged(a \o Tail(q), kind)
<1> DEFINE r == Tail(q)
<1> DEFINE p == a \o r
<1>0. r \in Seq(CallSteps) /\ Staged(r, kind)
  BY TailStaged, TailAt DEF Good
<1>1. ASSUME NEW i \in 1..Len(p) PROVE p[i] \in StepsOf(kind)
  BY <1>0, JoinAt DEF Staged, Stands
<1>2. ASSUME NEW m \in Milestones(kind) PROVE Heads(p, m)
  <2>0. Heads(q, m) /\ Heads(r, m)
    BY <1>0 DEF Staged
  <2>1. Has(r, m) => Has(p, m)
    <3> SUFFICES ASSUME NEW i \in 1..Len(r), r[i] = m PROVE Has(p, m)
      BY DEF Has
    <3>1. i + Len(a) \in 1..Len(p) /\ p[i + Len(a)] = m
      BY <1>0, JoinAt
    <3> QED BY <3>1 DEF Has
  <2>2. ASSUME NEW i \in 1..Len(p), Precedes(p[i], m) PROVE Has(p, m)
    <3>1. CASE i <= Len(a)
      <4>1. Precedes(Head(q), m)
        BY <1>0, <2>2, <3>1, JoinAt DEF Stands
      <4>2. Head(q) # m
        BY <4>1 DEF Precedes, BeforeInstall, Working, Applying, Finishing
      <4>3. Has(q, m)
        BY <4>1, <2>0, TailAt DEF Good, Heads
      <4> QED BY <4>2, <4>3, <2>1, TailGood
    <3>2. CASE i > Len(a)
      <4>1. i - Len(a) \in 1..Len(r) /\ r[i - Len(a)] = p[i]
        BY <1>0, <3>2, JoinAt
      <4> QED BY <4>1, <2>0, <2>1, <2>2 DEF Heads
    <3> QED BY <3>1, <3>2, <1>0, JoinAt
  <2>3. ASSUME NEW i \in 1..Len(p), NEW j \in 1..Len(p), i < j, p[i] = m
        PROVE  p[j] # m /\ ~Precedes(p[j], m)
    <3>1. i > Len(a)
      BY <1>0, <2>3, JoinAt DEF Stands
    <3>2. /\ i - Len(a) \in 1..Len(r) /\ r[i - Len(a)] = p[i]
          /\ j - Len(a) \in 1..Len(r) /\ r[j - Len(a)] = p[j]
          /\ i - Len(a) < j - Len(a)
      BY <1>0, <3>1, <2>3, JoinAt
    <3> QED BY <3>2, <2>0, <2>3 DEF Heads
  <2> QED BY <2>2, <2>3 DEF Heads
<1> QED BY <1>1, <1>2 DEF Staged

----------------------------------------------------------------------------
(* What a step makes of the call                                           *)

Same(p, o) ==
  DOMAIN p = DOMAIN o /\ p.kind = o.kind /\ p.executable = o.executable /\ p.mode = o.mode

\* A call whose first step is done is still a legal one.
LEMMA LegalTail ==
  ASSUME NEW o, Legal(o), o.todo # <<>>,
         NEW p, Same(p, o), p.failed = o.failed, p.todo = Tail(o.todo)
  PROVE  Legal(p)
BY TailGood, TailStaged DEF Legal, Same

\* The list a may stand for the first step of o.
Replaces(a, o) ==
  /\ Good(a) /\ a # <<>> /\ Head(o.todo) \notin Working
  /\ ~Has(a, "install") /\ ~Has(a, "uninstall")
  /\ \A b \in CallSteps : /\ May(Head(o.todo), b)
                          /\ b = "install" => o.mode = "connect"
                          /\ b = "uninstall" => o.mode = "disconnect"
                          => May(a[Len(a)], b)
  /\ ~o.failed => Stands(a, Head(o.todo), o.kind)

\* So is one whose first step gave way to steps that may stand for it.
LEMMA LegalJoin ==
  ASSUME NEW o, Legal(o), o.todo # <<>>, NEW a, Replaces(a, o),
         NEW p, Same(p, o), p.failed = o.failed, p.todo = a \o Tail(o.todo)
  PROVE  /\ Legal(p) /\ p.todo # <<>> /\ Head(p.todo) = Head(a)
         /\ Idle(Tail(o.todo))
         /\ \A m : Has(p.todo, m) <=> Has(a, m) \/ Has(Tail(o.todo), m)
<1> DEFINE r == Tail(o.todo)
<1>1. Good(o.todo) /\ Good(r) /\ Idle(r) /\ r \in Seq(CallSteps)
  BY TailGood DEF Legal, Replaces, Good
<1>2. ASSUME r # <<>> PROVE May(a[Len(a)], Head(r))
  <2>1. Head(r) \in CallSteps /\ May(Head(o.todo), Head(r)) /\ Has(o.todo, Head(r))
    <3>1. Head(r) \in CallSteps /\ Head(r) = r[1] /\ 1 \in 1..Len(r)
      BY <1>1, <1>2, TailAt
    <3>2. Has(r, Head(r))
      BY <3>1 DEF Has
    <3> QED BY <1>1, <1>2, <3>1, <3>2, TailGood
  <2> QED BY <2>1 DEF Legal, Replaces
<1>3. /\ Good(p.todo) /\ p.todo # <<>> /\ Head(p.todo) = Head(a)
      /\ \A m : Has(p.todo, m) <=> Has(a, m) \/ Has(r, m)
  <2>1. Good(a) /\ a # <<>> /\ (a # <<>> /\ r # <<>> => May(a[Len(a)], Head(r)))
    BY <1>2 DEF Replaces
  <2>2. /\ Good(a \o r) /\ a \o r # <<>> /\ Head(a \o r) = Head(a)
        /\ \A m : Has(a \o r, m) <=> Has(a, m) \/ Has(r, m)
    BY <1>1, <2>1, JoinGood
  <2> QED BY <2>2
<1>4. \A m : Has(r, m) => Has(o.todo, m)
  BY <1>1, TailGood
<1>5. ~o.failed => Staged(p.todo, o.kind)
  BY <1>1, JoinStaged DEF Legal, Replaces, Good
<1> QED BY <1>1, <1>3, <1>4, <1>5 DEF Legal, Same, Replaces

\* A list that a call may go on with when it has failed.
Compensates(a) == Good(a) /\ ~Has(a, "install") /\ ~Has(a, "uninstall") /\ Idle(a)

\* And so is one that failed and goes on with a compensation.
LEMMA LegalFailure ==
  ASSUME NEW o, Legal(o), NEW a, Compensates(a),
         NEW p, Same(p, o), p.failed = TRUE, p.todo = a
  PROVE  Legal(p)
BY DEF Legal, Same, Compensates

----------------------------------------------------------------------------
(* The lists the calls are made of                                         *)

\* A list of one step, of two and of three.
LEMMA OneStep ==
  ASSUME NEW s \in CallSteps
  PROVE  /\ <<s>> \in Seq(CallSteps) /\ <<s>> # <<>> /\ Head(<<s>>) = s /\ Good(<<s>>)
         /\ Len(<<s>>) = 1 /\ <<s>>[1] = s
         /\ \A m : Has(<<s>>, m) <=> m = s
BY DEF Good, Linked, Fronted, Has

\* Two steps in a row that may follow one another.
LEMMA TwoSteps ==
  ASSUME NEW s \in CallSteps, NEW u \in CallSteps, May(s, u), u \in Working => s \in Working
  PROVE  /\ <<s, u>> \in Seq(CallSteps) /\ <<s, u>> # <<>> /\ Head(<<s, u>>) = s /\ Good(<<s, u>>)
         /\ Len(<<s, u>>) = 2 /\ <<s, u>>[1] = s /\ <<s, u>>[2] = u
         /\ \A m : Has(<<s, u>>, m) <=> m = s \/ m = u
<1> DEFINE q == <<s, u>>
<1>1. q \in Seq(CallSteps) /\ q # <<>> /\ Head(q) = s /\ Len(q) = 2 /\ q[1] = s /\ q[2] = u
  OBVIOUS
<1>2. Linked(q) /\ Fronted(q)
  BY <1>1 DEF Linked, Fronted
<1>3. \A m : Has(q, m) <=> m = s \/ m = u
  BY <1>1 DEF Has
<1> QED BY <1>1, <1>2, <1>3 DEF Good

\* Three of them, none at work.
LEMMA ThreeSteps ==
  ASSUME NEW s \in CallSteps, NEW u \in CallSteps, NEW v \in CallSteps, May(s, u), May(u, v),
         s \notin Working, u \notin Working, v \notin Working
  PROVE  /\ <<s, u, v>> \in Seq(CallSteps) /\ <<s, u, v>> # <<>> /\ Head(<<s, u, v>>) = s
         /\ Good(<<s, u, v>>)
         /\ Len(<<s, u, v>>) = 3
         /\ <<s, u, v>>[1] = s /\ <<s, u, v>>[2] = u /\ <<s, u, v>>[3] = v
         /\ \A m : Has(<<s, u, v>>, m) <=> m \in {s, u, v}
<1> DEFINE q == <<s, u, v>>
<1>1. /\ q \in Seq(CallSteps) /\ q # <<>> /\ Head(q) = s /\ Len(q) = 3
      /\ q[1] = s /\ q[2] = u /\ q[3] = v
  OBVIOUS
<1>2. Linked(q) /\ Fronted(q)
  BY <1>1 DEF Linked, Fronted
<1>3. \A m : Has(q, m) <=> m \in {s, u, v}
  BY <1>1 DEF Has
<1> QED BY <1>1, <1>2, <1>3 DEF Good

\* The steps that apply t, behind an optional save and before their end.
Section(b, t, a) == b \o Apply(t) \o a

\* The elements of what apply_launch_agent_desired does, with and without a
\* start of the service.
LEMMA ApplyAt ==
  ASSUME NEW t
  PROVE  /\ Apply(t) \in Seq(CallSteps)
         /\ t.desiredLoaded => Len(Apply(t)) = 6
         /\ ~t.desiredLoaded => Len(Apply(t)) = 4
         /\ Apply(t)[1] = "stop" /\ Apply(t)[2] = "stopped"
         /\ Apply(t)[3] = "replace" /\ Apply(t)[4] = "written"
         /\ t.desiredLoaded => Apply(t)[5] = "start" /\ Apply(t)[6] = "started"
<1>1. CASE t.desiredLoaded
  <2>1. Apply(t) = <<"stop", "stopped", "replace", "written", "start", "started">>
    BY <1>1 DEF Apply
  <2> QED BY <1>1, <2>1 DEF CallSteps, Working, Applying
<1>2. CASE ~t.desiredLoaded
  <2>1. Apply(t) = <<"stop", "stopped", "replace", "written">>
    BY <1>2 DEF Apply
  <2> QED BY <1>2, <2>1 DEF CallSteps, Working, Applying
<1> QED BY <1>1, <1>2

\* q holds the opening b, the application of t up to n, and the ending a.
Shaped(q, b, t, a, n) ==
  /\ q \in Seq(CallSteps)
  /\ Len(b) \in Nat /\ n \in Nat /\ Len(a) \in Nat /\ Len(q) = n + Len(a)
  /\ \A i \in 1..Len(b) : q[i] = b[i]
  /\ q[1 + Len(b)] = "stop" /\ q[2 + Len(b)] = "stopped"
  /\ q[3 + Len(b)] = "replace" /\ q[4 + Len(b)] = "written"
  /\ t.desiredLoaded => q[5 + Len(b)] = "start" /\ q[6 + Len(b)] = "started"
  /\ \A i \in 1..Len(a) : q[i + n] = a[i]

\* The elements of a section: its opening, the application, its ending.
LEMMA SectionAt ==
  ASSUME NEW b \in Seq(CallSteps), NEW t, NEW a \in Seq(CallSteps),
         NEW n, n = Len(b) + Len(Apply(t)), NEW q, q = Section(b, t, a)
  PROVE  Shaped(q, b, t, a, n)
<1>2. PICK w : w = Apply(t)
  OBVIOUS
<1>3. /\ w \in Seq(CallSteps) /\ Len(w) \in Nat /\ n = Len(b) + Len(w) /\ Len(b) \in Nat
      /\ Len(a) \in Nat
  BY <1>2, ApplyAt, LenProperties
<1>4. PICK c : c = b \o w
  OBVIOUS
<1>5. /\ c \in Seq(CallSteps) /\ Len(c) = n /\ n \in Nat
      /\ \A i \in 1..Len(b) : c[i] = b[i]
      /\ \A i \in 1..Len(w) : c[i + Len(b)] = w[i]
  BY <1>3, <1>4, JoinAt
<1>6. q = c \o a
  BY <1>2, <1>4 DEF Section
<1>7. /\ q \in Seq(CallSteps) /\ Len(q) = n + Len(a)
      /\ \A i \in 1..n : q[i] = c[i]
      /\ \A i \in 1..Len(a) : q[i + n] = a[i]
  <2>1. Joined(q, c, a, n)
    BY <1>5, <1>6, JoinedAt
  <2> QED BY <2>1 DEF Joined
<1>8. \A i \in 1..Len(w) : q[i + Len(b)] = w[i]
  <2> SUFFICES ASSUME NEW i \in 1..Len(w) PROVE q[i + Len(b)] = w[i]
    OBVIOUS
  <2>1. i + Len(b) \in 1..n
    BY <1>3
  <2> QED BY <1>5, <1>7, <2>1
<1>9. \A i \in 1..Len(b) : q[i] = b[i]
  BY <1>3, <1>5, <1>7
<1>10. /\ q[1 + Len(b)] = "stop" /\ q[2 + Len(b)] = "stopped"
       /\ q[3 + Len(b)] = "replace" /\ q[4 + Len(b)] = "written"
  <2>0. Len(w) = 4 \/ Len(w) = 6
    BY <1>2, ApplyAt
  <2>1. 1 \in 1..Len(w) /\ 2 \in 1..Len(w) /\ 3 \in 1..Len(w) /\ 4 \in 1..Len(w)
    <3>1. CASE Len(w) = 4
      BY <3>1
    <3>2. CASE Len(w) = 6
      BY <3>2
    <3> QED BY <2>0, <3>1, <3>2
  <2> QED BY <1>2, <1>8, <2>1, ApplyAt
<1>11. t.desiredLoaded => q[5 + Len(b)] = "start" /\ q[6 + Len(b)] = "started"
  <2> SUFFICES ASSUME t.desiredLoaded PROVE q[5 + Len(b)] = "start" /\ q[6 + Len(b)] = "started"
    OBVIOUS
  <2>1. Len(w) = 6 /\ w[5] = "start" /\ w[6] = "started"
    BY <1>2, ApplyAt
  <2>2. 5 \in 1..Len(w) /\ 6 \in 1..Len(w)
    BY <2>1
  <2> QED BY <1>8, <2>1, <2>2
<1> QED BY <1>3, <1>5, <1>7, <1>9, <1>10, <1>11 DEF Shaped

Opening(b) == b \in Seq(CallSteps) /\ (Len(b) = 0 \/ (Len(b) = 1 /\ b[1] = "save"))
Ending(a) ==
  /\ a \in Seq(CallSteps)
  /\ \/ Len(a) = 1 /\ a[1] \in Finishing
     \/ Len(a) = 2 /\ a[1] = "restored" /\ a[2] = "remove"

\* A section is a good list, all of it at work, that ends as it should and
\* starts the service only for a transaction that wants it running.
LEMMA SectionGood ==
  ASSUME NEW b, NEW t, NEW a, Opening(b), Ending(a), NEW q, q = Section(b, t, a)
  PROVE  /\ Good(q) /\ q # <<>> /\ \A i \in 1..Len(q) : q[i] \in Working
         /\ Len(b) = 0 => Head(q) = "stop"
         /\ Len(b) = 1 => Head(q) = "save"
         /\ q[Len(q)] = a[Len(a)]
         /\ Has(q, a[1]) /\ Has(q, a[Len(a)])
         /\ \A i \in 1..Len(q) : q[i] \in Finishing \cup {"remove"} => q[i] \in {a[1], a[Len(a)]}
         /\ \A i \in 1..Len(q) : q[i] \in {"start", "started"} => t.desiredLoaded
         /\ \A i \in 1..(Len(q) - 1) : q[i] = "written" /\ q[i + 1] \in Finishing => ~t.desiredLoaded
<1>1. PICK n : n = Len(b) + Len(Apply(t))
  OBVIOUS
<1>2. PICK k : k = Len(b)
  OBVIOUS
<1>3. PICK l : l = Len(a)
  OBVIOUS
<1>4. /\ q \in Seq(CallSteps) /\ k \in Nat /\ n \in Nat /\ l \in Nat /\ Len(q) = n + l
      /\ \A i \in 1..k : q[i] = b[i]
      /\ q[1 + k] = "stop" /\ q[2 + k] = "stopped" /\ q[3 + k] = "replace" /\ q[4 + k] = "written"
      /\ t.desiredLoaded => q[5 + k] = "start" /\ q[6 + k] = "started"
      /\ \A i \in 1..l : q[i + n] = a[i]
  <2>1. b \in Seq(CallSteps) /\ a \in Seq(CallSteps)
    BY DEF Opening, Ending
  <2>2. Shaped(q, b, t, a, n)
    BY <2>1, <1>1, SectionAt
  <2> QED BY <2>2, <1>2, <1>3 DEF Shaped
<1>5. (t.desiredLoaded => n = k + 6) /\ (~t.desiredLoaded => n = k + 4)
  BY <1>1, <1>2, ApplyAt
<1>6. (k = 0 \/ k = 1) /\ (l = 1 \/ l = 2) /\ (k = 1 => q[1] = "save")
  BY <1>2, <1>3, <1>4 DEF Opening, Ending
<1>7. /\ q[1 + n] = a[1] /\ a[1] \in Finishing
      /\ l = 2 => q[2 + n] = "remove" /\ a[1] = "restored" /\ a[2] = "remove"
  <2>1. q[1 + n] = a[1] /\ (l = 2 => q[2 + n] = a[2])
    BY <1>4, <1>6
  <2> QED BY <2>1, <1>3, <1>6 DEF Ending, Finishing
<1>8. ASSUME NEW i \in 1..Len(q)
      PROVE  \/ k = 1 /\ i = 1
             \/ i = 1 + k \/ i = 2 + k \/ i = 3 + k \/ i = 4 + k
             \/ t.desiredLoaded /\ (i = 5 + k \/ i = 6 + k)
             \/ i = 1 + n \/ (l = 2 /\ i = 2 + n)
  BY <1>4, <1>5, <1>6
<1>9. ASSUME NEW i \in 1..Len(q)
      PROVE  /\ q[i] \in Working
             /\ q[i] \in Finishing \cup {"remove"} => q[i] \in {a[1], a[l]}
             /\ q[i] \in {"start", "started"} => t.desiredLoaded
             /\ q[i] = "written" => i = 4 + k
  <2>1. CASE k = 1 /\ i = 1
    <3>1. q[i] = "save"
      BY <2>1, <1>6
    <3> QED BY <3>1 DEF Working, Applying, Finishing
  <2>2. CASE i = 1 + k \/ i = 2 + k \/ i = 3 + k \/ i = 4 + k
    <3>1. q[i] \in {"stop", "stopped", "replace"} \/ (q[i] = "written" /\ i = 4 + k)
      BY <2>2, <1>4
    <3> QED BY <3>1 DEF Working, Applying, Finishing
  <2>3. CASE t.desiredLoaded /\ (i = 5 + k \/ i = 6 + k)
    <3>1. q[i] \in {"start", "started"}
      BY <2>3, <1>4
    <3> QED BY <2>3, <3>1 DEF Working, Applying, Finishing
  <2>4. CASE i = 1 + n
    <3>1. q[i] = a[1] /\ a[1] \in Finishing
      BY <2>4, <1>7
    <3> QED BY <3>1 DEF Working, Applying, Finishing
  <2>5. CASE l = 2 /\ i = 2 + n
    <3>1. q[i] = "remove" /\ a[l] = "remove"
      BY <2>5, <1>7
    <3> QED BY <3>1 DEF Working, Applying, Finishing
  <2> QED BY <1>8, <2>1, <2>2, <2>3, <2>4, <2>5
<1>10. Linked(q)
  <2> SUFFICES ASSUME NEW i \in 1..(Len(q) - 1) PROVE May(q[i], q[i + 1])
    BY DEF Linked
  <2>1. i \in 1..Len(q) /\ i # Len(q)
    BY <1>4
  <2>2. CASE k = 1 /\ i = 1
    BY <2>2, <1>4, <1>6 DEF May, Finishing
  <2>3. CASE i = 1 + k \/ i = 2 + k \/ i = 3 + k
    BY <2>3, <1>4 DEF May, Finishing
  <2>4. CASE i = 4 + k /\ t.desiredLoaded
    BY <2>4, <1>4 DEF May, Finishing
  <2>5. CASE i = 4 + k /\ ~t.desiredLoaded
    BY <2>5, <1>4, <1>5, <1>7 DEF May, Finishing
  <2>6. CASE t.desiredLoaded /\ i = 5 + k
    BY <2>6, <1>4 DEF May, Finishing
  <2>7. CASE t.desiredLoaded /\ i = 6 + k
    BY <2>7, <1>4, <1>5, <1>7 DEF May, Finishing
  <2>8. CASE i = 1 + n
    BY <2>1, <2>8, <1>4, <1>6, <1>7 DEF May, Finishing
  <2>9. ~(l = 2 /\ i = 2 + n)
    BY <2>1, <1>4, <1>6
  <2> QED BY <1>8, <2>1, <2>2, <2>3, <2>4, <2>5, <2>6, <2>7, <2>8, <2>9
<1>11. Good(q) /\ q # <<>>
  BY <1>4, <1>6, <1>9, <1>10, EmptySeq DEF Good, Fronted
<1>12. (k = 0 => Head(q) = "stop") /\ (k = 1 => Head(q) = "save")
  BY <1>4, <1>6, <1>11, TailAt
<1>13. q[Len(q)] = a[l] /\ Has(q, a[1]) /\ Has(q, a[l])
  <2>1. 1 + n \in 1..Len(q) /\ l + n \in 1..Len(q) /\ l + n = Len(q) /\ l \in 1..l /\ q[l + n] = a[l]
    BY <1>4, <1>6
  <2> QED BY <1>7, <2>1 DEF Has
<1>14. ASSUME NEW i \in 1..(Len(q) - 1), q[i] = "written", q[i + 1] \in Finishing, t.desiredLoaded
       PROVE  FALSE
  <2>1. i \in 1..Len(q)
    BY <1>4
  <2>2. i = 4 + k
    BY <1>9, <1>14, <2>1
  <2>3. q[i + 1] = "start"
    BY <1>4, <1>14, <2>2
  <2> QED BY <1>14, <2>3 DEF Finishing
<1> QED BY <1>2, <1>3, <1>9, <1>11, <1>12, <1>13, <1>14

----------------------------------------------------------------------------
(* What becomes of the call in a step                                      *)

\* Only the list of p differs from that of o.
Kept(p, o) ==
  /\ Same(p, o) /\ p.restart = o.restart /\ p.txn = o.txn /\ p.expected = o.expected
  /\ p.failed = o.failed
Within(o) == Legal(o) /\ o.todo # <<>>

\* The first step is done.
LEMMA DoneMoves ==
  ASSUME Within(call), Done
  PROVE  Legal(call') /\ Kept(call', call) /\ call'.todo = Tail(call.todo)
<1>1. call.todo \in Seq(CallSteps) /\ Tail(call.todo) \in Seq(CallSteps)
  BY TailAt DEF Within, Legal, Good
<1>2. <<>> \o Tail(call.todo) = Tail(call.todo)
  BY <1>1, ConcatEmptySeq
<1>3. call' = [call EXCEPT !.todo = Tail(call.todo)]
  BY <1>2 DEF Done, Then, Rest
<1>4. Kept(call', call) /\ call'.todo = Tail(call.todo)
  BY <1>3 DEF Kept, Same, Within, Legal
<1> QED BY <1>4, LegalTail DEF Kept, Within

\* The list a takes the place of the first step.
LEMMA ThenMoves ==
  ASSUME Within(call), NEW a, Replaces(a, call), Then(a)
  PROVE  /\ Within(call') /\ Kept(call', call) /\ call'.todo = a \o Tail(call.todo)
         /\ Head(call'.todo) = Head(a) /\ Idle(Tail(call.todo))
         /\ \A m : Has(call'.todo, m) <=> Has(a, m) \/ Has(Tail(call.todo), m)
<1>1. Kept(call', call) /\ call'.todo = a \o Tail(call.todo)
  BY DEF Then, Rest, Kept, Same, Within, Legal
<1> QED BY <1>1, LegalJoin DEF Kept, Within

\* The call fails, and goes on with a.
LEMMA FailsMoves ==
  ASSUME Legal(call), NEW a, Compensates(a), Fails(a)
  PROVE  /\ Legal(call') /\ Same(call', call) /\ call'.failed /\ call'.todo = a
         /\ call'.restart = call.restart /\ call'.txn = call.txn /\ call'.expected = call.expected
<1>1. /\ Same(call', call) /\ call'.failed = TRUE /\ call'.todo = a
      /\ call'.restart = call.restart /\ call'.txn = call.txn /\ call'.expected = call.expected
  BY DEF Fails, Same, Legal
<1> QED BY <1>1, LegalFailure

\* How a section may end that stands for a step.
Concludes(step, mode, a) ==
  /\ Ending(a)
  /\ \/ step = "recover" /\ Len(a) = 1 /\ a[1] \in {"owned", "own", "undone"}
     \/ step = "recover" /\ Len(a) = 1 /\ a[1] = "restored" /\ mode = "disconnect"
     \/ step = "recover" /\ Len(a) = 2 /\ mode = "disconnected"
     \/ step = "install" /\ Len(a) = 1 /\ a[1] = "applied"
     \/ step = "uninstall" /\ Len(a) = 1 /\ a[1] = "restored"
     \/ step = "reinstall" /\ Len(a) = 1 /\ a[1] = "own"

\* A transaction is applied in place of the first step.
LEMMA SectionReplaces ==
  ASSUME Within(call), NEW t, NEW b, NEW a, Opening(b), Concludes(Head(call.todo), call.mode, a),
         NEW q, q = Section(b, t, a)
  PROVE  Replaces(q, call)
<1> DEFINE h == Head(call.todo)
<1>1. /\ Ending(a) /\ h \in {"recover", "install", "uninstall", "reinstall"}
      /\ h \in CallSteps
  BY TailAt DEF Concludes, Within, Legal, Good
<1>2. /\ Good(q) /\ q # <<>> /\ \A i \in 1..Len(q) : q[i] \in Working
      /\ q[Len(q)] = a[Len(a)]
      /\ \A i \in 1..Len(q) : q[i] \in Finishing \cup {"remove"} => q[i] \in {a[1], a[Len(a)]}
  BY <1>1, SectionGood
<1>3. ~Has(q, "install") /\ ~Has(q, "uninstall")
  BY <1>2 DEF Has, Working, Applying, Finishing
<1>4. PICK z : z = a[Len(a)]
  OBVIOUS
<1>5. /\ \/ h = "recover" /\ z \in {"owned", "own", "undone"}
         \/ h = "recover" /\ z = "restored" /\ call.mode = "disconnect"
         \/ h = "recover" /\ z = "remove" /\ call.mode = "disconnected"
         \/ h = "install" /\ z = "applied"
         \/ h = "uninstall" /\ z = "restored"
         \/ h = "reinstall" /\ z = "own"
  <2>1. CASE Len(a) = 1
    <3>1. z = a[1] /\ ~(Len(a) = 2)
      BY <1>4, <2>1
    <3> QED BY <3>1 DEF Concludes
  <2>2. CASE Len(a) = 2
    <3>1. z = "remove" /\ ~(Len(a) = 1)
      BY <1>1, <1>4, <2>2 DEF Ending
    <3> QED BY <3>1 DEF Concludes
  <2> QED BY <1>1, <2>1, <2>2 DEF Ending
<1>6. ASSUME NEW c \in CallSteps, May(h, c), c = "install" => call.mode = "connect",
             c = "uninstall" => call.mode = "disconnect"
      PROVE  May(z, c)
  BY <1>5, <1>6 DEF May, Finishing
<1>7. ASSUME ~call.failed PROVE Stands(q, h, call.kind)
  <2>1. h \in StepsOf(call.kind) /\ call.kind \in {"connect", "disconnect", "status"}
    BY <1>7, TailAt DEF Within, Legal, Good, Staged
  <2> SUFFICES ASSUME NEW i \in 1..Len(q)
               PROVE  /\ q[i] \in StepsOf(call.kind) /\ q[i] \notin Milestones(call.kind)
                      /\ \A m \in Milestones(call.kind) : Precedes(q[i], m) => Precedes(h, m)
    BY DEF Stands
  <2>2. q[i] \in Working
    BY <1>2
  <2>3. h = "install" => q[i] \notin {"owned", "own", "undone"}
    BY <1>2 DEF Concludes, Finishing
  <2>4. CASE call.kind = "status"
    BY <2>2, <2>4 DEF StepsOf, Milestones, CallSteps
  <2>5. CASE call.kind = "connect"
    <3>1. h \in {"recover", "install"}
      BY <1>1, <2>1, <2>5 DEF StepsOf, Working, Applying, Finishing
    <3> QED BY <2>2, <2>3, <2>5, <3>1
            DEF StepsOf, Milestones, Precedes, BeforeInstall, Working, Applying, Finishing
  <2>6. CASE call.kind = "disconnect"
    <3>1. h \in {"recover", "uninstall"}
      BY <1>1, <2>1, <2>6 DEF StepsOf, Working, Applying, Finishing
    <3> QED BY <2>2, <2>6, <3>1
            DEF StepsOf, Milestones, Precedes, BeforeInstall, Working, Applying, Finishing
  <2> QED BY <2>1, <2>4, <2>5, <2>6
<1>8. h \notin Working
  BY <1>1 DEF Working, Applying, Finishing
<1> QED BY <1>2, <1>3, <1>4, <1>6, <1>7, <1>8 DEF Replaces

\* What becomes of a call that begins to apply a transaction.
LEMMA AppliesMoves ==
  ASSUME Within(call), NEW t, NEW x, NEW b, NEW a, Opening(b),
         Concludes(Head(call.todo), call.mode, a), Applies(t, x, b, a)
  PROVE  /\ Within(call') /\ Same(call', call) /\ call'.failed = call.failed /\ call'.restart = call.restart
         /\ call'.txn = t /\ call'.expected = x
         /\ call'.todo = Section(b, t, a) \o Tail(call.todo) /\ Idle(Tail(call.todo))
         /\ Len(b) = 0 => Head(call'.todo) = "stop"
         /\ Len(b) = 1 => Head(call'.todo) = "save"
         /\ \A m : Has(call'.todo, m) <=> Has(Section(b, t, a), m) \/ Has(Tail(call.todo), m)
<1>1. PICK q : q = Section(b, t, a)
  OBVIOUS
<1>2. Replaces(q, call)
  BY <1>1, SectionReplaces
<1>3. /\ Same(call', call) /\ call'.failed = call.failed /\ call'.restart = call.restart
      /\ call'.txn = t /\ call'.expected = x /\ call'.todo = q \o Tail(call.todo)
  BY <1>1 DEF Applies, Section, Rest, Same, Within, Legal
<1>4. (Len(b) = 0 => Head(q) = "stop") /\ (Len(b) = 1 => Head(q) = "save")
  BY <1>1, SectionGood DEF Concludes
<1>5. /\ Legal(call') /\ call'.todo # <<>> /\ Head(call'.todo) = Head(q)
      /\ Idle(Tail(call.todo))
      /\ \A m : Has(call'.todo, m) <=> Has(q, m) \/ Has(Tail(call.todo), m)
  BY <1>2, <1>3, LegalJoin DEF Within
<1> QED BY <1>1, <1>3, <1>4, <1>5 DEF Within

\* The sections there are.
LEMMA Sections ==
  /\ Opening(<<>>) /\ Opening(<<"save">>) /\ Len(<<>>) = 0 /\ Len(<<"save">>) = 1
  /\ \A mode : \A f \in {"owned", "own", "undone"} : Concludes("recover", mode, <<f>>)
  /\ Concludes("recover", "disconnect", <<"restored">>)
  /\ Concludes("recover", "disconnected", <<"restored", "remove">>)
  /\ \A mode : /\ Concludes("install", mode, <<"applied">>)
               /\ Concludes("uninstall", mode, <<"restored">>)
               /\ Concludes("reinstall", mode, <<"own">>)
<1>1. Opening(<<>>) /\ Opening(<<"save">>) /\ Len(<<>>) = 0 /\ Len(<<"save">>) = 1
  BY DEF Opening, CallSteps, Working, Applying
<1>2. ASSUME NEW f \in Finishing
      PROVE  Ending(<<f>>) /\ Len(<<f>>) = 1 /\ <<f>>[1] = f
  BY DEF Ending, CallSteps, Working, Applying, Finishing
<1>3. Ending(<<"restored", "remove">>) /\ Len(<<"restored", "remove">>) = 2
  BY DEF Ending, CallSteps, Working, Applying, Finishing
<1>4. {"owned", "own", "undone", "restored", "applied"} = Finishing
  BY DEF Finishing
<1>5. \A mode : \A f \in {"owned", "own", "undone"} : Concludes("recover", mode, <<f>>)
  BY <1>2, <1>4 DEF Concludes
<1>6. Concludes("recover", "disconnect", <<"restored">>)
  BY <1>2, <1>4 DEF Concludes
<1>7. Concludes("recover", "disconnected", <<"restored", "remove">>)
  BY <1>3 DEF Concludes
<1>8. \A mode : /\ Concludes("install", mode, <<"applied">>)
                /\ Concludes("uninstall", mode, <<"restored">>)
                /\ Concludes("reinstall", mode, <<"own">>)
  BY <1>2, <1>4 DEF Concludes
<1> QED BY <1>1, <1>5, <1>6, <1>7, <1>8

\* What a step of the settings' transaction unfolds into.
Unfolds(step, a) ==
  \/ /\ step \in {"recover_migration", "commit_settings", "rollback_settings"}
     /\ a = <<"finalize", "unjournal">>
  \/ /\ step \in {"recover_migration", "rollback_settings"}
     /\ a = <<"drop_replacement", "unjournal">>
  \/ step = "install_settings" /\ a = <<"generate", "adopt">>
  \/ step = "install_settings" /\ a = <<"journal", "generate", "adopt">>
  \/ step = "rollback_settings" /\ a = <<"restore_settings", "drop_replacement", "unjournal">>

\* The elements of what a settings step unfolds into.
LEMMA UnfoldAt ==
  ASSUME NEW step, NEW a, Unfolds(step, a)
  PROVE  /\ Good(a) /\ a # <<>> /\ Idle(a)
         /\ Head(a) \in {"finalize", "drop_replacement", "generate", "journal", "restore_settings"}
         /\ a[Len(a)] = IF step = "install_settings" THEN "adopt" ELSE "unjournal"
         /\ \A i \in 1..Len(a) :
              \/ step = "install_settings" /\ a[i] \in {"journal", "generate", "adopt"}
              \/ step # "install_settings" /\ a[i] \in {"finalize", "drop_replacement", "unjournal"}
              \/ step = "rollback_settings" /\ a[i] = "restore_settings"
<1>1. CASE /\ step \in {"recover_migration", "commit_settings", "rollback_settings"}
           /\ a = <<"finalize", "unjournal">>
  <2>1. "finalize" \in CallSteps /\ "unjournal" \in CallSteps /\ May("finalize", "unjournal")
        /\ "unjournal" \notin Working
    BY DEF CallSteps, May, Working, Applying, Finishing
  <2>2. Good(a) /\ a # <<>> /\ Head(a) = "finalize" /\ Len(a) = 2 /\ a[1] = "finalize" /\ a[2] = "unjournal"
    BY <1>1, <2>1, TwoSteps
  <2> QED BY <1>1, <2>2 DEF Idle, Working, Applying, Finishing
<1>2. CASE /\ step \in {"recover_migration", "rollback_settings"}
           /\ a = <<"drop_replacement", "unjournal">>
  <2>1. "drop_replacement" \in CallSteps /\ "unjournal" \in CallSteps /\ May("drop_replacement", "unjournal")
        /\ "unjournal" \notin Working
    BY DEF CallSteps, May, Working, Applying, Finishing
  <2>2. /\ Good(a) /\ a # <<>> /\ Head(a) = "drop_replacement" /\ Len(a) = 2
        /\ a[1] = "drop_replacement" /\ a[2] = "unjournal"
    BY <1>2, <2>1, TwoSteps
  <2> QED BY <1>2, <2>2 DEF Idle, Working, Applying, Finishing
<1>3. CASE step = "install_settings" /\ a = <<"generate", "adopt">>
  <2>1. "generate" \in CallSteps /\ "adopt" \in CallSteps /\ May("generate", "adopt")
        /\ "adopt" \notin Working
    BY DEF CallSteps, May, Working, Applying, Finishing
  <2>2. Good(a) /\ a # <<>> /\ Head(a) = "generate" /\ Len(a) = 2 /\ a[1] = "generate" /\ a[2] = "adopt"
    BY <1>3, <2>1, TwoSteps
  <2> QED BY <1>3, <2>2 DEF Idle, Working, Applying, Finishing
<1>4. CASE step = "install_settings" /\ a = <<"journal", "generate", "adopt">>
  <2>1. /\ "journal" \in CallSteps /\ "generate" \in CallSteps /\ "adopt" \in CallSteps
        /\ May("journal", "generate") /\ May("generate", "adopt")
        /\ "journal" \notin Working /\ "generate" \notin Working /\ "adopt" \notin Working
    BY DEF CallSteps, May, Working, Applying, Finishing
  <2>2. /\ Good(a) /\ a # <<>> /\ Head(a) = "journal" /\ Len(a) = 3
        /\ a[1] = "journal" /\ a[2] = "generate" /\ a[3] = "adopt"
    BY <1>4, <2>1, ThreeSteps
  <2> QED BY <1>4, <2>2 DEF Idle, Working, Applying, Finishing
<1>5. CASE step = "rollback_settings" /\ a = <<"restore_settings", "drop_replacement", "unjournal">>
  <2>1. /\ "restore_settings" \in CallSteps /\ "drop_replacement" \in CallSteps /\ "unjournal" \in CallSteps
        /\ May("restore_settings", "drop_replacement") /\ May("drop_replacement", "unjournal")
        /\ "restore_settings" \notin Working /\ "drop_replacement" \notin Working
        /\ "unjournal" \notin Working
    BY DEF CallSteps, May, Working, Applying, Finishing
  <2>2. /\ Good(a) /\ a # <<>> /\ Head(a) = "restore_settings" /\ Len(a) = 3
        /\ a[1] = "restore_settings" /\ a[2] = "drop_replacement" /\ a[3] = "unjournal"
    BY <1>5, <2>1, ThreeSteps
  <2> QED BY <1>5, <2>2 DEF Idle, Working, Applying, Finishing
<1> QED BY <1>1, <1>2, <1>3, <1>4, <1>5 DEF Unfolds

\* They may stand for the step that unfolds.
LEMMA UnfoldReplaces ==
  ASSUME Within(call), NEW a, Unfolds(Head(call.todo), a)
  PROVE  Replaces(a, call)
<1> DEFINE h == Head(call.todo)
<1>1. /\ Good(a) /\ a # <<>> /\ Idle(a)
      /\ a[Len(a)] = IF h = "install_settings" THEN "adopt" ELSE "unjournal"
      /\ \A i \in 1..Len(a) :
           \/ h = "install_settings" /\ a[i] \in {"journal", "generate", "adopt"}
           \/ h # "install_settings" /\ a[i] \in {"finalize", "drop_replacement", "unjournal"}
           \/ h = "rollback_settings" /\ a[i] = "restore_settings"
  BY UnfoldAt
<1>2. h \in {"recover_migration", "commit_settings", "rollback_settings", "install_settings"}
  BY DEF Unfolds
<1>3. h \notin Working /\ ~Has(a, "install") /\ ~Has(a, "uninstall")
  BY <1>1, <1>2 DEF Working, Applying, Finishing, Has
<1>4. ASSUME NEW b \in CallSteps, May(h, b) PROVE May(a[Len(a)], b)
  BY <1>1, <1>2, <1>4 DEF May, Finishing
<1>5. ASSUME ~call.failed PROVE Stands(a, h, call.kind)
  <2>1. h \in StepsOf(call.kind) /\ call.kind \in {"connect", "disconnect", "status"}
    BY <1>5, TailAt DEF Within, Legal, Good, Staged
  <2> SUFFICES ASSUME NEW i \in 1..Len(a)
               PROVE  /\ a[i] \in StepsOf(call.kind) /\ a[i] \notin Milestones(call.kind)
                      /\ \A m \in Milestones(call.kind) : Precedes(a[i], m) => Precedes(h, m)
    BY DEF Stands
  <2>2. CASE call.kind = "status"
    <3>1. a[i] \in CallSteps
      BY <1>1 DEF Good
    <3> QED BY <2>2, <3>1 DEF StepsOf, Milestones
  <2>3. CASE call.kind = "connect"
    BY <1>1, <1>2, <2>1, <2>3 DEF StepsOf, Milestones, Precedes, BeforeInstall, Working, Applying, Finishing
  <2>4. CASE call.kind = "disconnect"
    BY <1>1, <1>2, <2>1, <2>4 DEF StepsOf, Milestones, Precedes, BeforeInstall, Working, Applying, Finishing
  <2> QED BY <2>1, <2>2, <2>3, <2>4
<1> QED BY <1>1, <1>3, <1>4, <1>5 DEF Replaces

\* The compensations.
LEMMA Compensations ==
  /\ Compensates(<<>>) /\ Compensates(<<"recover", "rollback_settings">>)
  /\ Compensates(<<"drop_replacement", "unjournal">>)
  /\ \A s \in {"recover", "rollback_settings", "drop_replacement", "reinstall", "commit_uninstall"} :
       Compensates(<<s>>)
<1>1. Compensates(<<>>)
  BY DEF Compensates, Good, Linked, Fronted, Has, Idle
<1>2. Compensates(<<"recover", "rollback_settings">>)
  <2>1. "recover" \in CallSteps /\ "rollback_settings" \in CallSteps /\ May("recover", "rollback_settings")
        /\ "rollback_settings" \notin Working /\ "recover" \notin Working
    BY DEF CallSteps, May, Working, Applying, Finishing
  <2>2. PICK a : a = <<"recover", "rollback_settings">>
    OBVIOUS
  <2>3. /\ Good(a) /\ Len(a) = 2 /\ a[1] = "recover" /\ a[2] = "rollback_settings"
    BY <2>1, <2>2, TwoSteps
  <2>4. Compensates(a)
    BY <2>3 DEF Compensates, Has, Idle, Working, Applying, Finishing
  <2> QED BY <2>2, <2>4
<1>3. Compensates(<<"drop_replacement", "unjournal">>)
  <2>1. "drop_replacement" \in CallSteps /\ "unjournal" \in CallSteps /\ May("drop_replacement", "unjournal")
        /\ "unjournal" \notin Working /\ "drop_replacement" \notin Working
    BY DEF CallSteps, May, Working, Applying, Finishing
  <2>2. PICK a : a = <<"drop_replacement", "unjournal">>
    OBVIOUS
  <2>3. /\ Good(a) /\ Len(a) = 2 /\ a[1] = "drop_replacement" /\ a[2] = "unjournal"
    BY <2>1, <2>2, TwoSteps
  <2>4. Compensates(a)
    BY <2>3 DEF Compensates, Has, Idle, Working, Applying, Finishing
  <2> QED BY <2>2, <2>4
<1>4. ASSUME NEW s \in {"recover", "rollback_settings", "drop_replacement", "reinstall", "commit_uninstall"}
      PROVE  Compensates(<<s>>)
  <2>1. s \in CallSteps /\ s \notin Working /\ s # "install" /\ s # "uninstall"
    BY DEF CallSteps, Working, Applying, Finishing
  <2>2. PICK a : a = <<s>>
    OBVIOUS
  <2>3. Good(a) /\ Len(a) = 1 /\ a[1] = s
    BY <2>1, <2>2, OneStep
  <2>4. Compensates(a)
    BY <2>1, <2>3 DEF Compensates, Has, Idle
  <2> QED BY <2>2, <2>4
<1> QED BY <1>1, <1>2, <1>3, <1>4

\* The steps of a connect and of a disconnect.
LEMMA ConnectSteps ==
  ASSUME NEW q,
         q = <<"recover_migration", "install_settings", "probe", "recover", "install", "ready",
               "config", "commit_install", "commit_settings">>
  PROVE  Good(q) /\ Idle(q) /\ Staged(q, "connect") /\ ~Has(q, "uninstall")
<1>1. /\ Len(q) = 9 /\ q[1] = "recover_migration" /\ q[2] = "install_settings" /\ q[3] = "probe"
      /\ q[4] = "recover" /\ q[5] = "install" /\ q[6] = "ready" /\ q[7] = "config"
      /\ q[8] = "commit_install" /\ q[9] = "commit_settings"
  OBVIOUS
<1>2. q \in Seq(CallSteps)
  BY DEF CallSteps
<1>3. \A i \in 1..Len(q) :
        \/ i = 1 \/ i = 2 \/ i = 3 \/ i = 4 \/ i = 5 \/ i = 6 \/ i = 7 \/ i = 8 \/ i = 9
  BY <1>1
<1>4. Linked(q)
  <2> SUFFICES ASSUME NEW i \in 1..(Len(q) - 1) PROVE May(q[i], q[i + 1])
    BY DEF Linked
  <2>1. i = 1 \/ i = 2 \/ i = 3 \/ i = 4 \/ i = 5 \/ i = 6 \/ i = 7 \/ i = 8
    BY <1>1
  <2> QED BY <1>1, <2>1 DEF May, Finishing
<1>5. Idle(q)
  BY <1>1, <1>3 DEF Idle, Working, Applying, Finishing
<1>6. Good(q) /\ ~Has(q, "uninstall")
  BY <1>1, <1>2, <1>3, <1>4, <1>5 DEF Good, Fronted, Idle, Has
<1>7. \A i \in 1..Len(q) : q[i] \in StepsOf("connect")
  BY <1>1, <1>3 DEF StepsOf
<1>8. Heads(q, "install")
  <2>1. Has(q, "install")
    BY <1>1 DEF Has
  <2>2. ASSUME NEW j \in 1..Len(q), 5 < j PROVE q[j] # "install" /\ ~Precedes(q[j], "install")
    BY <1>1, <1>3, <2>2 DEF Precedes, BeforeInstall
  <2>3. ASSUME NEW i \in 1..Len(q), q[i] = "install" PROVE i = 5
    BY <1>1, <1>3, <2>3
  <2> QED BY <2>1, <2>2, <2>3 DEF Heads
<1>9. Heads(q, "config")
  <2>1. Has(q, "config")
    BY <1>1 DEF Has
  <2>2. ASSUME NEW j \in 1..Len(q), 7 < j PROVE q[j] # "config" /\ ~Precedes(q[j], "config")
    BY <1>1, <1>3, <2>2 DEF Precedes, BeforeInstall, Working, Applying, Finishing
  <2>3. ASSUME NEW i \in 1..Len(q), q[i] = "config" PROVE i = 7
    BY <1>1, <1>3, <2>3
  <2> QED BY <2>1, <2>2, <2>3 DEF Heads
<1>10. Heads(q, "commit_install")
  <2>1. Has(q, "commit_install")
    BY <1>1 DEF Has
  <2>2. ASSUME NEW j \in 1..Len(q), 8 < j
        PROVE  q[j] # "commit_install" /\ ~Precedes(q[j], "commit_install")
    BY <1>1, <1>3, <2>2 DEF Precedes, BeforeInstall, Working, Applying, Finishing
  <2>3. ASSUME NEW i \in 1..Len(q), q[i] = "commit_install" PROVE i = 8
    BY <1>1, <1>3, <2>3
  <2> QED BY <2>1, <2>2, <2>3 DEF Heads
<1>11. Heads(q, "commit_settings")
  <2>1. Has(q, "commit_settings")
    BY <1>1 DEF Has
  <2>2. ASSUME NEW i \in 1..Len(q), q[i] = "commit_settings" PROVE i = 9
    BY <1>1, <1>3, <2>2
  <2>3. ASSUME NEW i \in 1..Len(q), NEW j \in 1..Len(q), i < j, q[i] = "commit_settings"
        PROVE  FALSE
    <3>1. i = 9 /\ j \in 1..9
      BY <1>1, <2>2, <2>3
    <3> QED BY <2>3, <3>1
  <2> QED BY <2>1, <2>3 DEF Heads
<1> QED BY <1>5, <1>6, <1>7, <1>8, <1>9, <1>10, <1>11 DEF Staged, Milestones

\* The list of a disconnect.
LEMMA ReleaseSteps ==
  ASSUME NEW q, q = Releasing
  PROVE  Good(q) /\ Idle(q) /\ Staged(q, "disconnect") /\ ~Has(q, "install")
<1>1. /\ Len(q) = 5 /\ q[1] = "recover" /\ q[2] = "uninstall" /\ q[3] = "release"
      /\ q[4] = "commit_uninstall" /\ q[5] = "rollback_settings"
  BY DEF Releasing
<1>2. q \in Seq(CallSteps)
  BY DEF CallSteps, Releasing
<1>3. \A i \in 1..Len(q) : i = 1 \/ i = 2 \/ i = 3 \/ i = 4 \/ i = 5
  BY <1>1
<1>4. Linked(q)
  <2> SUFFICES ASSUME NEW i \in 1..(Len(q) - 1) PROVE May(q[i], q[i + 1])
    BY DEF Linked
  <2>1. i = 1 \/ i = 2 \/ i = 3 \/ i = 4
    BY <1>1
  <2> QED BY <1>1, <2>1 DEF May, Finishing
<1>5. Idle(q)
  BY <1>1, <1>3 DEF Idle, Working, Applying, Finishing
<1>6. Good(q) /\ ~Has(q, "install")
  BY <1>1, <1>2, <1>3, <1>4, <1>5 DEF Good, Fronted, Idle, Has
<1>7. \A i \in 1..Len(q) : q[i] \in StepsOf("disconnect")
  BY <1>1, <1>3 DEF StepsOf
<1>8. Heads(q, "release")
  <2>1. Has(q, "release")
    BY <1>1 DEF Has
  <2>2. ASSUME NEW j \in 1..Len(q), 3 < j PROVE q[j] # "release" /\ ~Precedes(q[j], "release")
    BY <1>1, <1>3, <2>2 DEF Precedes, Working, Applying, Finishing
  <2>3. ASSUME NEW i \in 1..Len(q), q[i] = "release" PROVE i = 3
    BY <1>1, <1>3, <2>3
  <2> QED BY <2>1, <2>2, <2>3 DEF Heads
<1>9. Heads(q, "commit_uninstall")
  <2>1. Has(q, "commit_uninstall")
    BY <1>1 DEF Has
  <2>2. ASSUME NEW j \in 1..Len(q), 4 < j
        PROVE  q[j] # "commit_uninstall" /\ ~Precedes(q[j], "commit_uninstall")
    BY <1>1, <1>3, <2>2 DEF Precedes, Working, Applying, Finishing
  <2>3. ASSUME NEW i \in 1..Len(q), q[i] = "commit_uninstall" PROVE i = 4
    BY <1>1, <1>3, <2>3
  <2> QED BY <2>1, <2>2, <2>3 DEF Heads
<1>10. Heads(q, "rollback_settings")
  <2>1. Has(q, "rollback_settings")
    BY <1>1 DEF Has
  <2>2. ASSUME NEW i \in 1..Len(q), q[i] = "rollback_settings" PROVE i = 5
    BY <1>1, <1>3, <2>2
  <2>3. ASSUME NEW i \in 1..Len(q), NEW j \in 1..Len(q), i < j, q[i] = "rollback_settings"
        PROVE  FALSE
    <3>1. i = 5 /\ j \in 1..5
      BY <1>1, <2>2, <2>3
    <3> QED BY <2>3, <3>1
  <2> QED BY <2>1, <2>3 DEF Heads
<1> QED BY <1>5, <1>6, <1>7, <1>8, <1>9, <1>10 DEF Staged, Milestones

\* The lists of a status.
LEMMA StatusSteps ==
  ASSUME NEW q, \/ q = <<"recover", "rollback_settings">> \/ q = <<"observe">>
                \/ q = <<"recover", "commit_settings", "observe">>
  PROVE  /\ Good(q) /\ Idle(q) /\ Staged(q, "status") /\ ~Has(q, "install") /\ ~Has(q, "uninstall")
<1>1. Good(q) /\ \A i \in 1..Len(q) : q[i] \in {"recover", "rollback_settings", "commit_settings", "observe"}
  <2>1. CASE q = <<"recover", "rollback_settings">>
    <3>1. "recover" \in CallSteps /\ "rollback_settings" \in CallSteps /\ May("recover", "rollback_settings")
          /\ "rollback_settings" \notin Working
      BY DEF CallSteps, May, Working, Applying, Finishing
    <3>2. Good(q) /\ Len(q) = 2 /\ q[1] = "recover" /\ q[2] = "rollback_settings"
      BY <2>1, <3>1, TwoSteps
    <3> QED BY <3>2
  <2>2. CASE q = <<"observe">>
    <3>1. "observe" \in CallSteps
      BY DEF CallSteps
    <3>2. Good(q) /\ Len(q) = 1 /\ q[1] = "observe"
      BY <2>2, <3>1, OneStep
    <3> QED BY <3>2
  <2>3. CASE q = <<"recover", "commit_settings", "observe">>
    <3>1. /\ "recover" \in CallSteps /\ "commit_settings" \in CallSteps /\ "observe" \in CallSteps
          /\ May("recover", "commit_settings") /\ May("commit_settings", "observe")
          /\ "recover" \notin Working /\ "commit_settings" \notin Working /\ "observe" \notin Working
      BY DEF CallSteps, May, Working, Applying, Finishing
    <3>2. /\ Good(q) /\ Len(q) = 3 /\ q[1] = "recover" /\ q[2] = "commit_settings"
          /\ q[3] = "observe"
      BY <2>3, <3>1, ThreeSteps
    <3> QED BY <3>2
  <2> QED BY <2>1, <2>2, <2>3
<1>2. Idle(q) /\ ~Has(q, "install") /\ ~Has(q, "uninstall")
  BY <1>1 DEF Idle, Has, Working, Applying, Finishing
<1> QED BY <1>1, <1>2 DEF Staged, StepsOf, Milestones, Good

\* A call begins.
LEMMA CalledMoves ==
  ASSUME NEW kind \in {"connect", "disconnect", "status"}, NEW e \in Executables, NEW q, NEW mode,
         Called(kind, e, q, mode), Good(q), Staged(q, kind),
         Has(q, "install") => mode = "connect", Has(q, "uninstall") => mode = "disconnect"
  PROVE  /\ Legal(call') /\ call'.kind = kind /\ call'.executable = e /\ call'.todo = q /\ call'.mode = mode
         /\ call'.failed = FALSE
<1>1. /\ DOMAIN call' = {"kind", "executable", "todo", "mode", "restart", "txn", "expected", "failed"}
      /\ call'.kind = kind /\ call'.executable = e /\ call'.todo = q /\ call'.mode = mode
      /\ call'.failed = FALSE
  BY DEF Called
<1> QED BY <1>1 DEF Legal

\* The list of an observation.
LEMMA ObserveMoves ==
  ASSUME Within(call), ObserveStatus
  PROVE  /\ Legal(call') /\ call'.kind = call.kind /\ call'.failed = call.failed
         /\ call'.txn = call.txn /\ call'.executable = call.executable
         /\ call'.todo # <<>> /\ Head(call'.todo) = "recover" /\ Idle(call'.todo)
         /\ call.failed \/ call.kind = "status"
<1>1. PICK r : r = CASE ConfigStatus(call.executable) = "connected"    -> <<"commit_settings">>
                     [] ConfigStatus(call.executable) = "disconnected" -> <<"rollback_settings">>
                     [] OTHER -> <<>>
  OBVIOUS
<1>2. r = <<"commit_settings">> \/ r = <<"rollback_settings">> \/ r = <<>>
  BY <1>1
<1>3. Good(r) /\ \A i \in 1..Len(r) : r[i] \in {"commit_settings", "rollback_settings"}
  <2>1. "commit_settings" \in CallSteps /\ "rollback_settings" \in CallSteps
    BY DEF CallSteps
  <2>2. CASE r = <<"commit_settings">>
    BY <2>1, <2>2, OneStep
  <2>3. CASE r = <<"rollback_settings">>
    BY <2>1, <2>3, OneStep
  <2>4. CASE r = <<>>
    BY <2>4, Compensations DEF Compensates
  <2> QED BY <1>2, <2>2, <2>3, <2>4
<1>4. PICK a : a = <<"recover">>
  OBVIOUS
<1>5. /\ Good(a) /\ a # <<>> /\ Len(a) = 1 /\ a[1] = "recover" /\ Head(a) = "recover"
      /\ Idle(r) /\ Idle(a)
  <2>1. "recover" \in CallSteps
    BY DEF CallSteps
  <2>2. Good(a) /\ a # <<>> /\ Len(a) = 1 /\ a[1] = "recover" /\ Head(a) = "recover"
    BY <1>4, <2>1, OneStep
  <2> QED BY <2>2, <1>3 DEF Idle, Working, Applying, Finishing
<1>6. r # <<>> => May(a[Len(a)], Head(r))
  <2> SUFFICES ASSUME r # <<>> PROVE May(a[Len(a)], Head(r))
    OBVIOUS
  <2>1. Head(r) \in {"commit_settings", "rollback_settings"}
    BY <1>3, TailAt DEF Good
  <2> QED BY <1>5, <2>1 DEF May, Finishing
<1>7. PICK q : q = a \o r
  OBVIOUS
<1>8. /\ Good(q) /\ q # <<>> /\ Head(q) = "recover"
      /\ \A m : Has(q, m) <=> Has(a, m) \/ Has(r, m)
  BY <1>3, <1>5, <1>6, <1>7, JoinGood
<1>9. ~Has(q, "install") /\ ~Has(q, "uninstall")
  <2>1. /\ ~Has(a, "install") /\ ~Has(a, "uninstall")
        /\ ~Has(r, "install") /\ ~Has(r, "uninstall")
    BY <1>3, <1>5 DEF Has
  <2> QED BY <1>8, <2>1
<1>10. Idle(q)
  <2>1. \A m : Has(q, m) => m \notin Working
    <3>1. \A m : Has(a, m) => m \notin Working
      BY <1>5 DEF Idle, Has
    <3>2. \A m : Has(r, m) => m \notin Working
      BY <1>5 DEF Idle, Has
    <3> QED BY <1>8, <3>1, <3>2
  <2> QED BY <2>1 DEF Has, Idle
<1>11. /\ call' = [call EXCEPT !.mode = ConfigStatus(call.executable), !.todo = q]
       /\ Due("observe")
  BY <1>1, <1>4, <1>7 DEF ObserveStatus
<1>12. /\ DOMAIN call' = DOMAIN call /\ call'.kind = call.kind /\ call'.failed = call.failed
       /\ call'.txn = call.txn /\ call'.executable = call.executable /\ call'.todo = q
  BY <1>11 DEF Within, Legal
<1>13. ASSUME ~call.failed PROVE call.kind = "status" /\ Staged(q, call.kind)
  <2>1. "observe" \in StepsOf(call.kind) /\ call.kind \in {"connect", "disconnect", "status"}
    BY <1>11, <1>13, TailAt DEF Within, Legal, Good, Staged, Due
  <2>2. call.kind = "status"
    BY <2>1 DEF StepsOf, Working, Applying, Finishing
  <2> QED BY <1>8, <2>2 DEF Staged, StepsOf, Milestones, Good
<1> QED BY <1>8, <1>9, <1>10, <1>12, <1>13 DEF Legal, Within

----------------------------------------------------------------------------
(* The first layer                                                         *)

\* Every action of the integration leaves a legal call.
LEMMA ControlStep ==
  ASSUME ControlInv, IntegrationNext
  PROVE  ControlInv'
<1>0. \A step : Due(step) => call # NoCall /\ Within(call) /\ Head(call.todo) = step
  BY DEF ControlInv, Due, Within
<1>1. ASSUME NEW e \in Executables, Connect(e) PROVE Legal(call')
  <2>1. PICK q : q = <<"recover_migration", "install_settings", "probe", "recover", "install",
                       "ready", "config", "commit_install", "commit_settings">>
    OBVIOUS
  <2>2. Called("connect", e, q, "connect")
    BY <1>1, <2>1 DEF Connect
  <2> QED BY <2>1, <2>2, ConnectSteps, CalledMoves
<1>2. ASSUME NEW e \in Executables, Disconnect(e) PROVE Legal(call')
  <2>1. CASE journal # NoJournal /\ Ownership = "disconnected"
    <3>1. PICK q : q = <<"recover", "rollback_settings">>
      OBVIOUS
    <3>2. Called("status", e, q, "disconnected")
      BY <1>2, <2>1, <3>1 DEF Disconnect
    <3> QED BY <3>1, <3>2, StatusSteps, CalledMoves
  <2>2. CASE ~(journal # NoJournal /\ Ownership = "disconnected")
    <3>1. PICK q : q = Releasing
      OBVIOUS
    <3>2. Called("disconnect", e, q, "disconnect")
      BY <1>2, <2>2, <3>1 DEF Disconnect
    <3> QED BY <3>1, <3>2, ReleaseSteps, CalledMoves
  <2> QED BY <2>1, <2>2
<1>3. ASSUME NEW e \in Executables, Status(e) PROVE Legal(call')
  <2>1. PICK q, mode : /\ Called("status", e, q, mode)
                       /\ \/ q = <<"recover", "rollback_settings">> \/ q = <<"observe">>
                          \/ q = <<"recover", "commit_settings", "observe">>
    <3>1. CASE journal = NoJournal
      BY <1>3, <3>1 DEF Status
    <3>2. CASE journal # NoJournal /\ Ownership = "connected"
      BY <1>3, <3>2 DEF Status
    <3>3. CASE journal # NoJournal /\ Ownership # "connected"
      BY <1>3, <3>3 DEF Status
    <3> QED BY <3>1, <3>2, <3>3
  <2> QED BY <2>1, StatusSteps, CalledMoves
<1>4. ASSUME EndCall \/ Crash PROVE call' = NoCall
  BY <1>4 DEF EndCall, Crash
<1>5. ASSUME SettingsStep PROVE Legal(call')
  <2>1. \/ Within(call) /\ Done
        \/ Within(call) /\ Fails(<<>>)
        \/ Within(call) /\ \E a : Unfolds(Head(call.todo), a) /\ Then(a)
        \/ Probe
    BY <1>5, <1>0 DEF SettingsStep, RecoverMigration, InstallSettings, Begin, Generate, Adopt,
         CommitSettings, RollbackSettings, RestoreSettings, DropReplacement, Finalize,
         RemoveJournal, Unfolds
  <2>2. CASE Probe
    <3>1. Within(call) /\ call'.todo = Tail(call.todo) /\ Same(call', call) /\ call'.failed = call.failed
      BY <1>0, <2>2 DEF Probe, Rest, Same, Within, Legal
    <3> QED BY <3>1, LegalTail DEF Within
  <2> QED BY <2>1, <2>2, DoneMoves, FailsMoves, Compensations, UnfoldReplaces, ThenMoves DEF Within
<1>6. ASSUME ServiceStep PROVE Legal(call')
  <2>1. \/ Within(call) /\ Done
        \/ Within(call) /\ Fails(<<>>)
        \/ Recover \/ Install \/ Uninstall \/ Reinstall
        \/ \E step : Save(step)
    BY <1>6, <1>0 DEF ServiceStep, Stop, Replace, Start, RemoveTxn, CommitInstall, CommitUninstall
  <2>2. ASSUME NEW step, Save(step) PROVE Legal(call')
    <3>1. Within(call) /\ call'.todo = Tail(call.todo) /\ Same(call', call) /\ call'.failed = call.failed
      BY <1>0, <2>2 DEF Save, Rest, Same, Within, Legal
    <3> QED BY <3>1, LegalTail DEF Within
  <2>3. CASE Recover \/ Install \/ Uninstall \/ Reinstall
    <3>1. /\ Within(call)
          /\ \/ Done \/ Fails(<<>>)
             \/ \E t, x, b, a : /\ Opening(b) /\ Concludes(Head(call.todo), call.mode, a)
                                /\ Applies(t, x, b, a)
      <4>1. CASE Recover
        <5>1. Within(call) /\ Head(call.todo) = "recover"
          BY <4>1, <1>0 DEF Recover
        <5> QED BY <5>1, <4>1, Sections DEF Recover
      <4>2. CASE Install
        <5>1. Within(call) /\ Head(call.todo) = "install"
          BY <4>2, <1>0 DEF Install
        <5> QED BY <5>1, <4>2, Sections DEF Install
      <4>3. CASE Uninstall
        <5>1. Within(call) /\ Head(call.todo) = "uninstall"
          BY <4>3, <1>0 DEF Uninstall
        <5> QED BY <5>1, <4>3, Sections DEF Uninstall
      <4>4. CASE Reinstall
        <5>1. Within(call) /\ Head(call.todo) = "reinstall"
          BY <4>4, <1>0 DEF Reinstall
        <5> QED BY <5>1, <4>4, Sections DEF Reinstall
      <4> QED BY <2>3, <4>1, <4>2, <4>3, <4>4
    <3> QED BY <3>1, DoneMoves, FailsMoves, Compensations, AppliesMoves DEF Within
  <2> QED BY <2>1, <2>2, <2>3, DoneMoves, FailsMoves, Compensations DEF Within
<1>7. ASSUME ObserveStatus PROVE Legal(call')
  BY <1>7, <1>0, ObserveMoves DEF ObserveStatus
<1>8. ASSUME Ready \/ ConnectConfig \/ ReleaseConfig PROVE Legal(call')
  <2>1. \/ Within(call) /\ Done
        \/ Within(call) /\ \E a : Compensates(a) /\ Fails(a)
    BY <1>8, <1>0, Compensations DEF Ready, ConnectConfig, ReleaseConfig
  <2> QED BY <2>1, DoneMoves, FailsMoves DEF Within
<1>9. ASSUME StepFails PROVE Legal(call')
  <2>1. Legal(call) /\ \E a : Compensates(a) /\ Fails(a)
    BY <1>9, Compensations DEF StepFails, ControlInv
  <2> QED BY <2>1, FailsMoves
<1>10. ASSUME Unload \/ EditConfig PROVE call' = call
  BY <1>10 DEF Unload, EditConfig
<1> QED BY <1>1, <1>2, <1>3, <1>4, <1>5, <1>6, <1>7, <1>8, <1>9, <1>10 DEF IntegrationNext, ControlInv, Legal

\* The steps of a call are legal at all times: one may follow the other, a
\* transaction of the LaunchAgent is applied before anything else is done, and
\* a call that has not failed has all of its milestones behind or before it.
LEMMA ControlHolds == IntegrationSpec => []ControlInv
<1>1. IntegrationInit => ControlInv
  BY DEF IntegrationInit, ControlInv
<1>2. ControlInv /\ [IntegrationNext]_integrationVars => ControlInv'
  <2>1. ControlInv /\ UNCHANGED integrationVars => ControlInv'
    BY DEF integrationVars, ControlInv, Legal
  <2> QED BY <2>1, ControlStep
<1> QED BY <1>1, <1>2, PTL DEF IntegrationSpec

----------------------------------------------------------------------------
(* The second layer: the settings                                          *)

\* The steps that rely on the settings being as they left them.
Careful ==
  {"journal", "generate", "adopt", "drop_replacement", "probe", "finalize", "restore_settings"}
Free(o) == o.todo = <<>> \/ Head(o.todo) \notin Careful

\* What comes after a step that is done.
LEMMA DoneHead ==
  ASSUME Within(call), Done
  PROVE  call'.todo = <<>> \/ (Head(call'.todo) \in CallSteps /\ May(Head(call.todo), Head(call'.todo)))
<1>1. call'.todo = Tail(call.todo) /\ Good(call'.todo) /\ Good(call.todo)
  BY DoneMoves DEF Within, Legal
<1> QED BY <1>1, TailGood, TailAt DEF Within, Good

\* Outside the settings' transaction the settings stay, and so does what the
\* next step relies on.
LEMMA SettingsAside ==
  ASSUME ControlInv, StoreInv, IntegrationNext, ~SettingsStep
  PROVE  /\ UNCHANGED settingsFiles
         /\ call' = call \/ call' = NoCall \/ Free(call') \/ (Head(call'.todo) = "drop_replacement" /\ ~IsV3)
<1>0. \A step : Due(step) => call # NoCall /\ Within(call) /\ Head(call.todo) = step
  BY DEF ControlInv, Due, Within
<1>1. ASSUME NEW e \in Executables, Connect(e) \/ Disconnect(e) \/ Status(e)
      PROVE  UNCHANGED settingsFiles /\ Free(call')
  BY <1>1 DEF Connect, Disconnect, Status, Called, Releasing, Free, Careful
<1>2. ASSUME EndCall \/ Crash PROVE UNCHANGED settingsFiles /\ call' = NoCall
  BY <1>2 DEF EndCall, Crash
<1>3. ASSUME ServiceStep PROVE UNCHANGED settingsFiles /\ Free(call')
  <2>0. UNCHANGED settingsFiles
    BY <1>3 DEF ServiceStep, Recover, Install, Uninstall, Reinstall, Stop, Replace, Start, Save,
         RemoveTxn, CommitInstall, CommitUninstall
  <2>1. /\ Within(call) /\ Head(call.todo) \in CallSteps
        /\ Head(call.todo) \notin {"journal", "generate", "adopt", "install_settings", "restore_settings"}
    <3>1. \E step : /\ Due(step)
                    /\ step \notin {"journal", "generate", "adopt", "install_settings", "restore_settings"}
      BY <1>3 DEF ServiceStep, Recover, Install, Uninstall, Reinstall, Stop, Replace, Start, Save,
           RemoveTxn, CommitInstall, CommitUninstall
    <3> QED BY <3>1, <1>0, TailAt DEF Within, Legal, Good
  <2>2. \/ Done
        \/ Fails(<<>>)
        \/ \E t, x, b, a : /\ Opening(b) /\ Concludes(Head(call.todo), call.mode, a)
                           /\ Applies(t, x, b, a)
        \/ call'.todo = Tail(call.todo)
    <3>1. CASE Recover
      <4>1. Within(call) /\ Head(call.todo) = "recover"
        BY <3>1, <1>0 DEF Recover
      <4> QED BY <4>1, <3>1, Sections DEF Recover
    <3>2. CASE Install
      <4>1. Within(call) /\ Head(call.todo) = "install"
        BY <3>2, <1>0 DEF Install
      <4> QED BY <4>1, <3>2, Sections DEF Install
    <3>3. CASE Uninstall
      <4>1. Within(call) /\ Head(call.todo) = "uninstall"
        BY <3>3, <1>0 DEF Uninstall
      <4> QED BY <4>1, <3>3, Sections DEF Uninstall
    <3>4. CASE Reinstall
      <4>1. Within(call) /\ Head(call.todo) = "reinstall"
        BY <3>4, <1>0 DEF Reinstall
      <4> QED BY <4>1, <3>4, Sections DEF Reinstall
    <3>5. ASSUME NEW step, Save(step) PROVE call'.todo = Tail(call.todo)
      BY <3>5, <2>1 DEF Save, Rest, Within, Legal
    <3> QED BY <1>3, <3>1, <3>2, <3>3, <3>4, <3>5
            DEF ServiceStep, Stop, Replace, Start, RemoveTxn, CommitInstall, CommitUninstall
  <2>3. CASE Done \/ call'.todo = Tail(call.todo)
    <3>1. call'.todo = Tail(call.todo) /\ Good(call.todo)
      BY <2>1, <2>3, DoneMoves DEF Within, Legal
    <3>2. Tail(call.todo) # <<>> => May(Head(call.todo), Head(Tail(call.todo)))
      BY <2>1, <3>1, TailGood DEF Within
    <3> QED BY <2>0, <2>1, <3>1, <3>2 DEF May, Free, Careful
  <2>4. CASE Fails(<<>>)
    BY <2>0, <2>1, <2>4, FailsMoves, Compensations DEF Free, Within
  <2>5. ASSUME NEW t, NEW x, NEW b, NEW a, Opening(b), Concludes(Head(call.todo), call.mode, a),
               Applies(t, x, b, a)
        PROVE  Free(call')
    <3>1. Head(call'.todo) \in {"stop", "save"}
      BY <2>1, <2>5, AppliesMoves DEF Opening
    <3> QED BY <3>1 DEF Free, Careful
  <2> QED BY <2>0, <2>2, <2>3, <2>4, <2>5
<1>4. ASSUME ObserveStatus PROVE UNCHANGED settingsFiles /\ Free(call')
  <2>1. Within(call)
    BY <1>0, <1>4 DEF ObserveStatus
  <2>2. Head(call'.todo) = "recover"
    BY <1>4, <2>1, ObserveMoves
  <2> QED BY <1>4, <2>2 DEF ObserveStatus, Free, Careful
<1>5. ASSUME Ready \/ ConnectConfig \/ ReleaseConfig PROVE UNCHANGED settingsFiles /\ Free(call')
  <2>1. Within(call) /\ Head(call.todo) \in {"ready", "config", "release"}
    BY <1>0, <1>5 DEF Ready, ConnectConfig, ReleaseConfig
  <2>2. \/ Done
        \/ \E a : /\ Fails(a)
                  /\ a \in {<<>>, <<"recover", "rollback_settings">>, <<"commit_uninstall">>, <<"reinstall">>}
    BY <1>5 DEF Ready, ConnectConfig, ReleaseConfig
  <2>3. CASE Done
    <3>1. call'.todo = <<>> \/ May(Head(call.todo), Head(call'.todo))
      BY <2>1, <2>3, DoneHead
    <3> QED BY <1>5, <2>1, <3>1 DEF May, Free, Careful, Ready, ConnectConfig, ReleaseConfig
  <2>4. ASSUME NEW a, Fails(a),
               a \in {<<>>, <<"recover", "rollback_settings">>, <<"commit_uninstall">>, <<"reinstall">>}
        PROVE  Free(call')
    <3>1. call'.todo = a
      BY <2>1, <2>4 DEF Fails, Within, Legal
    <3> QED BY <2>4, <3>1 DEF Free, Careful
  <2> QED BY <1>5, <2>2, <2>3, <2>4 DEF Ready, ConnectConfig, ReleaseConfig
<1>6. ASSUME StepFails
      PROVE  UNCHANGED settingsFiles /\ (Free(call') \/ (Head(call'.todo) = "drop_replacement" /\ ~IsV3))
  <2>1. Within(call)
    BY <1>6 DEF StepFails, ControlInv, Within
  <2>2. \/ Fails(<<>>) \/ Fails(<<"rollback_settings">>) \/ Fails(<<"recover", "rollback_settings">>)
        \/ Fails(<<"recover">>)
        \/ /\ Fails(<<"drop_replacement">>) \/ Fails(<<"drop_replacement", "unjournal">>)
           /\ Due("generate") \/ Due("adopt")
    BY <1>6 DEF StepFails, Due
  <2>3. \A a : Fails(a) => call'.todo = a
    BY <2>1 DEF Fails, Within, Legal
  <2> QED BY <1>6, <2>2, <2>3 DEF StepFails, Free, Careful, StoreInv, StoreReady
<1>7. ASSUME Unload \/ EditConfig PROVE UNCHANGED settingsFiles /\ call' = call
  BY <1>7 DEF Unload, EditConfig
<1> QED BY <1>1, <1>2, <1>3, <1>4, <1>5, <1>6, <1>7 DEF IntegrationNext

\* A step of the settings' transaction leaves what the next one relies on.
LEMMA SettingsStepStore ==
  ASSUME ControlInv, StoreInv, SettingsStep
  PROVE  StoreInv'
<1>0. \A step : Due(step) => call # NoCall /\ Within(call) /\ Head(call.todo) = step
  BY DEF ControlInv, Due, Within
<1>t. /\ settings \in Settings \cup {NoSettings} /\ journal \in Journals \cup {NoJournal}
      /\ journal # NoJournal => journal.previous.generation = Legacy
      /\ generations \in Nat
      /\ settings # NoSettings => settings.generation \in credentials
      /\ journal # NoJournal /\ journal.phase = "pending" => journal.previous.generation \in credentials
      /\ NoSettings \notin Settings /\ NoJournal \notin Journals /\ Legacy \notin Nat
  BY IntegrationConstants DEF StoreInv, SettingsUsable
<1>d. ASSUME Within(call), Done
      PROVE  /\ \A step \in {"journal", "finalize", "restore_settings"} : ~Due(step)'
             /\ Due("generate")' => Head(call.todo) = "journal"
             /\ Due("adopt")' => Head(call.todo) = "generate"
             /\ Due("drop_replacement")' => Head(call.todo) = "restore_settings"
             /\ Due("probe")' => Head(call.todo) \in {"install_settings", "adopt"}
  BY <1>d, DoneHead DEF Due, May
<1>f. ASSUME Within(call), Fails(<<>>) PROVE \A step : ~Due(step)'
  BY <1>f, FailsMoves, Compensations DEF Due, Within
<1>u. ASSUME Within(call), NEW a, Unfolds(Head(call.todo), a), Then(a)
      PROVE  \A step : Due(step)' => step = Head(a)
  BY <1>u, UnfoldReplaces, ThenMoves DEF Due
<1>h. /\ Head(<<"finalize", "unjournal">>) = "finalize"
      /\ Head(<<"drop_replacement", "unjournal">>) = "drop_replacement"
      /\ Head(<<"generate", "adopt">>) = "generate"
      /\ Head(<<"journal", "generate", "adopt">>) = "journal"
      /\ Head(<<"restore_settings", "drop_replacement", "unjournal">>) = "restore_settings"
  OBVIOUS
<1>1. CASE RecoverMigration
  <2>1. Within(call) /\ Head(call.todo) = "recover_migration" /\ UNCHANGED settingsFiles
    BY <1>1, <1>0 DEF RecoverMigration
  <2>2. StoreReady'
    <3>1. CASE Done
      BY <2>1, <3>1, <1>d DEF StoreReady
    <3>2. CASE Fails(<<>>)
      BY <2>1, <3>2, <1>f DEF StoreReady
    <3>3. CASE journal # NoJournal /\ journal.phase = "committed" /\ Then(<<"finalize", "unjournal">>)
      <4>1. Unfolds(Head(call.todo), <<"finalize", "unjournal">>)
        BY <2>1 DEF Unfolds
      <4>2. \A step : Due(step)' => step = "finalize"
        BY <2>1, <3>3, <4>1, <1>u, <1>h
      <4> QED BY <2>1, <3>3, <4>2 DEF StoreReady, settingsFiles
    <3>4. CASE journal # NoJournal /\ settings = journal.previous /\ Then(<<"drop_replacement", "unjournal">>)
      <4>1. Unfolds(Head(call.todo), <<"drop_replacement", "unjournal">>)
        BY <2>1 DEF Unfolds
      <4>2. \A step : Due(step)' => step = "drop_replacement"
        BY <2>1, <3>4, <4>1, <1>u, <1>h
      <4> QED BY <2>1, <3>4, <4>2, <1>t DEF StoreReady, settingsFiles, IsV3
    <3> QED BY <1>1, <3>1, <3>2, <3>3, <3>4 DEF RecoverMigration
  <2> QED BY <2>1, <2>2, <1>t DEF StoreInv, SettingsUsable, settingsFiles
<1>2. CASE InstallSettings
  <2>1. Within(call) /\ Head(call.todo) = "install_settings" /\ UNCHANGED settingsFiles
    BY <1>2, <1>0 DEF InstallSettings
  <2>2. StoreReady'
    <3>1. CASE IsV3 /\ Done
      BY <2>1, <3>1, <1>d DEF StoreReady, settingsFiles, IsV3
    <3>2. CASE ~IsV3 /\ settings = NoSettings /\ Then(<<"generate", "adopt">>)
      <4>1. Unfolds(Head(call.todo), <<"generate", "adopt">>)
        BY <2>1 DEF Unfolds
      <4>2. \A step : Due(step)' => step = "generate"
        BY <2>1, <3>2, <4>1, <1>u, <1>h
      <4> QED BY <2>1, <3>2, <4>2 DEF StoreReady, settingsFiles, IsV3
    <3>3. CASE ~IsV3 /\ settings # NoSettings /\ Then(<<"journal", "generate", "adopt">>)
      <4>1. Unfolds(Head(call.todo), <<"journal", "generate", "adopt">>)
        BY <2>1 DEF Unfolds
      <4>2. \A step : Due(step)' => step = "journal"
        BY <2>1, <3>3, <4>1, <1>u, <1>h
      <4> QED BY <2>1, <3>3, <4>2 DEF StoreReady, settingsFiles, IsV3
    <3> QED BY <1>2, <3>1, <3>2, <3>3 DEF InstallSettings
  <2> QED BY <2>1, <2>2, <1>t DEF StoreInv, SettingsUsable, settingsFiles
<1>3. CASE Begin
  <2>1. Within(call) /\ Head(call.todo) = "journal" /\ Done /\ settings # NoSettings /\ ~IsV3
    BY <1>3, <1>0 DEF Begin, StoreInv, StoreReady
  <2>2. StoreReady'
    BY <1>3, <2>1, <1>d DEF StoreReady, Begin, IsV3
  <2>3. /\ journal' \in Journals /\ journal'.previous = settings /\ journal'.phase = "pending"
        /\ settings.generation = Legacy
    BY <1>3, <2>1, <1>t DEF Begin, Journals, IsV3
  <2> QED BY <1>3, <2>2, <2>3, <2>1, <1>t DEF Begin, StoreInv, SettingsUsable
<1>4. CASE Generate
  <2>1. Within(call) /\ Head(call.todo) = "generate" /\ Done /\ ~IsV3
    BY <1>4, <1>0 DEF Generate, StoreInv, StoreReady
  <2>2. StoreReady'
    BY <1>4, <2>1, <1>d DEF StoreReady, Generate, IsV3
  <2> QED BY <1>4, <2>2, <1>t DEF Generate, StoreInv, SettingsUsable
<1>5. CASE Adopt
  <2>1. Within(call) /\ Head(call.todo) = "adopt" /\ Done /\ ~IsV3 /\ generations \in credentials
    BY <1>5, <1>0 DEF Adopt, StoreInv, StoreReady
  <2>2. settings' \in Settings /\ settings'.generation = generations
    BY <1>5, <1>t DEF Adopt, Settings
  <2>3. StoreReady'
    BY <2>1, <2>2, <1>t, <1>d DEF StoreReady
  <2> QED BY <1>5, <2>1, <2>2, <2>3, <1>t DEF Adopt, StoreInv, SettingsUsable
<1>6. CASE Probe
  <2>1. Within(call) /\ Head(call.todo) = "probe" /\ settings # NoSettings /\ call'.todo = Tail(call.todo)
    BY <1>6, <1>0 DEF Probe, StoreInv, StoreReady, Rest, Within, Legal
  <2>2. settings' \in Settings /\ settings'.generation = settings.generation
    BY <1>6, <2>1, <1>t DEF Probe, Settings
  <2>3. call'.todo # <<>> => May("probe", Head(call'.todo))
    BY <2>1, TailGood DEF Within, Legal
  <2>4. StoreReady'
    BY <2>3 DEF StoreReady, Due, May
  <2> QED BY <1>6, <2>1, <2>2, <2>4, <1>t DEF Probe, StoreInv, SettingsUsable
<1>7. CASE CommitSettings
  <2>1. Within(call) /\ Head(call.todo) = "commit_settings"
    BY <1>7, <1>0 DEF CommitSettings
  <2>2. CASE UNCHANGED journal /\ (Done \/ Fails(<<>>))
    <3>1. StoreReady'
      BY <2>1, <2>2, <1>d, <1>f DEF StoreReady
    <3> QED BY <1>7, <2>2, <3>1, <1>t DEF CommitSettings, StoreInv, SettingsUsable
  <2>3. CASE /\ journal # NoJournal /\ journal' = [journal EXCEPT !.phase = "committed"]
             /\ Then(<<"finalize", "unjournal">>)
    <3>1. Unfolds(Head(call.todo), <<"finalize", "unjournal">>)
      BY <2>1 DEF Unfolds
    <3>2. \A step : Due(step)' => step = "finalize"
      BY <2>1, <2>3, <3>1, <1>u, <1>h
    <3>3. journal' \in Journals /\ journal'.phase = "committed" /\ journal'.previous = journal.previous
      BY <2>3, <1>t DEF Journals
    <3>4. StoreReady'
      BY <3>2, <3>3, <1>t DEF StoreReady
    <3> QED BY <1>7, <2>3, <3>3, <3>4, <1>t DEF CommitSettings, StoreInv, SettingsUsable
  <2> QED BY <1>7, <2>2, <2>3 DEF CommitSettings
<1>8. CASE RollbackSettings
  <2>1. Within(call) /\ Head(call.todo) = "rollback_settings" /\ UNCHANGED settingsFiles
    BY <1>8, <1>0 DEF RollbackSettings
  <2>2. StoreReady'
    <3>1. CASE Done
      BY <2>1, <3>1, <1>d DEF StoreReady
    <3>2. CASE Fails(<<>>)
      BY <2>1, <3>2, <1>f DEF StoreReady
    <3>3. CASE journal # NoJournal /\ journal.phase = "committed" /\ Then(<<"finalize", "unjournal">>)
      <4>1. Unfolds(Head(call.todo), <<"finalize", "unjournal">>)
        BY <2>1 DEF Unfolds
      <4>2. \A step : Due(step)' => step = "finalize"
        BY <2>1, <3>3, <4>1, <1>u, <1>h
      <4> QED BY <2>1, <3>3, <4>2 DEF StoreReady, settingsFiles
    <3>4. CASE journal # NoJournal /\ settings = journal.previous /\ Then(<<"drop_replacement", "unjournal">>)
      <4>1. Unfolds(Head(call.todo), <<"drop_replacement", "unjournal">>)
        BY <2>1 DEF Unfolds
      <4>2. \A step : Due(step)' => step = "drop_replacement"
        BY <2>1, <3>4, <4>1, <1>u, <1>h
      <4> QED BY <2>1, <3>4, <4>2, <1>t DEF StoreReady, settingsFiles, IsV3
    <3>5. CASE /\ journal # NoJournal /\ journal.phase = "pending"
               /\ Then(<<"restore_settings", "drop_replacement", "unjournal">>)
      <4>1. Unfolds(Head(call.todo), <<"restore_settings", "drop_replacement", "unjournal">>)
        BY <2>1 DEF Unfolds
      <4>2. \A step : Due(step)' => step = "restore_settings"
        BY <2>1, <3>5, <4>1, <1>u, <1>h
      <4> QED BY <2>1, <3>5, <4>2 DEF StoreReady, settingsFiles
    <3> QED BY <1>8, <3>1, <3>2, <3>3, <3>4, <3>5 DEF RollbackSettings
  <2> QED BY <2>1, <2>2, <1>t DEF StoreInv, SettingsUsable, settingsFiles
<1>9. CASE RestoreSettings
  <2>1. Within(call) /\ Head(call.todo) = "restore_settings" /\ Done /\ journal # NoJournal
        /\ journal.phase = "pending"
    BY <1>9, <1>0 DEF RestoreSettings, StoreInv, StoreReady
  <2>2. settings' \in Settings /\ settings'.generation = Legacy /\ Legacy \in credentials
    BY <1>9, <2>1, <1>t DEF RestoreSettings, Journals
  <2>3. StoreReady'
    BY <2>1, <2>2, <1>d DEF StoreReady, IsV3
  <2> QED BY <1>9, <2>1, <2>2, <2>3, <1>t DEF RestoreSettings, StoreInv, SettingsUsable
<1>10. CASE DropReplacement
  <2>1. Within(call) /\ Head(call.todo) = "drop_replacement" /\ Done /\ ~IsV3
    BY <1>10, <1>0 DEF DropReplacement, StoreInv, StoreReady
  <2>2. StoreReady'
    BY <2>1, <1>d DEF StoreReady
  <2>3. PICK g \in Nat : credentials' = credentials \ {g}
    BY <1>10, <1>t DEF DropReplacement, Journals
  <2>4. settings # NoSettings => settings.generation = Legacy
    BY <2>1 DEF IsV3
  <2> QED BY <1>10, <2>2, <2>3, <2>4, <1>t DEF DropReplacement, StoreInv, SettingsUsable
<1>11. CASE Finalize
  <2>1. Within(call) /\ Head(call.todo) = "finalize" /\ journal # NoJournal /\ journal.phase = "committed"
    BY <1>11, <1>0 DEF Finalize, StoreInv, StoreReady
  <2>2. StoreReady'
    BY <1>11, <2>1, <1>d, <1>f DEF StoreReady, Finalize
  <2>3. credentials' = credentials \/ (IsV3 /\ credentials' = credentials \ {Legacy})
    BY <1>11, <2>1, <1>t DEF Finalize
  <2> QED BY <1>11, <2>1, <2>2, <2>3, <1>t DEF Finalize, StoreInv, SettingsUsable, IsV3
<1>12. CASE RemoveJournal
  <2>1. Within(call) /\ Head(call.todo) = "unjournal" /\ Done
    BY <1>12, <1>0 DEF RemoveJournal
  <2>2. StoreReady'
    BY <2>1, <1>d DEF StoreReady
  <2> QED BY <1>12, <2>2, <1>t DEF RemoveJournal, StoreInv, SettingsUsable
<1> QED BY <1>1, <1>2, <1>3, <1>4, <1>5, <1>6, <1>7, <1>8, <1>9, <1>10, <1>11, <1>12 DEF SettingsStep

\* Every action leaves the settings as the next step needs them.
LEMMA StoreStep ==
  ASSUME ControlInv, StoreInv, IntegrationNext
  PROVE  StoreInv'
<1>1. CASE SettingsStep
  BY <1>1, SettingsStepStore
<1>2. CASE ~SettingsStep
  <2>1. /\ UNCHANGED settingsFiles
        /\ call' = call \/ call' = NoCall \/ Free(call') \/ (Head(call'.todo) = "drop_replacement" /\ ~IsV3)
    BY <1>2, SettingsAside
  <2>2. StoreReady'
    <3>1. CASE call' = call
      BY <2>1, <3>1 DEF StoreInv, StoreReady, Due, settingsFiles, IsV3
    <3>2. CASE call' = NoCall \/ Free(call')
      BY <3>2 DEF StoreReady, Due, Free, Careful
    <3>3. CASE Head(call'.todo) = "drop_replacement" /\ ~IsV3
      BY <2>1, <3>3 DEF StoreReady, Due, settingsFiles, IsV3
    <3> QED BY <2>1, <3>1, <3>2, <3>3
  <2> QED BY <2>1, <2>2 DEF StoreInv, SettingsUsable, settingsFiles
<1> QED BY <1>1, <1>2

\* The second layer holds: each step of connect, disconnect and status finds
\* the settings, the journal and the credentials as it needs them.
THEOREM StoreHolds == IntegrationSpec => []StoreInv
<1>1. IntegrationInit => StoreInv
  <2> SUFFICES ASSUME IntegrationInit PROVE StoreInv
    OBVIOUS
  <2>1. /\ settings \in Settings \cup {NoSettings}
        /\ settings # NoSettings => settings.generation \in credentials
    BY DEF IntegrationInit, Settings
  <2>2. journal = NoJournal /\ generations = 0 /\ call = NoCall
    BY DEF IntegrationInit
  <2> QED BY <2>1, <2>2 DEF StoreInv, StoreReady, Due, SettingsUsable
<1>2. ControlInv /\ StoreInv /\ [IntegrationNext]_integrationVars => StoreInv'
  <2>1. StoreInv /\ UNCHANGED integrationVars => StoreInv'
    BY DEF integrationVars, settingsFiles, StoreInv, StoreReady, Due, IsV3, SettingsUsable
  <2> QED BY <2>1, StoreStep
<1> QED BY <1>1, <1>2, ControlHolds, PTL DEF IntegrationSpec

\* SettingsUsable, for every set of executables and ports and any number of
\* generations, whatever fails: collector settings on disk always have their
\* credentials, and until a migration is committed so have the ones before.
THEOREM SettingsStayUsable == IntegrationSpec => []SettingsUsable
<1>1. StoreInv => SettingsUsable
  BY DEF StoreInv
<1> QED BY <1>1, StoreHolds, PTL

----------------------------------------------------------------------------
(* The third layer: the LaunchAgent                                        *)

\* What makes a transaction sound is kept by a call that still has the same
\* to take back.
LEMMA SoundKept ==
  ASSUME NEW t, NEW s, NEW o, NEW p, Sound(t, s, o),
         Undoing(o) => Undoing(p), Owning(o) => Owning(p)
  PROVE  Sound(t, s, p)
BY DEF Sound

\* Steps that are not at work serve any transaction.
LEMMA IdleServes ==
  ASSUME NEW q \in Seq(CallSteps), NEW t, NEW s, Idle(q)
  PROVE  Serves(q, t, s)
<1>1. Len(q) \in Nat
  BY LenProperties
<1>2. \A i \in 1..Len(q) : Fits(q[i], t, s)
  BY <1>1 DEF Idle, Fits, Working, Applying, Finishing
<1>3. \A i \in 1..(Len(q) - 1) : q[i + 1] \notin Finishing
  BY <1>1 DEF Idle, Working, Applying
<1> QED BY <1>2, <1>3 DEF Serves

\* The first step fits, and what is left serves the same transaction.
LEMMA TailServes ==
  ASSUME NEW q, NEW t, NEW s, Good(q), q # <<>>, Serves(q, t, s)
  PROVE  /\ Serves(Tail(q), t, s) /\ Fits(Head(q), t, s)
         /\ Tail(q) # <<>> /\ Head(q) = "written" /\ Head(Tail(q)) \in Finishing =>
              ~t.desiredLoaded
<1>1. q \in Seq(CallSteps)
  BY DEF Good
<1>2. Fits(Head(q), t, s)
  BY <1>1, TailAt DEF Serves
<1>3. \A i \in 1..Len(Tail(q)) : Fits(Tail(q)[i], t, s)
  BY <1>1, TailAt DEF Serves
<1>4. ASSUME NEW i \in 1..(Len(Tail(q)) - 1), Tail(q)[i] = "written", Tail(q)[i + 1] \in Finishing
      PROVE  ~t.desiredLoaded
  <2>1. i + 1 \in 1..(Len(q) - 1) /\ q[i + 1] = Tail(q)[i] /\ q[i + 1 + 1] = Tail(q)[i + 1]
    BY <1>1, TailAt
  <2> QED BY <1>4, <2>1 DEF Serves
<1>5. Tail(q) # <<>> => Head(Tail(q)) = q[2] /\ Head(q) = q[1] /\ 1 \in 1..(Len(q) - 1)
  BY <1>1, TailAt
<1>6. Tail(q) # <<>> /\ Head(q) = "written" /\ Head(Tail(q)) \in Finishing => ~t.desiredLoaded
  BY <1>5 DEF Serves
<1> QED BY <1>2, <1>3, <1>4, <1>6 DEF Serves

\* The phase of a transaction is not what its steps serve.
LEMMA SameServes ==
  ASSUME NEW q, NEW t, NEW u, NEW s, Serves(q, t, s), u.desired = t.desired,
         u.desiredLoaded = t.desiredLoaded, u.operation = t.operation
  PROVE  Serves(q, u, s)
BY DEF Serves, Fits

\* A section serves its own transaction if its end does.
LEMMA SectionServes ==
  ASSUME NEW b, NEW t, NEW a, NEW s, Opening(b), Ending(a), NEW r \in Seq(CallSteps), Idle(r),
         Fits(a[1], t, s), Fits(a[Len(a)], t, s), NEW q, q = Section(b, t, a)
  PROVE  Serves(q \o r, t, s)
<1>1. /\ q \in Seq(CallSteps) /\ q # <<>>
      /\ \A i \in 1..Len(q) : q[i] \in Working
      /\ q[Len(q)] = a[Len(a)]
      /\ \A i \in 1..Len(q) : q[i] \in Finishing \cup {"remove"} => q[i] \in {a[1], a[Len(a)]}
      /\ \A i \in 1..Len(q) : q[i] \in {"start", "started"} => t.desiredLoaded
      /\ \A i \in 1..(Len(q) - 1) : q[i] = "written" /\ q[i + 1] \in Finishing => ~t.desiredLoaded
  BY SectionGood DEF Good
<1>2. PICK p : p = q \o r
  OBVIOUS
<1>3. /\ Len(q) \in Nat \ {0} /\ Len(r) \in Nat /\ Len(p) = Len(q) + Len(r)
      /\ \A i \in 1..Len(q) : p[i] = q[i]
      /\ \A i \in (Len(q) + 1)..(Len(q) + Len(r)) : p[i] = r[i - Len(q)]
  BY <1>1, <1>2, JoinAt, TailAt
<1>4. \A i \in 1..Len(q) : Fits(q[i], t, s)
  <2> SUFFICES ASSUME NEW i \in 1..Len(q) PROVE Fits(q[i], t, s)
    OBVIOUS
  <2>1. CASE q[i] \in Finishing \cup {"remove"}
    BY <1>1, <2>1
  <2>2. CASE q[i] \notin Finishing \cup {"remove"}
    BY <1>1, <2>2 DEF Fits, Finishing
  <2> QED BY <2>1, <2>2
<1>5. \A i \in (Len(q) + 1)..(Len(q) + Len(r)) : p[i] \notin Working
  <2> SUFFICES ASSUME NEW i \in (Len(q) + 1)..(Len(q) + Len(r)) PROVE p[i] \notin Working
    OBVIOUS
  <2>1. p[i] = r[i - Len(q)] /\ i - Len(q) \in 1..Len(r)
    BY <1>3
  <2> QED BY <2>1 DEF Idle
<1>6. \A i \in 1..Len(p) : Fits(p[i], t, s)
  <2> SUFFICES ASSUME NEW i \in 1..Len(p) PROVE Fits(p[i], t, s)
    OBVIOUS
  <2>1. CASE i <= Len(q)
    BY <1>3, <1>4, <2>1
  <2>2. CASE i > Len(q)
    <3>1. p[i] \notin Working
      BY <1>3, <1>5, <2>2
    <3> QED BY <3>1 DEF Fits, Working, Applying, Finishing
  <2> QED BY <2>1, <2>2, <1>3
<1>7. ASSUME NEW i \in 1..(Len(p) - 1), p[i] = "written", p[i + 1] \in Finishing
      PROVE  ~t.desiredLoaded
  <2>1. CASE i < Len(q)
    BY <1>1, <1>3, <1>7, <2>1
  <2>2. CASE i >= Len(q)
    <3>1. p[i + 1] \notin Working
      BY <1>3, <1>5, <2>2
    <3> QED BY <1>7, <3>1 DEF Working, Applying
  <2> QED BY <2>1, <2>2, <1>3
<1> QED BY <1>2, <1>6, <1>7 DEF Serves

\* A step at work is followed by the next of its section, and the last of a
\* section by none.
LEMMA WorkNext ==
  ASSUME NEW q, Good(q), q # <<>>
  PROVE  /\ Head(q) \in {"applied", "owned", "own", "undone", "remove"} => Idle(Tail(q))
         /\ Tail(q) # <<>> /\ Head(Tail(q)) \in Working =>
              \/ Head(q) = "save" /\ Head(Tail(q)) = "stop"
              \/ Head(q) = "stop" /\ Head(Tail(q)) = "stopped"
              \/ Head(q) = "stopped" /\ Head(Tail(q)) = "replace"
              \/ Head(q) = "replace" /\ Head(Tail(q)) = "written"
              \/ Head(q) = "written" /\ Head(Tail(q)) \in Finishing \cup {"start"}
              \/ Head(q) = "start" /\ Head(Tail(q)) = "started"
              \/ Head(q) = "started" /\ Head(Tail(q)) \in Finishing
              \/ Head(q) = "restored" /\ Head(Tail(q)) = "remove"
<1>1. Good(Tail(q)) /\ (Tail(q) # <<>> => May(Head(q), Head(Tail(q))))
  BY TailGood
<1>2. Tail(q) # <<>> /\ Head(Tail(q)) \in Working =>
        \/ Head(q) = "save" /\ Head(Tail(q)) = "stop"
        \/ Head(q) = "stop" /\ Head(Tail(q)) = "stopped"
        \/ Head(q) = "stopped" /\ Head(Tail(q)) = "replace"
        \/ Head(q) = "replace" /\ Head(Tail(q)) = "written"
        \/ Head(q) = "written" /\ Head(Tail(q)) \in Finishing \cup {"start"}
        \/ Head(q) = "start" /\ Head(Tail(q)) = "started"
        \/ Head(q) = "started" /\ Head(Tail(q)) \in Finishing
        \/ Head(q) = "restored" /\ Head(Tail(q)) = "remove"
  BY <1>1 DEF May, Working, Applying, Finishing
<1>3. ASSUME Head(q) \in {"applied", "owned", "own", "undone", "remove"} PROVE Idle(Tail(q))
  <2>1. CASE Tail(q) = <<>>
    BY <2>1, Compensations DEF Compensates
  <2>2. CASE Tail(q) # <<>>
    <3>1. Head(Tail(q)) \notin Working
      BY <1>2, <1>3, <2>2
    <3>2. Idle(Tail(Tail(q)))
      BY <1>1, <2>2, <3>1, TailGood
    <3>3. \A m : Has(Tail(q), m) => m \notin Working
      <4>1. \A m : Has(Tail(Tail(q)), m) => m \notin Working
        BY <3>2 DEF Has, Idle
      <4> QED BY <1>1, <2>2, <3>1, <4>1, TailGood
    <3> QED BY <3>3 DEF Has, Idle
  <2> QED BY <2>1, <2>2
<1> QED BY <1>2, <1>3

\* A call that is not at work has nothing to take back.
LEMMA IdleCalls ==
  ASSUME NEW o, Within(o), Head(o.todo) \notin Working
  PROVE  Idle(o.todo) /\ Idle(Tail(o.todo)) /\ ~Undoing(o) /\ ~Owning(o) /\ ~Busy(o)
<1>1. Good(o.todo) /\ o.todo # <<>> /\ Idle(Tail(o.todo))
  BY TailGood DEF Within, Legal
<1>2. \A m : Has(o.todo, m) => m \notin Working
  <2>1. \A m : Has(Tail(o.todo), m) => m \notin Working
    BY <1>1 DEF Has, Idle
  <2> QED BY <1>1, <2>1, TailGood
<1> QED BY <1>1, <1>2 DEF Has, Idle, Undoing, Owning, Busy, Working, Applying, Finishing

\* The parts of the invariant, one state later.
LEMMA ServiceAfter ==
  ASSUME plist' \in Plists, loaded' \in BOOLEAN, original' \in PriorServices,
         txn' \in Txns \cup {NoTxn},
         txn' # NoTxn => Sound(txn', original', call'),
         call' # NoCall => call' \in Calls /\ Serves(call'.todo, call'.txn, original'),
         Busy(call') => AtWork(call', txn', plist', loaded', original'),
         call' # NoCall /\ call'.todo # <<>> =>
           Given(Head(call'.todo), txn', plist', loaded', original'),
         txn' = NoTxn => plist' = original'.plist /\ loaded' = original'.loaded
  PROVE  ServiceInv'
BY DEF ServiceInv, PriorServiceReturns

\* A step that leaves plist and service alone, and no call at work.
LEMMA ServiceRests ==
  ASSUME ServiceInv, UNCHANGED <<plist, loaded, original>>, txn' \in Txns \cup {NoTxn},
         txn' # NoTxn => \A o : Sound(txn', original, o),
         txn' = NoTxn => plist = original.plist /\ loaded = original.loaded,
         \/ call' = NoCall
         \/ /\ call' \in Calls /\ Good(call'.todo) /\ Idle(call'.todo)
            /\ call'.todo # <<>> => Given(Head(call'.todo), txn', plist, loaded, original)
  PROVE  ServiceInv'
<1>1. plist' = plist /\ loaded' = loaded /\ original' = original
  OBVIOUS
<1>2. txn' # NoTxn => Sound(txn', original', call')
  BY <1>1
<1>3. call' # NoCall => call' \in Calls /\ Serves(call'.todo, call'.txn, original')
  BY IdleServes DEF Good
<1>4. ~Busy(call')
  BY TailAt DEF Busy, Good, Idle
<1>5. call' # NoCall /\ call'.todo # <<>> =>
        Given(Head(call'.todo), txn', plist', loaded', original')
  BY <1>1
<1> QED BY <1>1, <1>2, <1>3, <1>4, <1>5, ServiceAfter DEF ServiceInv

\* The same when the transaction stays too.
LEMMA ServiceAside ==
  ASSUME ServiceInv, UNCHANGED <<service, original>>, ~Undoing(call), ~Owning(call),
         \/ call' = NoCall
         \/ /\ call' \in Calls /\ Good(call'.todo) /\ Idle(call'.todo)
            /\ call'.todo # <<>> => Given(Head(call'.todo), txn, plist, loaded, original)
  PROVE  ServiceInv'
<1>1. plist' = plist /\ loaded' = loaded /\ txn' = txn /\ original' = original
  BY DEF service
<1>2. txn' # NoTxn => \A o : Sound(txn', original, o)
  BY <1>1, SoundKept DEF ServiceInv
<1> QED BY <1>1, <1>2, ServiceRests DEF ServiceInv, PriorServiceReturns

\* A call stays one.
LEMMA TypedMoves ==
  ASSUME Within(call), call \in Calls
  PROVE  /\ Done => call' \in Calls
         /\ \A a : Replaces(a, call) /\ Then(a) => call' \in Calls
         /\ \A a : Compensates(a) /\ Fails(a) => call' \in Calls
         /\ \A t \in Txns, x \in Plists : \A b, a :
              /\ Opening(b) /\ Concludes(Head(call.todo), call.mode, a) /\ Applies(t, x, b, a)
              => call' \in Calls
         /\ \A t \in Txns : call' = [call EXCEPT !.todo = Rest, !.txn = t] => call' \in Calls
         /\ \A r \in BOOLEAN : call' = [call EXCEPT !.todo = Rest, !.restart = r] => call' \in Calls
<1>1. Tail(call.todo) \in Seq(CallSteps)
  BY TailAt DEF Within, Legal, Good
<1>2. Done => call' \in Calls
  <2>1. <<>> \o Tail(call.todo) = Tail(call.todo)
    BY <1>1, ConcatEmptySeq
  <2> QED BY <1>1, <2>1 DEF Done, Then, Rest, Calls
<1>3. ASSUME NEW a, Replaces(a, call), Then(a) PROVE call' \in Calls
  <2>1. a \o Tail(call.todo) \in Seq(CallSteps)
    BY <1>1, <1>3, JoinAt DEF Replaces, Good
  <2> QED BY <1>3, <2>1 DEF Then, Rest, Calls
<1>4. ASSUME NEW a, Compensates(a), Fails(a) PROVE call' \in Calls
  <2>1. a \in Seq(CallSteps)
    BY <1>4 DEF Compensates, Good
  <2> QED BY <1>4, <2>1 DEF Fails, Calls
<1>5. ASSUME NEW t \in Txns, NEW x \in Plists, NEW b, NEW a, Opening(b),
             Concludes(Head(call.todo), call.mode, a), Applies(t, x, b, a)
      PROVE  call' \in Calls
  <2>1. PICK q : q = Section(b, t, a) \o Tail(call.todo)
    OBVIOUS
  <2>2. call'.todo = q /\ Within(call')
    BY <1>5, <2>1, AppliesMoves
  <2>3. q \in Seq(CallSteps)
    BY <2>2 DEF Within, Legal, Good
  <2>4. call' = [call EXCEPT !.txn = t, !.expected = x, !.todo = q]
    BY <1>5, <2>1 DEF Applies, Section, Rest
  <2> QED BY <2>3, <2>4 DEF Calls
<1>6. ASSUME NEW t \in Txns, call' = [call EXCEPT !.todo = Rest, !.txn = t] PROVE call' \in Calls
  BY <1>1, <1>6 DEF Rest, Calls
<1>7. ASSUME NEW r \in BOOLEAN, call' = [call EXCEPT !.todo = Rest, !.restart = r] PROVE call' \in Calls
  BY <1>1, <1>7 DEF Rest, Calls
<1> QED BY <1>2, <1>3, <1>4, <1>5, <1>6, <1>7

\* A transaction is put to work.
LEMMA ServiceApplies ==
  ASSUME ServiceInv, call # NoCall, Within(call), UNCHANGED <<service, original>>,
         NEW t \in Txns, NEW x \in Plists, NEW b, NEW a,
         Opening(b), Concludes(Head(call.todo), call.mode, a), Applies(t, x, b, a),
         t.phase # "owned", Fits(a[1], t, original), Fits(a[Len(a)], t, original),
         \A o : (a[1] = "undone" => Undoing(o)) /\ (a[1] = "own" => Owning(o)) => Sound(t, original, o),
         Len(b) = 0 => txn # NoTxn
  PROVE  ServiceInv'
<1>1. /\ plist' = plist /\ loaded' = loaded /\ txn' = txn /\ original' = original
  BY DEF service
<1>2. Head(call.todo) \notin Working /\ Ending(a)
  BY DEF Concludes, Working, Applying, Finishing
<1>3. ~Undoing(call) /\ ~Owning(call)
  BY <1>2, IdleCalls
<1>4. txn' # NoTxn => Sound(txn', original', call')
  BY <1>1, <1>3, SoundKept DEF ServiceInv
<1>5. PICK q : q = Section(b, t, a)
  OBVIOUS
<1>6. /\ Within(call') /\ call'.txn = t /\ call'.todo = q \o Tail(call.todo) /\ Idle(Tail(call.todo))
      /\ Len(b) = 0 => Head(call'.todo) = "stop"
      /\ Len(b) = 1 => Head(call'.todo) = "save"
      /\ \A m : Has(call'.todo, m) <=> Has(q, m) \/ Has(Tail(call.todo), m)
  BY <1>5, AppliesMoves
<1>7. Has(q, a[1])
  BY <1>2, <1>5, SectionGood
<1>8. call' \in Calls /\ call' # NoCall
  BY TypedMoves, IntegrationConstants DEF ServiceInv
<1>9. Sound(t, original, call')
  BY <1>6, <1>7, <1>8 DEF Undoing, Owning
<1>10. Serves(call'.todo, call'.txn, original')
  <2>1. Tail(call.todo) \in Seq(CallSteps)
    BY TailAt DEF Within, Legal, Good
  <2>2. Serves(q \o Tail(call.todo), t, original)
    BY <2>1, <1>2, <1>5, <1>6, SectionServes
  <2> QED BY <2>2, <1>1, <1>6
<1>11. Len(b) = 0 \/ Len(b) = 1
  BY DEF Opening
<1>12. AtWork(call', txn', plist', loaded', original')
  BY <1>1, <1>6, <1>9, <1>11 DEF AtWork, Progress, Finishing
<1>13. Given(Head(call'.todo), txn', plist', loaded', original')
  BY <1>6, <1>11 DEF Given
<1> QED BY <1>1, <1>4, <1>8, <1>10, <1>12, <1>13, ServiceAfter DEF ServiceInv, PriorServiceReturns

\* The first step, not one of a transaction at work, is done.
LEMMA ServiceDone ==
  ASSUME ServiceInv, call # NoCall, Within(call), Head(call.todo) \notin Working, Done,
         UNCHANGED <<plist, loaded, original>>, txn' \in Txns \cup {NoTxn},
         txn' # NoTxn => \A o : Sound(txn', original, o),
         txn' = NoTxn => plist = original.plist /\ loaded = original.loaded,
         \A step : /\ May(Head(call.todo), step)
                   /\ step = "install" => call.mode = "connect"
                   /\ step = "uninstall" => call.mode = "disconnect"
                   => Given(step, txn', plist, loaded, original)
  PROVE  ServiceInv'
<1>1. /\ call' \in Calls /\ call'.todo = Tail(call.todo) /\ Good(call.todo) /\ Good(call'.todo)
      /\ Idle(call'.todo)
  BY TypedMoves, DoneMoves, IdleCalls DEF ServiceInv, Within, Legal
<1>2. ASSUME call'.todo # <<>> PROVE Given(Head(call'.todo), txn', plist, loaded, original)
  <2>1. May(Head(call.todo), Head(call'.todo))
    BY <1>1, <1>2, TailGood DEF Within
  <2>2. Head(call'.todo) = call'.todo[1] /\ 1 \in 1..Len(call'.todo)
    BY <1>1, <1>2, TailAt DEF Good
  <2>3. Has(call.todo, Head(call'.todo))
    <3>1. Has(call'.todo, Head(call'.todo))
      BY <2>2 DEF Has
    <3> QED BY <1>1, <3>1, TailGood DEF Within
  <2> QED BY <2>1, <2>3 DEF Within, Legal
<1> QED BY <1>1, <1>2, ServiceRests

\* The call goes on otherwise with a list that is not one of a transaction.
LEMMA ServiceGoesOn ==
  ASSUME ServiceInv, call # NoCall, Within(call), ~Undoing(call), ~Owning(call),
         UNCHANGED <<service, original>>,
         NEW a, \/ Unfolds(Head(call.todo), a) /\ Then(a)
                \/ Compensates(a) /\ Fails(a) /\ (a # <<>> => Head(a) \notin {"release", "commit_uninstall"})
  PROVE  ServiceInv'
<1>1. CASE Unfolds(Head(call.todo), a) /\ Then(a)
  <2>1. Head(call.todo) \notin Working
    BY <1>1 DEF Unfolds, Working, Applying, Finishing
  <2>2. /\ Replaces(a, call) /\ Idle(a)
        /\ Head(a) \in {"finalize", "drop_replacement", "generate", "journal", "restore_settings"}
    BY <1>1, UnfoldReplaces, UnfoldAt
  <2>3. /\ Within(call') /\ Head(call'.todo) = Head(a) /\ call' \in Calls
        /\ Idle(Tail(call.todo))
        /\ \A m : Has(call'.todo, m) <=> Has(a, m) \/ Has(Tail(call.todo), m)
    BY <1>1, <2>2, ThenMoves, TypedMoves DEF ServiceInv
  <2>4. Idle(call'.todo)
    <3>1. Head(call'.todo) \notin Working
      BY <2>2, <2>3 DEF Working, Applying, Finishing
    <3> QED BY <2>3, <3>1, IdleCalls
  <2>5. Given(Head(call'.todo), txn, plist, loaded, original)
    BY <2>2, <2>3 DEF Given
  <2> QED BY <2>3, <2>4, <2>5, ServiceAside DEF Within, Legal
<1>2. CASE Compensates(a) /\ Fails(a) /\ (a # <<>> => Head(a) \notin {"release", "commit_uninstall"})
  <2>1. call' \in Calls /\ call'.todo = a /\ Good(a) /\ Idle(a)
    BY <1>2, TypedMoves, FailsMoves DEF ServiceInv, Within, Compensates
  <2>2. a # <<>> => Head(a) \notin {"install", "uninstall", "release"}
    <3> SUFFICES ASSUME a # <<>> PROVE Head(a) \notin {"install", "uninstall", "release"}
      OBVIOUS
    <3>1. Has(a, Head(a))
      <4>1. Head(a) = a[1] /\ 1 \in 1..Len(a)
        BY <2>1, TailAt DEF Good
      <4> QED BY <4>1 DEF Has
    <3> QED BY <1>2, <3>1 DEF Compensates
  <2>3. a # <<>> => Given(Head(a), txn, plist, loaded, original)
    BY <1>2, <2>2 DEF Given
  <2> QED BY <2>1, <2>3, ServiceAside
<1> QED BY <1>1, <1>2

\* A transaction is put to work that ends in one step.
LEMMA ServiceWorks ==
  ASSUME ServiceInv, call # NoCall, Within(call), UNCHANGED <<service, original>>,
         NEW t \in Txns, NEW x \in Plists, NEW b, b = <<"save">> \/ (b = <<>> /\ txn # NoTxn),
         NEW f, Concludes(Head(call.todo), call.mode, <<f>>), Applies(t, x, b, <<f>>),
         t.phase # "owned", Fits(f, t, original),
         \A o : (f = "undone" => Undoing(o)) /\ (f = "own" => Owning(o)) => Sound(t, original, o)
  PROVE  ServiceInv'
<1>1. PICK a : a = <<f>>
  OBVIOUS
<1>2. a[1] = f /\ Len(a) = 1
  BY <1>1
<1>3. Opening(b) /\ (Len(b) = 0 => txn # NoTxn)
  BY Sections
<1>4. Concludes(Head(call.todo), call.mode, a) /\ Applies(t, x, b, a)
  BY <1>1
<1> QED BY <1>2, <1>3, <1>4, ServiceApplies

\* Recovery, and what it puts to work.
LEMMA ServiceRecover ==
  ASSUME ControlInv, ServiceInv, Recover, UNCHANGED original
  PROVE  ServiceInv'
<1>1. /\ call # NoCall /\ Within(call) /\ Head(call.todo) = "recover" /\ call \in Calls
      /\ plist' = plist /\ loaded' = loaded /\ original' = original
  BY DEF Recover, Due, ControlInv, Within, ServiceInv
<1>2. Head(call.todo) \notin Working /\ ~Undoing(call) /\ ~Owning(call)
  BY <1>1, IdleCalls DEF Working, Applying, Finishing
<1>3. /\ plist \in Plists /\ loaded \in BOOLEAN /\ original \in PriorServices
      /\ txn \in Txns \cup {NoTxn}
      /\ txn = NoTxn => plist = original.plist /\ loaded = original.loaded
      /\ txn # NoTxn => \A o : Sound(txn, original, o)
  BY <1>2, SoundKept DEF ServiceInv, PriorServiceReturns
<1>4. CASE Fails(<<>>) /\ UNCHANGED txn
  BY <1>1, <1>2, <1>4, Compensations, ServiceGoesOn DEF service
<1>5. CASE txn = NoTxn /\ Done /\ UNCHANGED txn
  <2>1. \A step : Given(step, txn', plist, loaded, original)
    BY <1>5 DEF Given
  <2> QED BY <1>1, <1>2, <1>3, <1>5, <2>1, ServiceDone
<1>6. CASE txn # NoTxn /\ ~Conflicts(txn) /\ txn.phase = "owned" /\ UNCHANGED txn
  <2>1. txn.operation # "disconnect" /\ txn.desiredLoaded = TRUE /\ plist = txn.desired /\ txn \in Txns
    <3>1. Sound(txn, original, call) /\ txn \in Txns
      BY <1>3, <1>6
    <3>2. txn.desiredLoaded \in BOOLEAN
      BY <3>1 DEF Txns
    <3> QED BY <1>2, <1>6, <3>1, <3>2 DEF Sound, Conflicts
  <2>2. CASE loaded = txn.desiredLoaded /\ Done
    <3>1. \A step : Given(step, txn', plist, loaded, original)
      BY <1>6, <2>1, <2>2 DEF Given
    <3> QED BY <1>1, <1>2, <1>3, <1>6, <2>2, <3>1, ServiceDone
  <2>3. CASE Applies([txn EXCEPT !.operation = "reconnect", !.rollback = txn.desired,
                                 !.rollbackLoaded = txn.desiredLoaded, !.phase = "prepared"],
                     plist, <<"save">>, <<"owned">>)
    <3>1. PICK t : t = [txn EXCEPT !.operation = "reconnect", !.rollback = txn.desired,
                                   !.rollbackLoaded = txn.desiredLoaded, !.phase = "prepared"]
      OBVIOUS
    <3>2. /\ t \in Txns /\ t.phase = "prepared" /\ t.operation = "reconnect"
          /\ t.rollbackLoaded = TRUE /\ t.desiredLoaded = TRUE
          /\ t.prior = txn.prior /\ t.priorLoaded = txn.priorLoaded
      BY <2>1, <3>1 DEF Txns
    <3>3. \A o : Sound(t, original, o)
      BY <1>3, <1>6, <3>2 DEF Sound
    <3>4. Fits("owned", t, original)
      BY <3>2 DEF Fits
    <3>5. Applies(t, plist, <<"save">>, <<"owned">>)
      BY <2>3, <3>1
    <3> QED BY <1>1, <1>3, <1>6, <3>2, <3>3, <3>4, <3>5, Sections, ServiceWorks DEF service
  <2> QED BY <1>6, <2>2, <2>3 DEF Recover
<1>7. CASE txn # NoTxn /\ ~Conflicts(txn) /\ txn.phase # "owned"
  <2>1. txn \in Txns /\ Sound(txn, original, call) /\ txn.operation \in {"connect", "reconnect", "disconnect"}
    BY <1>3, <1>7 DEF Txns
  <2>r. PICK r : r = RollingBack(txn)
    OBVIOUS
  <2>2. /\ r \in Txns /\ r.phase = txn.phase /\ r.operation = txn.operation
        /\ r.desired = txn.rollback /\ r.desiredLoaded = txn.rollbackLoaded
        /\ r.rollback = txn.rollback /\ r.rollbackLoaded = txn.rollbackLoaded
        /\ r.prior = txn.prior /\ r.priorLoaded = txn.priorLoaded
    BY <2>1, <2>r DEF RollingBack, Txns
  <2>3. CASE /\ txn.operation # "disconnect" /\ call.mode = "connected"
             /\ txn' = [txn EXCEPT !.operation = "connect", !.phase = "owned"] /\ Done
    <3>1. /\ txn' \in Txns /\ txn'.operation = "connect" /\ txn'.phase = "owned"
          /\ txn'.prior = txn.prior /\ txn'.priorLoaded = txn.priorLoaded
          /\ txn'.desiredLoaded = txn.desiredLoaded
      BY <2>1, <2>3 DEF Txns
    <3>2. \A o : Sound(txn', original, o)
      BY <1>2, <2>1, <2>3, <3>1 DEF Sound
    <3>3. \A step : step # "install" => Given(step, txn', plist, loaded, original)
      BY <3>1 DEF Given
    <3>4. call.mode # "connect" /\ txn' # NoTxn
      BY <2>3, <3>1, IntegrationConstants
    <3> QED BY <1>1, <1>2, <2>3, <3>1, <3>2, <3>3, <3>4, ServiceDone
  <2>4. CASE /\ txn.operation = "connect" /\ UNCHANGED txn
             /\ Applies(RollingBack(txn), plist, <<>>, <<"undone">>)
    <3>1. Fits("undone", r, original)
      BY <1>7, <2>1, <2>2, <2>4 DEF Fits, Sound
    <3>2. \A o : Undoing(o) => Sound(r, original, o)
      BY <1>7, <2>1, <2>2, <2>4 DEF Sound
    <3> QED BY <1>1, <1>3, <1>7, <2>r, <2>2, <2>4, <3>1, <3>2, Sections, ServiceWorks DEF service
  <2>5. CASE /\ txn.operation \in {"reconnect", "disconnect"} /\ UNCHANGED txn
             /\ Applies(RollingBack(txn), plist, <<>>, <<"own">>)
    <3>1. Fits("own", r, original)
      BY <2>1, <2>2, <2>5 DEF Fits, Sound
    <3>2. \A o : Owning(o) => Sound(r, original, o)
      BY <1>7, <2>1, <2>2, <2>5 DEF Sound
    <3> QED BY <1>1, <1>3, <1>7, <2>r, <2>2, <2>5, <3>1, <3>2, Sections, ServiceWorks DEF service
  <2>6. CASE /\ txn.operation = "disconnect" /\ call.mode = "disconnect" /\ UNCHANGED txn
             /\ Applies(txn, plist, <<>>, <<"restored">>)
    <3>1. Fits("restored", txn, original)
      BY <1>2, <2>1, <2>6 DEF Fits, Sound
    <3> QED BY <1>1, <1>3, <1>7, <2>1, <2>6, <3>1, Sections, ServiceWorks DEF service
  <2>7. CASE /\ txn.operation = "disconnect" /\ call.mode = "disconnected" /\ UNCHANGED txn
             /\ Applies(txn, plist, <<>>, <<"restored", "remove">>)
    <3>1. Fits("restored", txn, original) /\ Fits("remove", txn, original)
      BY <1>2, <2>1, <2>7 DEF Fits, Sound
    <3>2. PICK a : a = <<"restored", "remove">>
      OBVIOUS
    <3>3. a[1] = "restored" /\ Len(a) = 2 /\ a[2] = "remove"
      BY <3>2
    <3>4. Concludes("recover", call.mode, a) /\ Opening(<<>>) /\ Len(<<>>) = 0
      BY <2>7, <3>2, Sections
    <3>5. Applies(txn, plist, <<>>, a)
      BY <2>7, <3>2
    <3> QED BY <1>1, <1>3, <1>7, <2>1, <2>7, <3>1, <3>3, <3>4, <3>5, ServiceApplies DEF service
  <2> QED BY <1>4, <1>7, <2>1, <2>3, <2>4, <2>5, <2>6, <2>7 DEF Recover
<1> QED BY <1>4, <1>5, <1>6, <1>7 DEF Recover

\* An installation, a removal and its reversal put a sound transaction to work.
LEMMA ServiceChange ==
  ASSUME ControlInv, ServiceInv, Install \/ Uninstall \/ Reinstall, UNCHANGED original
  PROVE  ServiceInv'
<1>1. /\ call # NoCall /\ Within(call) /\ Head(call.todo) \in {"install", "uninstall", "reinstall"}
      /\ call \in Calls
      /\ plist' = plist /\ loaded' = loaded /\ txn' = txn /\ original' = original
      /\ UNCHANGED <<service, original>>
      /\ call.executable \in Executables
  BY DEF Install, Uninstall, Reinstall, Due, ControlInv, Within, ServiceInv, service, Legal
<1>2. Head(call.todo) \notin Working /\ ~Undoing(call) /\ ~Owning(call)
  BY <1>1, IdleCalls DEF Working, Applying, Finishing
<1>3. /\ plist \in Plists /\ loaded \in BOOLEAN /\ original \in PriorServices
      /\ txn \in Txns \cup {NoTxn}
      /\ txn = NoTxn => plist = original.plist /\ loaded = original.loaded
      /\ txn # NoTxn => \A o : Sound(txn, original, o)
      /\ Given(Head(call.todo), txn, plist, loaded, original)
      /\ call.executable \in Plists
  BY <1>1, <1>2, SoundKept DEF ServiceInv, PriorServiceReturns, Within, Plists
<1>4. CASE Fails(<<>>)
  BY <1>1, <1>2, <1>4, Compensations, ServiceGoesOn
<1>5. CASE Done
  <2>1. Head(call.todo) = "uninstall" \/ Head(call.todo) = "install" \/ Head(call.todo) = "reinstall"
    BY <1>1
  <2>2. \A step : May(Head(call.todo), step) => Given(step, txn', plist, loaded, original)
    <3> SUFFICES ASSUME NEW step, May(Head(call.todo), step)
                 PROVE  Given(step, txn, plist, loaded, original)
      BY <1>1
    <3>1. CASE step = "release"
      <4>1. Head(call.todo) = "uninstall"
        BY <1>1, <3>1 DEF May
      <4> QED BY <1>3, <3>1, <4>1 DEF Given
    <3>2. CASE step # "release"
      <4>1. step \notin {"install", "uninstall", "commit_uninstall"}
        BY <1>1 DEF May
      <4> QED BY <3>2, <4>1 DEF Given
    <3> QED BY <3>1, <3>2
  <2> QED BY <1>1, <1>2, <1>3, <1>5, <2>2, ServiceDone
<1>6. CASE Install /\ txn # NoTxn /\ ~Done
  <2>1. PICK t : t = [txn EXCEPT !.rollback = txn.desired, !.rollbackLoaded = txn.desiredLoaded,
                                 !.desired = call.executable, !.desiredLoaded = TRUE,
                                 !.operation = "reconnect", !.phase = "prepared"]
    OBVIOUS
  <2>2. Applies(t, txn.desired, <<"save">>, <<"applied">>) /\ Head(call.todo) = "install"
    BY <1>6, <2>1 DEF Install, Due
  <2>3. txn \in Txns /\ txn.phase = "owned" /\ Sound(txn, original, call) /\ txn.desired \in Plists
    BY <1>3, <1>6, <2>2 DEF Given, Txns
  <2>4. txn.operation # "disconnect" /\ txn.desiredLoaded
    BY <1>2, <2>3 DEF Sound
  <2>5. /\ t \in Txns /\ t.phase = "prepared" /\ t.operation = "reconnect" /\ t.desiredLoaded
        /\ t.rollbackLoaded /\ t.prior = txn.prior /\ t.priorLoaded = txn.priorLoaded
    BY <1>3, <2>1, <2>3, <2>4 DEF Txns
  <2>6. Fits("applied", t, original)
    BY <2>5 DEF Fits
  <2>7. \A o : Sound(t, original, o)
    BY <2>3, <2>5 DEF Sound
  <2> QED BY <1>1, <2>2, <2>3, <2>5, <2>6, <2>7, Sections, ServiceWorks
<1>7. CASE Install /\ txn = NoTxn /\ ~Fails(<<>>)
  <2>1. PICK t : t = [Owned([plist |-> plist, loaded |-> loaded], call.executable)
                        EXCEPT !.phase = "prepared"]
    OBVIOUS
  <2>2. Applies(t, plist, <<"save">>, <<"applied">>) /\ Head(call.todo) = "install"
    BY <1>7, <2>1 DEF Install, Due
  <2>3. /\ t \in Txns /\ t.phase = "prepared" /\ t.operation = "connect" /\ t.desiredLoaded
        /\ t.rollbackLoaded = loaded /\ t.rollback = plist /\ t.prior = plist /\ t.priorLoaded = loaded
    BY <1>3, <2>1 DEF Owned, Txns
  <2>4. Fits("applied", t, original)
    BY <2>3 DEF Fits
  <2>5. \A o : Sound(t, original, o)
    BY <1>3, <1>7, <2>3 DEF Sound
  <2> QED BY <1>1, <1>3, <2>2, <2>3, <2>4, <2>5, Sections, ServiceWorks
<1>8. CASE Uninstall /\ ~Done
  <2>1. PICK t : t = [txn EXCEPT !.rollback = txn.desired, !.rollbackLoaded = txn.desiredLoaded,
                                 !.desired = txn.prior, !.desiredLoaded = txn.priorLoaded,
                                 !.operation = "disconnect", !.phase = "prepared"]
    OBVIOUS
  <2>2. /\ Applies(t, txn.desired, <<"save">>, <<"restored">>) /\ Head(call.todo) = "uninstall"
        /\ txn # NoTxn /\ ~(txn.operation = "disconnect" /\ txn.phase = "restored")
    BY <1>8, <2>1 DEF Uninstall, Due
  <2>3. txn \in Txns /\ txn.operation # "disconnect" /\ Sound(txn, original, call) /\ txn.desired \in Plists
    BY <1>3, <2>2 DEF Given, Txns
  <2>4. txn.desiredLoaded /\ txn.prior = original.plist /\ txn.priorLoaded = original.loaded
    BY <1>2, <2>3 DEF Sound
  <2>5. /\ t \in Txns /\ t.phase = "prepared" /\ t.operation = "disconnect"
        /\ t.rollbackLoaded /\ t.prior = txn.prior /\ t.priorLoaded = txn.priorLoaded
        /\ t.desired = txn.prior /\ t.desiredLoaded = txn.priorLoaded
    BY <2>1, <2>3, <2>4 DEF Txns
  <2>6. Fits("restored", t, original)
    BY <2>4, <2>5 DEF Fits
  <2>7. \A o : Sound(t, original, o)
    BY <2>4, <2>5 DEF Sound
  <2> QED BY <1>1, <2>2, <2>3, <2>5, <2>6, <2>7, Sections, ServiceWorks
<1>9. CASE Reinstall /\ ~Fails(<<>>)
  <2>1. PICK t : t = [RollingBack(txn) EXCEPT !.phase = "prepared"]
    OBVIOUS
  <2>2. /\ Applies(t, plist, <<"save">>, <<"own">>) /\ Head(call.todo) = "reinstall"
        /\ txn # NoTxn /\ txn.operation = "disconnect"
    BY <1>9, <2>1 DEF Reinstall, Due
  <2>3. txn \in Txns /\ Sound(txn, original, call)
    BY <1>3, <2>2
  <2>4. /\ t \in Txns /\ t.phase = "prepared" /\ t.operation = "disconnect"
        /\ t.desiredLoaded = txn.rollbackLoaded /\ t.rollbackLoaded = txn.rollbackLoaded
        /\ t.prior = txn.prior /\ t.priorLoaded = txn.priorLoaded
    BY <2>1, <2>2, <2>3 DEF Txns, RollingBack
  <2>5. Fits("own", t, original)
    BY <2>2, <2>3, <2>4 DEF Fits, Sound
  <2>6. \A o : Owning(o) => Sound(t, original, o)
    BY <2>2, <2>3, <2>4 DEF Sound
  <2> QED BY <1>1, <1>3, <2>2, <2>4, <2>5, <2>6, Sections, ServiceWorks
<1> QED BY <1>4, <1>5, <1>6, <1>7, <1>8, <1>9

\* A transaction is committed.
LEMMA ServiceCommit ==
  ASSUME ControlInv, ServiceInv, CommitInstall \/ CommitUninstall, UNCHANGED original
  PROVE  ServiceInv'
<1>1. /\ call # NoCall /\ Within(call) /\ Head(call.todo) \in {"commit_install", "commit_uninstall"}
      /\ call \in Calls
      /\ plist' = plist /\ loaded' = loaded /\ original' = original
  BY DEF CommitInstall, CommitUninstall, Due, ControlInv, Within, ServiceInv
<1>2. Head(call.todo) \notin Working /\ ~Undoing(call) /\ ~Owning(call)
  BY <1>1, IdleCalls DEF Working, Applying, Finishing
<1>3. /\ txn \in Txns \cup {NoTxn}
      /\ txn = NoTxn => plist = original.plist /\ loaded = original.loaded
      /\ txn # NoTxn => \A o : Sound(txn, original, o)
      /\ Given(Head(call.todo), txn, plist, loaded, original)
  BY <1>1, <1>2, SoundKept DEF ServiceInv, PriorServiceReturns, Within
<1>4. CASE Fails(<<>>) /\ UNCHANGED txn
  BY <1>1, <1>2, <1>4, Compensations, ServiceGoesOn DEF service
<1>5. \A step, x : May(Head(call.todo), step) => Given(step, x, plist, loaded, original)
  BY <1>1 DEF May, Given
<1>6. CASE Done /\ UNCHANGED txn
  BY <1>1, <1>2, <1>3, <1>5, <1>6, ServiceDone
<1>7. CASE /\ txn # NoTxn /\ txn.operation # "disconnect"
           /\ txn' = [txn EXCEPT !.operation = "connect", !.phase = "owned"] /\ Done
  <2>1. /\ txn' \in Txns /\ txn'.operation = "connect" /\ txn'.phase = "owned"
        /\ txn'.prior = txn.prior /\ txn'.priorLoaded = txn.priorLoaded
        /\ txn'.desiredLoaded = txn.desiredLoaded
    BY <1>3, <1>7 DEF Txns
  <2>2. Sound(txn, original, call)
    BY <1>3, <1>7
  <2>3. \A o : Sound(txn', original, o)
    BY <1>2, <1>7, <2>1, <2>2 DEF Sound
  <2>4. txn' # NoTxn
    BY <2>1, IntegrationConstants
  <2> QED BY <1>1, <1>2, <1>5, <1>7, <2>1, <2>3, <2>4, ServiceDone
<1>8. CASE /\ CommitUninstall /\ txn # NoTxn /\ txn.operation = "disconnect"
           /\ txn' = NoTxn /\ Done
  <2>1. plist = original.plist /\ loaded = original.loaded
    BY <1>3, <1>8 DEF Given, CommitUninstall, Due
  <2> QED BY <1>1, <1>2, <1>5, <1>8, <2>1, ServiceDone
<1> QED BY <1>4, <1>6, <1>7, <1>8 DEF CommitInstall, CommitUninstall

\* One more step of a transaction at work.
LEMMA ServiceProgress ==
  ASSUME ServiceInv, call # NoCall, Within(call), Head(call.todo) \in Applying \cup {"save"},
         call' \in Calls, call'.todo = Tail(call.todo), call'.txn \in Txns, call'.txn.phase # "owned",
         \A f \in {"prior", "priorLoaded", "rollback", "rollbackLoaded", "desired", "desiredLoaded",
                   "operation"} : call'.txn[f] = call.txn[f],
         txn' = call'.txn \/ (txn' = txn /\ Head(call.todo) # "save"),
         plist' \in Plists, loaded' \in BOOLEAN, original' = original,
         Tail(call.todo) # <<>> /\ Head(Tail(call.todo)) \in Working =>
           Progress(Head(Tail(call.todo)), call.txn, plist', loaded')
  PROVE  ServiceInv'
<1>1. /\ Busy(call) /\ AtWork(call, txn, plist, loaded, original) /\ Serves(call.todo, call.txn, original)
      /\ txn \in Txns \cup {NoTxn} /\ original \in PriorServices
      /\ txn # NoTxn => Sound(txn, original, call)
  BY DEF ServiceInv, Busy, Within, Working
<1>2. call' # NoCall /\ NoTxn \notin Txns
  BY IntegrationConstants
<1>3. (Undoing(call) => Undoing(call')) /\ (Owning(call) => Owning(call'))
  <2>1. \A m : Has(call.todo, m) => m = Head(call.todo) \/ Has(Tail(call.todo), m)
    BY TailGood DEF Within, Legal
  <2> QED BY <1>2, <2>1 DEF Undoing, Owning, Applying
<1>4. Sound(call'.txn, original, call')
  <2>1. Sound(call.txn, original, call) /\ call.txn.phase # "owned"
    BY <1>1 DEF AtWork
  <2>2. Sound(call'.txn, original, call)
    BY <2>1 DEF Sound
  <2> QED BY <1>3, <2>2, SoundKept
<1>5. txn' \in Txns /\ txn' # NoTxn /\ Sound(txn', original', call')
  <2>1. CASE txn' = call'.txn
    BY <1>2, <1>4, <2>1
  <2>2. CASE txn' = txn /\ Head(call.todo) # "save"
    BY <1>1, <1>2, <1>3, <2>2, SoundKept DEF AtWork
  <2> QED BY <2>1, <2>2
<1>6. Serves(call'.todo, call'.txn, original')
  <2>1. Serves(Tail(call.todo), call.txn, original)
    BY <1>1, TailServes DEF Within, Legal
  <2> QED BY <2>1, SameServes
<1>7. Busy(call') => AtWork(call', txn', plist', loaded', original')
  BY <1>4, <1>5 DEF Busy, AtWork, Progress
<1>8. call'.todo # <<>> => Given(Head(call'.todo), txn', plist', loaded', original')
  <2> SUFFICES ASSUME call'.todo # <<>>
               PROVE  Given(Head(call'.todo), txn', plist', loaded', original')
    OBVIOUS
  <2>1. May(Head(call.todo), Head(call'.todo))
    BY TailGood DEF Within, Legal
  <2>2. Head(call'.todo) \notin {"install", "uninstall", "release", "commit_uninstall"}
    BY <2>1 DEF May, Applying
  <2> QED BY <2>2 DEF Given
<1> QED BY <1>1, <1>2, <1>5, <1>6, <1>7, <1>8, ServiceAfter

\* The service is stopped, its file replaced, and it is started again; each is
\* recorded.
LEMMA ServiceApplying ==
  ASSUME ControlInv, ServiceInv, UNCHANGED original,
         \/ Stop \/ Replace \/ Start
         \/ \E step \in {"save", "stopped", "written", "started"} : Save(step)
  PROVE  ServiceInv'
<1>1. /\ call # NoCall /\ Within(call) /\ Head(call.todo) \in Applying \cup {"save"} /\ call \in Calls
      /\ original' = original
  BY DEF Stop, Replace, Start, Save, Due, ControlInv, Within, ServiceInv, Applying
<1>2. /\ AtWork(call, txn, plist, loaded, original) /\ Serves(call.todo, call.txn, original)
      /\ plist \in Plists /\ loaded \in BOOLEAN
  BY <1>1 DEF ServiceInv, Busy, Within, Working
<1>3. /\ call.txn \in Txns /\ call.txn.phase # "owned" /\ call.txn.desired \in Plists
      /\ Progress(Head(call.todo), call.txn, plist, loaded)
      /\ call.txn.desiredLoaded \in BOOLEAN
  BY <1>2 DEF AtWork, Txns
<1>4. /\ Fits(Head(call.todo), call.txn, original)
      /\ Tail(call.todo) # <<>> /\ Head(call.todo) = "written" /\ Head(Tail(call.todo)) \in Finishing =>
           ~call.txn.desiredLoaded
  BY <1>1, <1>2, TailServes DEF Within, Legal
<1> DEFINE n == Head(Tail(call.todo))
<1>5. Tail(call.todo) # <<>> /\ n \in Working =>
        \/ Head(call.todo) = "save" /\ n = "stop"
        \/ Head(call.todo) = "stop" /\ n = "stopped"
        \/ Head(call.todo) = "stopped" /\ n = "replace"
        \/ Head(call.todo) = "replace" /\ n = "written"
        \/ Head(call.todo) = "written" /\ n \in Finishing \cup {"start"}
        \/ Head(call.todo) = "start" /\ n = "started"
        \/ Head(call.todo) = "started" /\ n \in Finishing
        \/ Head(call.todo) = "restored" /\ n = "remove"
  BY <1>1, WorkNext DEF Within, Legal
<1>6. CASE Stop \/ Replace \/ Start
  <2>1. /\ call' \in Calls /\ call'.todo = Tail(call.todo) /\ call'.txn = call.txn
        /\ txn' = txn /\ Head(call.todo) # "save"
    BY <1>1, <1>6, TypedMoves, DoneMoves DEF Stop, Replace, Start, Due, Kept
  <2>2. plist' \in Plists /\ loaded' \in BOOLEAN
    BY <1>2, <1>3, <1>6 DEF Stop, Replace, Start
  <2>3. Tail(call.todo) # <<>> /\ n \in Working => Progress(n, call.txn, plist', loaded')
    <3>1. CASE Stop
      BY <1>5, <3>1 DEF Stop, Due, Progress, Finishing
    <3>2. CASE Replace
      BY <1>3, <1>5, <3>2 DEF Replace, Due, Progress, Finishing
    <3>3. CASE Start
      BY <1>3, <1>5, <3>3 DEF Start, Due, Progress, Finishing
    <3> QED BY <1>6, <3>1, <3>2, <3>3
  <2> QED BY <1>1, <1>3, <2>1, <2>2, <2>3, ServiceProgress
<1>7. ASSUME NEW step \in {"save", "stopped", "written", "started"}, Save(step) PROVE ServiceInv'
  <2>1. PICK u : u = Saved(step)
    OBVIOUS
  <2>2. /\ u \in Txns /\ u.phase # "owned"
        /\ \A f \in {"prior", "priorLoaded", "rollback", "rollbackLoaded", "desired", "desiredLoaded",
                     "operation"} : u[f] = call.txn[f]
    BY <1>3, <1>7, <2>1 DEF Saved, Txns
  <2>3. /\ call' = [call EXCEPT !.todo = Rest, !.txn = u] /\ txn' = u /\ plist' = plist /\ loaded' = loaded
        /\ Head(call.todo) = step
    BY <1>7, <2>1 DEF Save, Due
  <2>4. call' \in Calls /\ call'.todo = Tail(call.todo) /\ call'.txn = u
    <3>1. call' \in Calls
      BY <1>1, <2>2, <2>3, TypedMoves
    <3> QED BY <1>1, <2>3, <3>1 DEF Rest, Within, Legal
  <2>5. Tail(call.todo) # <<>> /\ n \in Working => Progress(n, call.txn, plist, loaded)
    <3>1. CASE step = "save"
      BY <1>5, <2>3, <3>1 DEF Progress, Finishing
    <3>2. CASE step = "stopped"
      BY <1>3, <1>5, <2>3, <3>2 DEF Progress, Finishing
    <3>3. CASE step = "written"
      BY <1>2, <1>3, <1>4, <1>5, <2>3, <3>3 DEF Progress, Finishing
    <3>4. CASE step = "started"
      BY <1>2, <1>3, <1>4, <1>5, <2>3, <3>4 DEF Progress, Finishing, Fits
    <3> QED BY <3>1, <3>2, <3>3, <3>4
  <2> QED BY <1>1, <1>2, <2>2, <2>3, <2>4, <2>5, ServiceProgress
<1> QED BY <1>6, <1>7

\* A transaction has been applied, and its record says so or goes.
LEMMA ServiceEnds ==
  ASSUME ControlInv, ServiceInv, UNCHANGED original,
         RemoveTxn \/ \E step \in {"applied", "restored", "owned", "own"} : Save(step)
  PROVE  ServiceInv'
<1>1. /\ call # NoCall /\ Within(call) /\ Head(call.todo) \in Finishing \cup {"remove"} /\ call \in Calls
      /\ original' = original /\ plist' = plist /\ loaded' = loaded
  BY DEF RemoveTxn, Save, Due, ControlInv, Within, ServiceInv, Finishing
<1>2. /\ AtWork(call, txn, plist, loaded, original) /\ Serves(call.todo, call.txn, original)
      /\ plist \in Plists /\ loaded \in BOOLEAN /\ original \in PriorServices
  BY <1>1 DEF ServiceInv, Busy, Within, Working
<1>3. /\ call.txn \in Txns /\ call.txn.phase # "owned" /\ Sound(call.txn, original, call)
      /\ plist = call.txn.desired /\ loaded = call.txn.desiredLoaded
      /\ Fits(Head(call.todo), call.txn, original) /\ Serves(Tail(call.todo), call.txn, original)
  BY <1>1, <1>2, TailServes DEF AtWork, Progress, Within, Legal
<1>4. Good(call.todo) /\ Good(Tail(call.todo)) /\ call.todo # <<>>
      /\ (Tail(call.todo) # <<>> => May(Head(call.todo), Head(Tail(call.todo))))
  BY <1>1, TailGood DEF Within, Legal
<1>5. CASE RemoveTxn
  <2>1. Head(call.todo) \in {"remove", "undone"} /\ txn' = NoTxn /\ Done
    BY <1>5 DEF RemoveTxn, Due
  <2>2. call' \in Calls /\ call'.todo = Tail(call.todo) /\ Idle(call'.todo)
    BY <1>1, <1>4, <2>1, TypedMoves, DoneMoves, WorkNext
  <2>3. plist = original.plist /\ loaded = original.loaded
    BY <1>3, <2>1 DEF Fits
  <2>4. \A step : Given(step, txn', plist, loaded, original)
    BY <2>1 DEF Given
  <2> QED BY <1>1, <1>4, <2>1, <2>2, <2>3, <2>4, ServiceRests
<1>6. ASSUME NEW step \in {"applied", "restored", "owned", "own"}, Save(step) PROVE ServiceInv'
  <2>1. PICK u : u = Saved(step)
    OBVIOUS
  <2>2. /\ u \in Txns
        /\ \A f \in {"prior", "priorLoaded", "rollback", "rollbackLoaded", "desired", "desiredLoaded"} :
             u[f] = call.txn[f]
        /\ u.operation = IF step = "own" THEN "connect" ELSE call.txn.operation
        /\ u.phase = IF step \in {"own", "owned"} THEN "owned" ELSE step
    BY <1>3, <1>6, <2>1 DEF Saved, Txns
  <2>3. call' = [call EXCEPT !.todo = Rest, !.txn = u] /\ txn' = u /\ Head(call.todo) = step
    BY <1>6, <2>1 DEF Save, Due
  <2>4. call' \in Calls /\ call'.todo = Tail(call.todo) /\ call'.txn = u /\ call' # NoCall /\ u # NoTxn
    <3>1. call' \in Calls
      BY <1>1, <2>2, <2>3, TypedMoves
    <3> QED BY <1>1, <2>2, <2>3, <3>1, IntegrationConstants DEF Rest, Within, Legal
  <2>5. Sound(u, original, call')
    BY <1>3, <2>2, <2>3 DEF Sound, Fits
  <2>6. step # "restored" => Idle(Tail(call.todo))
    BY <1>4, <2>3, WorkNext
  <2>7. Serves(call'.todo, call'.txn, original)
    <3>1. CASE step = "restored"
      BY <1>3, <2>2, <2>4, <3>1, SameServes
    <3>2. CASE step # "restored"
      BY <1>4, <2>4, <2>6, <3>2, IdleServes DEF Good
    <3> QED BY <3>1, <3>2
  <2>8. ASSUME Busy(call') PROVE AtWork(call', txn', plist, loaded, original)
    <3>1. Tail(call.todo) # <<>> /\ Head(Tail(call.todo)) \in Working
      BY <2>4, <2>8 DEF Busy
    <3>2. step = "restored" /\ Head(Tail(call.todo)) = "remove"
      BY <1>4, <2>3, <3>1, WorkNext
    <3> QED BY <1>3, <2>2, <2>3, <2>4, <2>5, <3>2 DEF AtWork, Progress, Finishing
  <2>9. ASSUME call'.todo # <<>> PROVE Given(Head(call'.todo), txn', plist, loaded, original)
    <3>1. May(step, Head(call'.todo))
      BY <1>4, <2>3, <2>4, <2>9
    <3>2. CASE Head(call'.todo) = "install"
      <4>1. step \in {"owned", "own"}
        BY <3>1, <3>2 DEF May
      <4>2. call.txn.desiredLoaded
        BY <1>3, <2>3, <4>1 DEF Fits
      <4> QED BY <1>3, <2>2, <2>3, <3>2, <4>1, <4>2 DEF Given
    <3>3. CASE Head(call'.todo) \in {"uninstall", "release", "commit_uninstall"}
      <4>1. step \in {"restored", "owned", "own"}
        BY <3>1, <3>3 DEF May
      <4>2. CASE step = "restored"
        BY <1>3, <2>2, <2>3, <3>3, <4>2 DEF Given, Fits
      <4>3. CASE step = "owned"
        BY <1>3, <2>2, <2>3, <3>3, <4>3 DEF Given, Fits
      <4>4. CASE step = "own"
        BY <2>2, <2>3, <3>3, <4>4 DEF Given
      <4> QED BY <4>1, <4>2, <4>3, <4>4
    <3>4. CASE Head(call'.todo) \notin {"install", "uninstall", "release", "commit_uninstall"}
      BY <3>4 DEF Given
    <3> QED BY <3>2, <3>3, <3>4
  <2> QED BY <1>1, <1>2, <2>2, <2>3, <2>4, <2>5, <2>7, <2>8, <2>9, ServiceAfter
<1> QED BY <1>5, <1>6

\* Nothing else touches the service, and a call stops only where it has
\* nothing to take back.
LEMMA ServiceKept ==
  ASSUME RollbackFaults = FALSE, ControlInv, ServiceInv, IntegrationNext
  PROVE  ServiceInv'
<1>0. \A step : Due(step) => call # NoCall /\ Within(call) /\ Head(call.todo) = step
  BY DEF ControlInv, Due, Within
<1>o. original' = original
  BY DEF IntegrationNext
<1>m. ASSUME MayStop, call # NoCall PROVE ~Undoing(call) /\ ~Owning(call)
  <2>1. call.todo \in Seq(CallSteps)
    BY <1>m DEF ControlInv, Legal, Good
  <2>2. DOMAIN call.todo = 1..Len(call.todo)
    BY <2>1, LenProperties
  <2> QED BY <1>m, <2>2 DEF MayStop, Left, Undoing, Owning, Has
<1>1. ASSUME NEW e \in Executables, Connect(e) \/ Disconnect(e) \/ Status(e) PROVE ServiceInv'
  <2>1. call = NoCall /\ UNCHANGED service
    BY <1>1 DEF Connect, Disconnect, Status
  <2>2. ASSUME NEW kind \in {"connect", "disconnect", "status"}, NEW q,
               NEW mode \in {"connect", "disconnect", "status", "connected", "disconnected", "conflict"},
               Called(kind, e, q, mode), Good(q), Idle(q), q # <<>>,
               Head(q) \in {"recover_migration", "recover", "observe"}
        PROVE  ServiceInv'
    <3>1. call' \in Calls /\ call'.todo = q
      BY <2>2 DEF Called, Calls, Good, Plists
    <3>2. Given(Head(q), txn, plist, loaded, original)
      BY <2>2 DEF Given
    <3> QED BY <1>o, <2>1, <2>2, <3>1, <3>2, ServiceAside DEF Undoing, Owning
  <2>3. CASE Connect(e)
    <3>1. PICK q : q = <<"recover_migration", "install_settings", "probe", "recover", "install",
                         "ready", "config", "commit_install", "commit_settings">>
      OBVIOUS
    <3>2. Good(q) /\ Idle(q) /\ q # <<>> /\ Head(q) = "recover_migration"
      BY <3>1, ConnectSteps
    <3>3. Called("connect", e, q, "connect")
      BY <2>3, <3>1 DEF Connect
    <3> QED BY <2>2, <3>2, <3>3
  <2>4. ASSUME NEW q, NEW mode \in {"connected", "disconnected", "status"}, Called("status", e, q, mode),
               \/ q = <<"recover", "rollback_settings">> \/ q = <<"observe">>
               \/ q = <<"recover", "commit_settings", "observe">>
        PROVE  ServiceInv'
    <3>1. Good(q) /\ Idle(q) /\ q # <<>> /\ Head(q) \in {"recover", "observe"}
      BY <2>4, StatusSteps
    <3> QED BY <2>2, <2>4, <3>1
  <2>5. CASE Disconnect(e)
    <3>1. CASE Called("status", e, <<"recover", "rollback_settings">>, "disconnected")
      BY <2>4, <3>1
    <3>2. CASE Called("disconnect", e, Releasing, "disconnect")
      <4>1. Good(Releasing) /\ Idle(Releasing) /\ Releasing # <<>> /\ Head(Releasing) = "recover"
        BY ReleaseSteps DEF Releasing
      <4> QED BY <2>2, <3>2, <4>1
    <3> QED BY <2>5, <3>1, <3>2 DEF Disconnect
  <2>6. CASE Status(e)
    <3>1. CASE Called("status", e, <<"recover", "commit_settings", "observe">>, "connected")
      BY <2>4, <3>1
    <3>2. CASE Called("status", e, <<"recover", "rollback_settings">>, "disconnected")
      BY <2>4, <3>2
    <3>3. CASE Called("status", e, <<"observe">>, "status")
      BY <2>4, <3>3
    <3> QED BY <2>6, <3>1, <3>2, <3>3 DEF Status
  <2> QED BY <1>1, <2>3, <2>5, <2>6
<1>2. CASE EndCall \/ Crash
  <2>1. call' = NoCall /\ UNCHANGED service
    BY <1>2 DEF EndCall, Crash
  <2>2. ~Undoing(call) /\ ~Owning(call)
    <3>1. CASE EndCall
      BY <3>1 DEF EndCall, Undoing, Owning, Has
    <3>2. CASE Crash
      BY <3>2, <1>m DEF Crash
    <3> QED BY <1>2, <3>1, <3>2
  <2> QED BY <1>o, <2>1, <2>2, ServiceAside
<1>3. CASE SettingsStep
  <2>1. /\ call # NoCall /\ Within(call) /\ Head(call.todo) \notin Working /\ UNCHANGED service
        /\ Head(call.todo) \notin {"recover", "uninstall", "release"}
    BY <1>0, <1>3 DEF SettingsStep, RecoverMigration, InstallSettings, Begin, Generate, Adopt, Probe,
         CommitSettings, RollbackSettings, RestoreSettings, DropReplacement, Finalize,
         RemoveJournal, Working, Applying, Finishing
  <2>2. ~Undoing(call) /\ ~Owning(call) /\ call \in Calls
    BY <2>1, IdleCalls DEF ServiceInv
  <2>3. \A step : May(Head(call.todo), step) => Given(step, txn, plist, loaded, original)
    BY <2>1 DEF May, Given, Working, Finishing
  <2>4. txn' = txn /\ plist' = plist /\ loaded' = loaded
    BY <2>1 DEF service
  <2>5. /\ txn \in Txns \cup {NoTxn}
        /\ txn = NoTxn => plist = original.plist /\ loaded = original.loaded
        /\ txn # NoTxn => \A o : Sound(txn, original, o)
    BY <2>2, SoundKept DEF ServiceInv, PriorServiceReturns
  <2>6. CASE Done
    BY <1>o, <2>1, <2>3, <2>4, <2>5, <2>6, ServiceDone
  <2>7. CASE Fails(<<>>)
    BY <1>o, <2>1, <2>2, <2>7, Compensations, ServiceGoesOn
  <2>8. ASSUME NEW a, Unfolds(Head(call.todo), a), Then(a) PROVE ServiceInv'
    BY <1>o, <2>1, <2>2, <2>8, ServiceGoesOn
  <2>9. CASE Probe
    <3>1. call' \in Calls /\ call'.todo = Tail(call.todo)
      <4>1. PICK r \in BOOLEAN : call' = [call EXCEPT !.todo = Rest, !.restart = r]
        BY <2>9 DEF Probe
      <4> QED BY <2>1, <2>2, <4>1, TypedMoves DEF Rest, Within, Legal
    <3>2. /\ Good(call'.todo) /\ Idle(call'.todo)
          /\ call'.todo # <<>> => May(Head(call.todo), Head(call'.todo))
      BY <2>1, <3>1, TailGood DEF Within, Legal
    <3> QED BY <1>o, <2>1, <2>2, <2>3, <3>1, <3>2, ServiceAside
  <2>10. Done \/ Fails(<<>>) \/ Probe \/ \E a : Unfolds(Head(call.todo), a) /\ Then(a)
    BY <1>3, <1>0 DEF SettingsStep, RecoverMigration, InstallSettings, Begin, Generate, Adopt,
         CommitSettings, RollbackSettings, RestoreSettings, DropReplacement, Finalize,
         RemoveJournal, Unfolds
  <2> QED BY <2>6, <2>7, <2>8, <2>9, <2>10
<1>4. CASE ServiceStep
  BY <1>4, <1>o, ServiceRecover, ServiceChange, ServiceApplying, ServiceEnds, ServiceCommit
     DEF ServiceStep
<1>5. CASE ObserveStatus
  <2>1. call # NoCall /\ Within(call) /\ Head(call.todo) = "observe" /\ UNCHANGED service /\ call \in Calls
    BY <1>5, <1>0 DEF ObserveStatus, ServiceInv
  <2>2. ~Undoing(call) /\ ~Owning(call)
    BY <2>1, IdleCalls DEF Working, Applying, Finishing
  <2>3. Legal(call') /\ call'.todo # <<>> /\ Head(call'.todo) = "recover" /\ Idle(call'.todo)
    BY <1>5, <2>1, ObserveMoves
  <2>4. PICK q : call' = [call EXCEPT !.mode = ConfigStatus(call.executable), !.todo = q]
    BY <1>5 DEF ObserveStatus
  <2>5. ConfigStatus(call.executable) \in {"connected", "disconnected", "conflict"}
    BY DEF ConfigStatus, Ownership
  <2>6. call'.todo = q /\ q \in Seq(CallSteps)
    BY <2>1, <2>3, <2>4 DEF Calls, Legal, Good
  <2>7. call' \in Calls
    BY <2>1, <2>4, <2>5, <2>6 DEF Calls
  <2>8. Given(Head(call'.todo), txn, plist, loaded, original)
    BY <2>3 DEF Given
  <2> QED BY <1>o, <2>1, <2>2, <2>3, <2>7, <2>8, ServiceAside DEF Legal
<1>6. CASE Ready \/ ConnectConfig \/ ReleaseConfig
  <2>1. /\ call # NoCall /\ Within(call) /\ Head(call.todo) \in {"ready", "config", "release"}
        /\ UNCHANGED service /\ call \in Calls
    BY <1>6, <1>0 DEF Ready, ConnectConfig, ReleaseConfig, ServiceInv
  <2>2. Head(call.todo) \notin Working /\ ~Undoing(call) /\ ~Owning(call)
    BY <2>1, IdleCalls DEF Working, Applying, Finishing
  <2>3. txn' = txn /\ plist' = plist /\ loaded' = loaded
    BY <2>1 DEF service
  <2>4. /\ txn \in Txns \cup {NoTxn}
        /\ txn = NoTxn => plist = original.plist /\ loaded = original.loaded
        /\ txn # NoTxn => \A o : Sound(txn, original, o)
        /\ Given(Head(call.todo), txn, plist, loaded, original)
    BY <2>1, <2>2, SoundKept DEF ServiceInv, PriorServiceReturns, Within
  <2>5. \A step : May(Head(call.todo), step) => Given(step, txn, plist, loaded, original)
    BY <2>1, <2>4 DEF May, Given
  <2>6. CASE Done
    BY <1>o, <2>1, <2>2, <2>3, <2>4, <2>5, <2>6, ServiceDone
  <2>7. CASE Head(call.todo) = "release" /\ Fails(<<"commit_uninstall">>)
    <3>1. PICK a : a = <<"commit_uninstall">>
      OBVIOUS
    <3>2. Compensates(a) /\ Head(a) = "commit_uninstall" /\ Fails(a)
      BY <2>7, <3>1, Compensations
    <3>3. call' \in Calls /\ call'.todo = a
      BY <2>1, <3>2, TypedMoves, FailsMoves DEF Within
    <3>4. Given("commit_uninstall", txn, plist, loaded, original)
      BY <2>4, <2>7 DEF Given
    <3> QED BY <1>o, <2>1, <2>2, <3>2, <3>3, <3>4, ServiceAside DEF Compensates
  <2>8. ASSUME NEW a \in {<<>>, <<"recover", "rollback_settings">>, <<"reinstall">>}, Fails(a)
        PROVE  ServiceInv'
    <3>1. Compensates(a)
      BY Compensations
    <3>2. a # <<>> => Head(a) \notin {"release", "commit_uninstall"}
      OBVIOUS
    <3> QED BY <1>o, <2>1, <2>2, <2>8, <3>1, <3>2, ServiceGoesOn
  <2>9. \/ Done \/ (Head(call.todo) = "release" /\ Fails(<<"commit_uninstall">>))
        \/ \E a \in {<<>>, <<"recover", "rollback_settings">>, <<"reinstall">>} : Fails(a)
    BY <1>6 DEF Ready, ConnectConfig, ReleaseConfig, Due
  <2> QED BY <2>6, <2>7, <2>8, <2>9
<1>7. CASE StepFails
  <2>1. call # NoCall /\ Within(call) /\ UNCHANGED service /\ ~Undoing(call) /\ ~Owning(call)
    BY <1>7, <1>m DEF StepFails, ControlInv, Within
  <2>2. \E a : /\ Compensates(a) /\ Fails(a)
               /\ a \in {<<>>, <<"rollback_settings">>, <<"recover", "rollback_settings">>,
                         <<"recover">>, <<"drop_replacement">>, <<"drop_replacement", "unjournal">>}
    BY <1>7, Compensations DEF StepFails
  <2>3. PICK a : /\ Compensates(a) /\ Fails(a)
                 /\ a # <<>> => Head(a) \notin {"release", "commit_uninstall"}
    BY <2>2
  <2> QED BY <1>o, <2>1, <2>3, ServiceGoesOn
<1>8. CASE Unload
  <2>1. call = NoCall /\ call' = NoCall /\ txn # NoTxn /\ txn' = txn /\ plist' = plist /\ loaded' = FALSE
    BY <1>8 DEF Unload
  <2>2. Sound(txn', original', call')
    BY <1>o, <2>1 DEF ServiceInv
  <2> QED BY <1>o, <2>1, <2>2, ServiceAfter DEF ServiceInv, Busy
<1>9. CASE EditConfig
  <2>1. call' = call /\ txn' = txn /\ plist' = plist /\ loaded' = loaded
    BY <1>9 DEF EditConfig, service
  <2> QED BY <1>o, <2>1, ServiceAfter DEF ServiceInv, PriorServiceReturns
<1> QED BY <1>1, <1>2, <1>3, <1>4, <1>5, <1>6, <1>7, <1>8, <1>9 DEF IntegrationNext

\* The third layer holds when a rollback is not itself cut short: the
\* transaction on disk, and the one being applied, can always be taken back.
THEOREM ServiceHolds ==
  ASSUME RollbackFaults = FALSE
  PROVE  IntegrationSpec => []ServiceInv
<1>1. IntegrationInit => ServiceInv
  <2> SUFFICES ASSUME IntegrationInit PROVE ServiceInv
    OBVIOUS
  <2>1. /\ call = NoCall /\ original \in PriorServices /\ original.plist \in Plists
        /\ original.loaded \in BOOLEAN
    BY IntegrationConstants DEF IntegrationInit, Plists
  <2>2. CASE plist = original.plist /\ loaded = original.loaded /\ txn = NoTxn
    BY <2>1, <2>2 DEF ServiceInv, PriorServiceReturns, Busy
  <2>3. ASSUME NEW e \in Executables, plist = e, loaded = TRUE, txn = Owned(original, e)
        PROVE  ServiceInv
    <3>1. e \in Plists
      BY DEF Plists
    <3>2. /\ txn \in Txns /\ txn.prior = original.plist /\ txn.priorLoaded = original.loaded
          /\ txn.operation = "connect" /\ txn.phase = "owned" /\ txn.desiredLoaded
      BY <2>1, <2>3, <3>1 DEF Owned, Txns
    <3>3. Sound(txn, original, call) /\ txn # NoTxn
      BY <3>2, IntegrationConstants DEF Sound
    <3> QED BY <2>1, <2>3, <3>1, <3>2, <3>3 DEF ServiceInv, PriorServiceReturns, Busy
  <2> QED BY <2>2, <2>3 DEF IntegrationInit
<1>2. ControlInv /\ ServiceInv /\ [IntegrationNext]_integrationVars => ServiceInv'
  <2>1. ASSUME ServiceInv, UNCHANGED integrationVars PROVE ServiceInv'
    <3>1. call' = call /\ txn' = txn /\ plist' = plist /\ loaded' = loaded /\ original' = original
      BY <2>1 DEF integrationVars, service
    <3> QED BY <2>1, <3>1, ServiceAfter DEF ServiceInv, PriorServiceReturns
  <2> QED BY <2>1, ServiceKept
<1> QED BY <1>1, <1>2, ControlHolds, PTL DEF IntegrationSpec

\* PriorServiceReturns, when a rollback is not itself cut short: whatever
\* crashes or fails, without a transaction on disk the LaunchAgent's file and
\* service are exactly what they were before the first connect.
THEOREM PriorServiceStays ==
  ASSUME RollbackFaults = FALSE
  PROVE  IntegrationSpec => []PriorServiceReturns
<1>1. ServiceInv => PriorServiceReturns
  BY DEF ServiceInv
<1>2. IntegrationSpec => []ServiceInv
  BY ServiceHolds
<1> QED BY <1>1, <1>2, PTL

----------------------------------------------------------------------------
(* The fourth layer: what the calls achieve                                *)

\* A connect or disconnect that has not failed makes one step: nothing but its
\* first step goes from the list, and that step is one of its own.
LEMMA Onwards ==
  ASSUME ControlInv, IntegrationNext, ~EditConfig, call # NoCall, call' # NoCall, ~call'.failed,
         call'.kind \in {"connect", "disconnect"}
  PROVE  /\ Within(call) /\ call'.kind = call.kind /\ call'.executable = call.executable /\ ~call.failed
         /\ Head(call.todo) \in StepsOf(call.kind)
         /\ \A m \in Milestones(call.kind) : Precedes(Head(call.todo), m) => Has(call'.todo, m)
         /\ \A m : Has(call.todo, m) => m = Head(call.todo) \/ Has(call'.todo, m)
         /\ SettingsStep \/ ServiceStep \/ Ready \/ ConnectConfig \/ ReleaseConfig
<1>0. \A step : Due(step) => call # NoCall /\ Within(call) /\ Head(call.todo) = step
  BY DEF ControlInv, Due, Within
<1>1. ~StepFails /\ ~\E a : Fails(a)
  <2>1. Legal(call)
    BY DEF ControlInv
  <2>2. \A a : ~Fails(a)
    BY <2>1 DEF Fails, Legal
  <2> QED BY <2>2 DEF StepFails
<1>2. ~ObserveStatus
  BY <1>0, ObserveMoves DEF ObserveStatus
<1>3. SettingsStep \/ ServiceStep \/ Ready \/ ConnectConfig \/ ReleaseConfig
  BY <1>1, <1>2 DEF IntegrationNext, Connect, Disconnect, Status, EndCall, Crash, Unload
<1>4. /\ Within(call) /\ call'.kind = call.kind
      /\ call'.executable = call.executable /\ call'.failed = call.failed
      /\ \A m : Has(Tail(call.todo), m) => Has(call'.todo, m)
  <2>1. CASE Within(call) /\ Done
    BY <2>1, DoneMoves DEF Kept, Same
  <2>2. ASSUME Within(call), NEW a, Unfolds(Head(call.todo), a), Then(a)
        PROVE  /\ call'.kind = call.kind /\ call'.executable = call.executable /\ call'.failed = call.failed
               /\ \A m : Has(Tail(call.todo), m) => Has(call'.todo, m)
    BY <2>2, UnfoldReplaces, ThenMoves DEF Kept, Same
  <2>3. ASSUME Within(call), NEW t, NEW x, NEW b, NEW a, Opening(b),
               Concludes(Head(call.todo), call.mode, a), Applies(t, x, b, a)
        PROVE  /\ call'.kind = call.kind /\ call'.executable = call.executable /\ call'.failed = call.failed
               /\ \A m : Has(Tail(call.todo), m) => Has(call'.todo, m)
    BY <2>3, AppliesMoves DEF Same
  <2>4. CASE Probe \/ \E step : Save(step)
    <3>1. Within(call)
      BY <1>0, <2>4 DEF Probe, Save
    <3> QED BY <2>4, <3>1 DEF Probe, Save, Rest, Within, Legal
  <2>5. CASE SettingsStep
    <3>1. Within(call) /\ (Done \/ Probe \/ \E a : Unfolds(Head(call.todo), a) /\ Then(a))
      BY <1>0, <1>1, <2>5 DEF SettingsStep, RecoverMigration, InstallSettings, Begin, Generate, Adopt,
         Probe, CommitSettings, RollbackSettings, RestoreSettings, DropReplacement, Finalize,
         RemoveJournal, Unfolds
    <3> QED BY <2>1, <2>2, <2>4, <3>1
  <2>6. CASE ServiceStep
    <3>1. /\ Within(call)
          /\ \/ Done \/ \E step : Save(step)
             \/ \E t, x, b, a : /\ Opening(b) /\ Concludes(Head(call.todo), call.mode, a)
                                /\ Applies(t, x, b, a)
      <4>1. CASE Recover
        <5>1. Within(call) /\ Head(call.todo) = "recover"
          BY <4>1, <1>0 DEF Recover
        <5> QED BY <1>1, <5>1, <4>1, Sections DEF Recover
      <4>2. CASE Install
        <5>1. Within(call) /\ Head(call.todo) = "install"
          BY <4>2, <1>0 DEF Install
        <5> QED BY <1>1, <5>1, <4>2, Sections DEF Install
      <4>3. CASE Uninstall
        <5>1. Within(call) /\ Head(call.todo) = "uninstall"
          BY <4>3, <1>0 DEF Uninstall
        <5> QED BY <1>1, <5>1, <4>3, Sections DEF Uninstall
      <4>4. CASE Reinstall
        <5>1. Within(call) /\ Head(call.todo) = "reinstall"
          BY <4>4, <1>0 DEF Reinstall
        <5> QED BY <1>1, <5>1, <4>4, Sections DEF Reinstall
      <4>5. CASE ~(Recover \/ Install \/ Uninstall \/ Reinstall)
        BY <1>0, <1>1, <2>6, <4>5
           DEF ServiceStep, Stop, Replace, Start, Save, RemoveTxn, CommitInstall, CommitUninstall
      <4> QED BY <4>1, <4>2, <4>3, <4>4, <4>5
    <3> QED BY <2>1, <2>3, <2>4, <3>1
  <2>7. CASE Ready \/ ConnectConfig \/ ReleaseConfig
    <3>1. Within(call) /\ Done
      BY <1>0, <1>1, <2>7 DEF Ready, ConnectConfig, ReleaseConfig
    <3> QED BY <2>1, <3>1
  <2> QED BY <1>3, <2>5, <2>6, <2>7
<1>5. Staged(call.todo, call.kind) /\ ~call.failed
  BY <1>4 DEF Within, Legal
<1>6. Head(call.todo) \in StepsOf(call.kind) /\ Head(call.todo) = call.todo[1] /\ 1 \in 1..Len(call.todo)
  BY <1>4, <1>5, TailAt DEF Within, Legal, Good, Staged
<1>7. \A m : Has(call.todo, m) => m = Head(call.todo) \/ Has(call'.todo, m)
  BY <1>4, TailGood DEF Within, Legal
<1>8. ASSUME NEW m \in Milestones(call.kind), Precedes(Head(call.todo), m) PROVE Has(call'.todo, m)
  <2>1. Heads(call.todo, m)
    BY <1>5 DEF Staged
  <2>2. Has(call.todo, m)
    BY <1>6, <1>8, <2>1 DEF Heads
  <2>3. Head(call.todo) # m
    BY <1>8 DEF Precedes, BeforeInstall, Working, Applying, Finishing
  <2> QED BY <1>7, <2>2, <2>3
<1> QED BY <1>3, <1>4, <1>5, <1>6, <1>7, <1>8

\* A step that starts no transaction leaves no call at work.
LEMMA StaysIdle ==
  ASSUME call # NoCall, Within(call), Head(call.todo) \notin Working,
         \/ Done \/ Probe \/ \E a : Unfolds(Head(call.todo), a) /\ Then(a)
  PROVE  Idle(call'.todo) /\ ~Has(call'.todo, "applied") /\ ~Busy(call') /\ Legal(call')
<1>1. Idle(Tail(call.todo)) /\ Tail(call.todo) \in Seq(CallSteps)
  BY TailGood DEF Within, Legal, Good
<1>2. CASE Done \/ Probe
  <2>1. call'.todo = Tail(call.todo) /\ Legal(call')
    <3>1. CASE Done
      BY <3>1, DoneMoves
    <3>2. CASE Probe
      <4>1. call'.todo = Tail(call.todo) /\ Same(call', call) /\ call'.failed = call.failed
        BY <3>2 DEF Probe, Rest, Same, Within, Legal
      <4> QED BY <4>1, LegalTail DEF Within
    <3> QED BY <1>2, <3>1, <3>2
  <2>2. Idle(call'.todo) /\ call'.todo \in Seq(CallSteps)
    BY <1>1, <2>1
  <2>3. ~Busy(call')
    BY <2>2, TailAt DEF Idle, Busy
  <2>4. "applied" \in Working
    BY DEF Working, Finishing
  <2>5. ~Has(call'.todo, "applied")
    BY <2>2, <2>4 DEF Idle, Has
  <2> QED BY <2>1, <2>2, <2>3, <2>5
<1>3. ASSUME NEW a, Unfolds(Head(call.todo), a), Then(a)
      PROVE  Idle(call'.todo) /\ ~Has(call'.todo, "applied") /\ ~Busy(call') /\ Legal(call')
  <2>1. /\ Replaces(a, call)
        /\ Head(a) \in {"finalize", "drop_replacement", "generate", "journal", "restore_settings"}
    BY <1>3, UnfoldReplaces, UnfoldAt
  <2>2. Within(call') /\ Head(call'.todo) = Head(a)
    BY <1>3, <2>1, ThenMoves
  <2>3. Head(call'.todo) \notin Working
    BY <2>1, <2>2 DEF Working, Applying, Finishing
  <2>4. Idle(call'.todo) /\ ~Busy(call')
    BY <2>2, <2>3, IdleCalls
  <2> QED BY <2>2, <2>4 DEF Idle, Has, Working, Finishing, Within
<1> QED BY <1>2, <1>3

\* The steps that record how far a transaction has come.
Recorded ==
  {"save", "stopped", "written", "started", "applied", "restored", "owned", "own"}

\* What a connect reaches with each of its steps.
LEMMA ConnectGoesOn ==
  ASSUME ControlInv, StoreInv, StoreInv', ServiceInv, ConvergeInv, IntegrationNext, ~EditConfig,
         call # NoCall, call' # NoCall, ~call'.failed, call'.kind = "connect"
  PROVE  ConnectReached(call', txn', plist', loaded', managed', settings', journal')
<1> DEFINE h == Head(call.todo)
<1>1. /\ Within(call) /\ call.kind = "connect" /\ call'.executable = call.executable /\ ~call.failed
      /\ h \in StepsOf("connect")
      /\ \A m \in Milestones("connect") : Precedes(h, m) => Has(call'.todo, m)
      /\ \A m : Has(call.todo, m) => m = h \/ Has(call'.todo, m)
      /\ SettingsStep \/ ServiceStep \/ Ready \/ ConnectConfig \/ ReleaseConfig
  BY Onwards
<1>2. ConnectReached(call, txn, plist, loaded, managed, settings, journal)
  BY <1>1 DEF ConvergeInv
<1>3. \A step : Due(step) => h = step
  BY DEF Due
<1>4. ~Fails(<<>>)
  <2>1. Legal(call)
    BY DEF ControlInv
  <2> QED BY <2>1 DEF Fails, Legal
<1>5. h \notin {"restore_settings", "rollback_settings", "uninstall", "reinstall", "release",
                "commit_uninstall", "observe"}
  BY <1>1 DEF StepsOf, Working, Applying, Finishing
<1>6. \A m : ~Has(call'.todo, m) /\ m # h => ~Has(call.todo, m)
  BY <1>1
<1>p. /\ h \in BeforeInstall => Has(call'.todo, "install")
      /\ h \in BeforeInstall \cup {"install", "ready"} \cup Working => Has(call'.todo, "config")
      /\ h \in BeforeInstall \cup {"install", "ready", "config"} \cup Working =>
           Has(call'.todo, "commit_install")
      /\ h \in BeforeInstall \cup {"install", "ready", "config", "commit_install"} \cup Working =>
           Has(call'.todo, "commit_settings")
  BY <1>1 DEF Milestones, Precedes
\* what the actions leave alone
<1>a. settings' = settings \/ Adopt \/ Probe
  BY <1>1, <1>3, <1>5 DEF SettingsStep, ServiceStep, RecoverMigration, InstallSettings, Begin,
       Generate, CommitSettings, RollbackSettings, RestoreSettings, DropReplacement, Finalize,
       RemoveJournal, Recover, Install, Uninstall, Reinstall, Stop, Replace, Start, Save, RemoveTxn,
       CommitInstall, CommitUninstall, Ready, ConnectConfig, ReleaseConfig, settingsFiles
<1>b. managed' = managed \/ ConnectConfig
  BY <1>1, <1>3, <1>5 DEF SettingsStep, ServiceStep, RecoverMigration, InstallSettings, Begin,
       Generate, Adopt, Probe, CommitSettings, RollbackSettings, RestoreSettings, DropReplacement,
       Finalize, RemoveJournal, Recover, Install, Uninstall, Reinstall, Stop, Replace, Start, Save,
       RemoveTxn, CommitInstall, CommitUninstall, Ready, ReleaseConfig, codex
<1>c. journal' = journal \/ Begin \/ CommitSettings \/ RemoveJournal
  BY <1>1, <1>3, <1>5 DEF SettingsStep, ServiceStep, RecoverMigration, InstallSettings,
       Generate, Adopt, Probe, RollbackSettings, RestoreSettings, DropReplacement,
       Finalize, Recover, Install, Uninstall, Reinstall, Stop, Replace, Start, Save,
       RemoveTxn, CommitInstall, CommitUninstall, Ready, ConnectConfig, ReleaseConfig, settingsFiles
<1>d. \/ /\ UNCHANGED service /\ h \notin Working \cup {"install", "recover", "commit_install"}
         /\ Done \/ Probe \/ \E a : Unfolds(h, a) /\ Then(a)
      \/ Recover /\ h = "recover"
      \/ Install /\ h = "install"
      \/ CommitInstall /\ h = "commit_install"
      \/ (Stop \/ Replace \/ Start \/ RemoveTxn \/ \E step \in Recorded : Save(step)) /\ h \in Working
  <2>1. CASE SettingsStep
    <3>1. UNCHANGED service /\ h \notin Working \cup {"install", "recover", "commit_install"}
      BY <2>1, <1>3 DEF SettingsStep, RecoverMigration, InstallSettings, Begin, Generate, Adopt, Probe,
         CommitSettings, RollbackSettings, RestoreSettings, DropReplacement, Finalize,
         RemoveJournal, Working, Applying, Finishing
    <3>2. Done \/ Probe \/ \E a : Unfolds(h, a) /\ Then(a)
      BY <2>1, <1>3, <1>4 DEF SettingsStep, RecoverMigration, InstallSettings, Begin, Generate, Adopt,
         CommitSettings, RollbackSettings, RestoreSettings, DropReplacement, Finalize,
         RemoveJournal, Unfolds
    <3> QED BY <3>1, <3>2
  <2>2. CASE ServiceStep
    <3>1. ~Uninstall /\ ~Reinstall /\ ~CommitUninstall
      BY <1>3, <1>5 DEF Uninstall, Reinstall, CommitUninstall
    <3>2. Stop \/ Replace \/ Start \/ RemoveTxn \/ (\E step \in Recorded : Save(step)) => h \in Working
      BY <1>3 DEF Stop, Replace, Start, Save, RemoveTxn, Recorded, Working, Applying, Finishing
    <3>3. (Recover => h = "recover") /\ (Install => h = "install") /\ (CommitInstall => h = "commit_install")
      BY <1>3 DEF Recover, Install, CommitInstall
    <3>4. \/ Recover \/ Install \/ CommitInstall
          \/ Stop \/ Replace \/ Start \/ RemoveTxn \/ \E step \in Recorded : Save(step)
      BY <2>2, <3>1 DEF ServiceStep, Recorded
    <3> QED BY <3>2, <3>3, <3>4
  <2>3. CASE Ready \/ ConnectConfig \/ ReleaseConfig
    <3>1. UNCHANGED service /\ h \in {"ready", "config"}
      BY <2>3, <1>3, <1>5 DEF Ready, ConnectConfig, ReleaseConfig
    <3>2. Done
      <4>1. \A a : ~Fails(a)
        BY <1>1 DEF Fails, Within, Legal
      <4> QED BY <2>3, <4>1 DEF Ready, ConnectConfig, ReleaseConfig
    <3> QED BY <3>1, <3>2 DEF Working, Applying, Finishing
  <2> QED BY <1>1, <2>1, <2>2, <2>3
<1>w. ASSUME h \in Working
      PROVE  /\ call'.todo = Tail(call.todo) /\ call'.txn.desired = call.txn.desired
             /\ h # "applied" => Has(call'.todo, "install") \/ Has(call'.todo, "applied")
             /\ call.txn \in Txns
  <2>1. AtWork(call, txn, plist, loaded, original) /\ call.txn \in Txns /\ Busy(call)
    BY <1>1, <1>w DEF ServiceInv, Busy, Within, AtWork
  <2>2. (Stop \/ Replace \/ Start \/ RemoveTxn \/ \E step \in Recorded : Save(step))
    BY <1>d, <1>w DEF Working, Applying, Finishing
  <2>3. CASE Stop \/ Replace \/ Start \/ RemoveTxn
    <3>1. Done
      BY <2>3 DEF Stop, Replace, Start, RemoveTxn
    <3>2. call'.todo = Tail(call.todo) /\ call'.txn = call.txn
      BY <1>1, <3>1, DoneMoves DEF Kept
    <3> QED BY <1>2, <1>6, <1>w, <2>1, <3>2 DEF ConnectReached, Working, Applying, Finishing
  <2>4. ASSUME NEW step \in Recorded, Save(step)
        PROVE  call'.todo = Tail(call.todo) /\ call'.txn.desired = call.txn.desired
    <3>1. call'.todo = Tail(call.todo) /\ call'.txn = Saved(step) /\ h = step
      BY <1>1, <2>4 DEF Save, Rest, Due, Within, Legal
    <3> QED BY <2>1, <2>4, <3>1 DEF Saved, Txns, Recorded
  <2>5. call'.todo = Tail(call.todo) /\ call'.txn.desired = call.txn.desired
    BY <2>2, <2>3, <2>4
  <2>6. h # "applied" => Has(call'.todo, "install") \/ Has(call'.todo, "applied")
    BY <1>2, <1>6, <1>w, <2>1 DEF ConnectReached, Working, Applying, Finishing
  <2> QED BY <2>1, <2>5, <2>6
\* the settings
<1>A. \/ Has(call'.todo, "probe") \/ Has(call'.todo, "adopt") \/ Has(call'.todo, "install_settings")
      \/ settings' # NoSettings
  <2>1. CASE Adopt
    <3>1. \E p \in Ports : settings' = [generation |-> generations, port |-> p]
      BY <2>1 DEF Adopt
    <3>2. settings' \in Settings
      BY <3>1 DEF StoreInv, Settings
    <3> QED BY <3>2, IntegrationConstants
  <2>2. CASE Probe
    <3>1. settings \in Settings
      BY <2>2 DEF Probe, StoreInv, StoreReady
    <3>2. settings' \in Settings
      BY <2>2, <3>1 DEF Probe, Settings
    <3> QED BY <3>2, IntegrationConstants
  <2>3. CASE InstallSettings
    <3>1. CASE IsV3
      BY <2>3, <3>1 DEF IsV3, InstallSettings, settingsFiles
    <3>2. CASE ~IsV3
      <4>1. PICK a : Unfolds(h, a) /\ Then(a) /\ h = "install_settings"
        BY <1>3, <2>3, <3>2 DEF InstallSettings, Unfolds
      <4>2. Good(a) /\ a # <<>> /\ a[Len(a)] = "adopt"
        BY <4>1, UnfoldAt
      <4>3. Len(a) \in 1..Len(a)
        BY <4>2, TailAt DEF Good
      <4>4. Has(a, "adopt")
        BY <4>2, <4>3 DEF Has
      <4>5. Replaces(a, call)
        BY <1>1, <4>1, UnfoldReplaces
      <4>6. Has(call'.todo, "adopt")
        BY <1>1, <4>1, <4>4, <4>5, ThenMoves
      <4> QED BY <4>6
    <3> QED BY <3>1, <3>2
  <2>4. CASE settings' = settings /\ ~Adopt /\ ~Probe /\ ~InstallSettings
    <3>1. h \notin {"probe", "adopt", "install_settings"}
      BY <1>1, <1>3, <2>4 DEF SettingsStep, ServiceStep, RecoverMigration, Begin, Generate,
         CommitSettings, RollbackSettings, RestoreSettings, DropReplacement, Finalize, RemoveJournal,
         Recover, Install, Uninstall, Reinstall, Stop, Replace, Start, Save, RemoveTxn,
         CommitInstall, CommitUninstall, Ready, ConnectConfig, ReleaseConfig
    <3> QED BY <1>2, <1>6, <2>4, <3>1 DEF ConnectReached
  <2> QED BY <1>a, <2>1, <2>2, <2>3, <2>4
\* the service
<1>B. /\ Has(call'.todo, "install") \/ Has(call'.todo, "applied") \/ Up(call', txn', plist', loaded')
      /\ Busy(call') => Has(call'.todo, "install") \/ Has(call'.todo, "applied")
      /\ Has(call'.todo, "applied") => call'.txn.desired = call'.executable
  <2>1. CASE /\ UNCHANGED service /\ h \notin Working \cup {"install", "recover", "commit_install"}
             /\ Done \/ Probe \/ \E a : Unfolds(h, a) /\ Then(a)
    <3>1. ~Has(call'.todo, "applied") /\ ~Busy(call')
      BY <1>1, <2>1, StaysIdle
    <3>2. h # "install" /\ h # "applied"
      BY <2>1 DEF Working, Finishing
    <3>3. Has(call'.todo, "install") \/ Has(call'.todo, "applied") \/ Up(call, txn, plist, loaded)
      BY <1>2, <1>6, <3>2 DEF ConnectReached
    <3> QED BY <1>1, <2>1, <3>1, <3>3 DEF service, Up
  <2>2. CASE Recover /\ h = "recover"
    <3>1. Has(call'.todo, "install")
      BY <1>p, <2>2 DEF BeforeInstall
    <3>2. ~Has(call'.todo, "applied")
      <4>1. h \notin Working
        BY <2>2 DEF Working, Applying, Finishing
      <4>2. CASE Done
        BY <1>1, <4>1, <4>2, StaysIdle
      <4>3. ASSUME NEW t, NEW x, NEW b, NEW a, Opening(b), Concludes("recover", call.mode, a),
                   Applies(t, x, b, a)
            PROVE  ~Has(call'.todo, "applied")
        <5>1. PICK q : q = Section(b, t, a)
          OBVIOUS
        <5>2. \A m : Has(call'.todo, m) <=> Has(q, m) \/ Has(Tail(call.todo), m)
          BY <1>1, <2>2, <4>3, <5>1, AppliesMoves
        <5>3. Idle(Tail(call.todo))
          BY <1>1, <4>1, IdleCalls
        <5>4. Ending(a) /\ a[1] # "applied" /\ a[Len(a)] # "applied"
          BY <4>3 DEF Concludes, Ending
        <5>5. ~Has(q, "applied")
          BY <4>3, <5>1, <5>4, SectionGood DEF Has, Finishing
        <5>6. ~Has(Tail(call.todo), "applied")
          BY <5>3 DEF Has, Idle, Working, Finishing
        <5> QED BY <5>2, <5>5, <5>6
      <4>4. Done \/ \E t, x, b, a : /\ Opening(b) /\ Concludes("recover", call.mode, a)
                                    /\ Applies(t, x, b, a)
        BY <1>4, <2>2, Sections DEF Recover
      <4> QED BY <4>2, <4>3, <4>4
    <3> QED BY <3>1, <3>2
  <2>3. CASE Install /\ h = "install"
    <3>1. h \notin Working /\ UNCHANGED service
      BY <2>3 DEF Install, Working, Applying, Finishing
    <3>2. CASE Done /\ txn # NoTxn /\ txn.desired = call.executable
      <4>1. ~Has(call'.todo, "applied") /\ ~Busy(call')
        BY <1>1, <3>1, <3>2, StaysIdle
      <4>2. plist = txn.desired /\ loaded
        BY <1>1, <2>3, <3>2 DEF ServiceInv, Given, Within
      <4> QED BY <1>1, <3>1, <3>2, <4>1, <4>2 DEF Up, service
    <3>3. ASSUME NEW t, NEW x, Applies(t, x, <<"save">>, <<"applied">>), t.desired = call.executable
          PROVE  Has(call'.todo, "applied") /\ call'.txn.desired = call'.executable
      <4>1. PICK a, b, q : a = <<"applied">> /\ b = <<"save">> /\ q = Section(b, t, a)
        OBVIOUS
      <4>2. Opening(b) /\ Concludes(h, call.mode, a) /\ Applies(t, x, b, a)
        BY <2>3, <3>3, <4>1, Sections
      <4>3. call'.txn = t /\ \A m : Has(call'.todo, m) <=> Has(q, m) \/ Has(Tail(call.todo), m)
        BY <1>1, <4>1, <4>2, AppliesMoves
      <4>4. Ending(a) /\ a[1] = "applied"
        BY <4>1, <4>2 DEF Concludes
      <4>5. Has(q, "applied")
        BY <4>1, <4>2, <4>4, SectionGood
      <4> QED BY <1>1, <3>3, <4>3, <4>5
    <3>4. \/ Done /\ txn # NoTxn /\ txn.desired = call.executable
          \/ \E t, x : Applies(t, x, <<"save">>, <<"applied">>) /\ t.desired = call.executable
      <4>1. CASE txn = NoTxn
        <5>1. PICK t : t = [Owned([plist |-> plist, loaded |-> loaded], call.executable)
                              EXCEPT !.phase = "prepared"]
          OBVIOUS
        <5>2. t.desired = call.executable
          BY <5>1 DEF Owned
        <5> QED BY <1>4, <2>3, <4>1, <5>1, <5>2 DEF Install
      <4>2. CASE txn # NoTxn
        <5>1. PICK t : t = [txn EXCEPT !.rollback = txn.desired, !.rollbackLoaded = txn.desiredLoaded,
                                       !.desired = call.executable, !.desiredLoaded = TRUE,
                                       !.operation = "reconnect", !.phase = "prepared"]
          OBVIOUS
        <5>2. txn \in Txns
          BY <4>2 DEF ServiceInv
        <5>3. t.desired = call.executable
          BY <5>1, <5>2 DEF Txns
        <5> QED BY <2>3, <4>2, <5>1, <5>3 DEF Install
      <4> QED BY <4>1, <4>2
    <3> QED BY <3>2, <3>3, <3>4
  <2>4. CASE CommitInstall /\ h = "commit_install"
    <3>1. Done /\ plist' = plist /\ loaded' = loaded
      BY <1>4, <2>4 DEF CommitInstall
    <3>2. h \notin Working
      BY <2>4 DEF Working, Applying, Finishing
    <3>3. ~Has(call'.todo, "applied") /\ ~Busy(call')
      BY <1>1, <3>1, <3>2, StaysIdle
    <3>4. txn # NoTxn /\ txn \in Txns /\ txn' # NoTxn /\ txn'.desired = txn.desired
      <4>1. txn # NoTxn /\ txn \in Txns
        BY <1>4, <2>4 DEF CommitInstall, ServiceInv
      <4>2. \/ txn' = txn
            \/ txn' = [txn EXCEPT !.operation = "connect", !.phase = "owned"]
        BY <1>4, <2>4 DEF CommitInstall
      <4>3. txn' \in Txns /\ txn'.desired = txn.desired
        BY <4>1, <4>2 DEF Txns
      <4> QED BY <4>1, <4>3, IntegrationConstants
    <3>5. Has(call'.todo, "install") \/ Has(call'.todo, "applied") \/ Up(call, txn, plist, loaded)
      BY <1>2, <1>6, <2>4 DEF ConnectReached
    <3> QED BY <1>1, <3>1, <3>3, <3>4, <3>5 DEF Up
  <2>5. CASE h \in Working
    <3>1. /\ call'.todo = Tail(call.todo) /\ call'.txn.desired = call.txn.desired
          /\ h # "applied" => Has(call'.todo, "install") \/ Has(call'.todo, "applied")
      BY <1>w, <2>5
    <3>2. Has(call'.todo, "applied") => Has(call.todo, "applied")
      BY <1>1, <3>1, TailGood DEF Within, Legal
    <3>3. Has(call'.todo, "applied") => call'.txn.desired = call'.executable
      BY <1>1, <1>2, <3>1, <3>2 DEF ConnectReached
    <3>4. CASE h # "applied"
      BY <3>1, <3>3, <3>4
    <3>5. CASE h = "applied"
      <4>1. Good(call.todo) /\ call.todo # <<>> /\ Idle(call'.todo)
        BY <1>1, <3>1, <3>5, WorkNext DEF Within, Legal
      <4>2. call'.todo \in Seq(CallSteps)
        BY <3>1, <4>1, TailGood DEF Good
      <4>3. ~Busy(call')
        BY <4>1, <4>2, TailAt DEF Idle, Busy
      <4>4. call.todo[1] = "applied" /\ 1 \in 1..Len(call.todo)
        BY <3>5, <4>1, TailAt DEF Good
      <4>5. call.txn.desired = call.executable
        BY <1>2, <4>4 DEF ConnectReached, Has
      <4>6. call.txn.desiredLoaded
        BY <4>4 DEF ServiceInv, Serves, Fits
      <4>7. AtWork(call, txn, plist, loaded, original)
        BY <1>1, <2>5 DEF ServiceInv, Busy, Within
      <4>8. plist = call.txn.desired /\ loaded = call.txn.desiredLoaded /\ call.txn \in Txns
        BY <3>5, <4>7 DEF AtWork, Progress, Finishing
      <4>9. Save("applied")
        <5>1. \/ Stop \/ Replace \/ Start \/ RemoveTxn \/ \E step \in Recorded : Save(step)
          BY <1>d, <2>5, <3>5
        <5> QED BY <1>3, <3>5, <5>1 DEF Stop, Replace, Start, RemoveTxn, Save
      <4>10. txn' = [call.txn EXCEPT !.phase = "applied"] /\ plist' = plist /\ loaded' = loaded
        BY <4>9 DEF Save, Saved
      <4>11. txn' \in Txns /\ txn'.desired = call.txn.desired
        BY <4>8, <4>10 DEF Txns
      <4>12. Up(call', txn', plist', loaded')
        BY <1>1, <4>5, <4>6, <4>8, <4>10, <4>11, IntegrationConstants DEF Up
      <4> QED BY <3>3, <4>3, <4>12
    <3> QED BY <3>4, <3>5
  <2> QED BY <1>d, <2>1, <2>2, <2>3, <2>4, <2>5
\* the configuration
<1>E. Has(call'.todo, "config") \/ Configured(call', managed', settings')
  <2>1. CASE Adopt \/ Probe
    BY <1>3, <1>p, <2>1 DEF Adopt, Probe, BeforeInstall
  <2>2. CASE ConnectConfig
    <3>1. h = "config" /\ settings' = settings
      BY <1>3, <2>2 DEF ConnectConfig, settingsFiles
    <3>2. Heads(call.todo, "config") /\ Good(call.todo)
      BY <1>1 DEF Within, Legal, Staged, Milestones
    <3>3. call.todo[1] = "config" /\ 1 \in 1..Len(call.todo) /\ Len(call.todo) \in Nat
      BY <1>1, <3>1, <3>2, TailAt DEF Within, Good
    <3>4. ~Has(call.todo, "probe") /\ ~Has(call.todo, "adopt") /\ ~Has(call.todo, "install_settings")
      <4>1. ASSUME NEW j \in 1..Len(call.todo), call.todo[j] \in BeforeInstall PROVE FALSE
        <5>1. j # 1 /\ 1 < j
          BY <3>3, <4>1 DEF BeforeInstall
        <5>2. Precedes(call.todo[j], "config")
          BY <4>1 DEF Precedes
        <5> QED BY <3>2, <3>3, <5>1, <5>2 DEF Heads
      <4> QED BY <4>1 DEF Has, BeforeInstall
    <3>5. settings \in Settings /\ settings # NoSettings
      BY <1>2, <3>4 DEF ConnectReached, StoreInv
    <3>6. managed' = [executable |-> call.executable, generation |-> settings.generation,
                      port |-> settings.port]
      <4>1. \A a : ~Fails(a)
        BY <1>1 DEF Fails, Within, Legal
      <4> QED BY <2>2, <4>1 DEF ConnectConfig
    <3>7. managed' \in Configs
      BY <1>1, <3>5, <3>6 DEF Configs, Settings, Within, Legal
    <3> QED BY <1>1, <3>1, <3>5, <3>6, <3>7, IntegrationConstants DEF Configured
  <2>3. CASE settings' = settings /\ managed' = managed /\ ~ConnectConfig
    <3>1. h # "config"
      BY <1>1, <1>3, <2>3 DEF SettingsStep, ServiceStep, RecoverMigration, InstallSettings, Begin,
         Generate, Adopt, Probe, CommitSettings, RollbackSettings, RestoreSettings, DropReplacement,
         Finalize, RemoveJournal, Recover, Install, Uninstall, Reinstall, Stop, Replace, Start, Save,
         RemoveTxn, CommitInstall, CommitUninstall, Ready, ReleaseConfig
    <3> QED BY <1>1, <1>2, <1>6, <2>3, <3>1 DEF ConnectReached, Configured
  <2> QED BY <1>a, <1>b, <2>1, <2>2, <2>3
\* the commits
<1>F. Has(call'.todo, "commit_install") \/ txn'.phase = "owned"
  <2>1. CASE h \in Working \cup {"recover", "install"}
    BY <1>p, <2>1 DEF BeforeInstall
  <2>2. CASE UNCHANGED service /\ h # "commit_install"
    BY <1>2, <1>6, <2>2 DEF ConnectReached, service
  <2>3. CASE CommitInstall /\ h = "commit_install"
    <3>1. /\ txn # NoTxn
          /\ \/ txn'.phase = "owned"
             \/ txn' = [txn EXCEPT !.operation = "connect", !.phase = "owned"]
      BY <1>4, <2>3 DEF CommitInstall
    <3>2. txn \in Txns
      BY <3>1 DEF ServiceInv
    <3> QED BY <3>1, <3>2 DEF Txns
  <2> QED BY <1>d, <2>1, <2>2, <2>3
<1>G. Has(call'.todo, "commit_settings") \/ Has(call'.todo, "unjournal") \/ journal' = NoJournal
  <2>1. CASE Begin
    BY <1>3, <1>p, <2>1 DEF Begin, BeforeInstall
  <2>2. CASE RemoveJournal
    BY <2>2 DEF RemoveJournal
  <2>3. CASE CommitSettings
    <3>1. h = "commit_settings" /\ (journal' = NoJournal \/ Then(<<"finalize", "unjournal">>))
      BY <1>3, <1>4, <2>3 DEF CommitSettings
    <3>2. ASSUME Then(<<"finalize", "unjournal">>) PROVE Has(call'.todo, "unjournal")
      <4>1. PICK a : a = <<"finalize", "unjournal">>
        OBVIOUS
      <4>2. Unfolds(h, a) /\ Then(a)
        BY <3>1, <3>2, <4>1 DEF Unfolds
      <4>3. Replaces(a, call)
        BY <1>1, <4>2, UnfoldReplaces
      <4>4. Has(a, "unjournal")
        BY <4>1 DEF Has
      <4> QED BY <1>1, <4>2, <4>3, <4>4, ThenMoves
    <3> QED BY <3>1, <3>2
  <2>4. CASE journal' = journal /\ ~CommitSettings /\ ~RemoveJournal
    <3>1. h # "commit_settings" /\ h # "unjournal"
      BY <1>1, <1>3, <2>4 DEF SettingsStep, ServiceStep, RecoverMigration, InstallSettings, Begin,
         Generate, Adopt, Probe, RollbackSettings, RestoreSettings, DropReplacement,
         Finalize, Recover, Install, Uninstall, Reinstall, Stop, Replace, Start, Save,
         RemoveTxn, CommitInstall, CommitUninstall, Ready, ConnectConfig, ReleaseConfig
    <3> QED BY <1>2, <1>6, <2>4, <3>1 DEF ConnectReached
  <2> QED BY <1>c, <2>1, <2>2, <2>3, <2>4
<1> QED BY <1>A, <1>B, <1>E, <1>F, <1>G DEF ConnectReached

\* What a disconnect reaches with each of its steps.
LEMMA DisconnectGoesOn ==
  ASSUME ControlInv, ConvergeInv, IntegrationNext, ~EditConfig,
         call # NoCall, call' # NoCall, ~call'.failed, call'.kind = "disconnect"
  PROVE  DisconnectReached(call', txn', managed', journal')
<1> DEFINE h == Head(call.todo)
<1>1. /\ Within(call) /\ call.kind = "disconnect" /\ ~call.failed /\ h \in StepsOf("disconnect")
      /\ \A m \in Milestones("disconnect") : Precedes(h, m) => Has(call'.todo, m)
      /\ \A m : Has(call.todo, m) => m = h \/ Has(call'.todo, m)
      /\ SettingsStep \/ ServiceStep \/ Ready \/ ConnectConfig \/ ReleaseConfig
  BY Onwards
<1>2. DisconnectReached(call, txn, managed, journal)
  BY <1>1 DEF ConvergeInv
<1>3. \A step : Due(step) => h = step
  BY DEF Due
<1>4. \A a : ~Fails(a)
  BY <1>1 DEF Fails, Within, Legal
<1>5. h \notin {"recover_migration", "install_settings", "journal", "generate", "adopt", "probe",
                "install", "ready", "config", "commit_install", "commit_settings", "reinstall",
                "observe"}
  BY <1>1 DEF StepsOf, Working, Applying, Finishing
<1>6. \A m : ~Has(call'.todo, m) /\ m # h => ~Has(call.todo, m)
  BY <1>1
<1>7. /\ h \in {"recover", "uninstall"} \cup Working => Has(call'.todo, "release")
      /\ h \in {"recover", "uninstall", "release"} \cup Working => Has(call'.todo, "commit_uninstall")
      /\ h \in {"recover", "uninstall", "release", "commit_uninstall"} \cup Working =>
           Has(call'.todo, "rollback_settings")
  BY <1>1 DEF Milestones, Precedes
<1>8. Has(call'.todo, "release") \/ managed' = NoConfig
  <2>1. CASE ReleaseConfig
    BY <1>4, <2>1 DEF ReleaseConfig
  <2>2. CASE ~ReleaseConfig
    <3>1. managed' = managed /\ h # "release"
      BY <1>1, <1>3, <1>5, <2>2 DEF SettingsStep, ServiceStep, RecoverMigration, InstallSettings, Begin,
         Generate, Adopt, Probe, CommitSettings, RollbackSettings, RestoreSettings, DropReplacement,
         Finalize, RemoveJournal, Recover, Install, Uninstall, Reinstall, Stop, Replace, Start, Save,
         RemoveTxn, CommitInstall, CommitUninstall, Ready, ConnectConfig, codex
    <3> QED BY <1>2, <1>6, <3>1 DEF DisconnectReached
  <2> QED BY <2>1, <2>2
<1>9. Has(call'.todo, "commit_uninstall") \/ txn' = NoTxn
  <2>1. CASE CommitUninstall
    BY <1>4, <2>1 DEF CommitUninstall
  <2>2. CASE h \in {"recover", "uninstall"} \cup Working
    BY <1>7, <2>2
  <2>3. CASE h \notin {"recover", "uninstall"} \cup Working /\ ~CommitUninstall
    <3>1. ~ServiceStep
      BY <1>3, <1>5, <2>3 DEF ServiceStep, Recover, Install, Uninstall, Reinstall, Stop, Replace, Start,
         Save, RemoveTxn, CommitInstall, Working, Applying, Finishing
    <3>2. txn' = txn /\ h # "commit_uninstall"
      BY <1>1, <1>3, <1>5, <3>1 DEF SettingsStep, RecoverMigration, InstallSettings, Begin,
         Generate, Adopt, Probe, CommitSettings, RollbackSettings, RestoreSettings, DropReplacement,
         Finalize, RemoveJournal, Ready, ConnectConfig, ReleaseConfig, service
    <3> QED BY <1>2, <1>6, <3>2 DEF DisconnectReached
  <2> QED BY <2>1, <2>2, <2>3
<1>10. Has(call'.todo, "rollback_settings") \/ Has(call'.todo, "unjournal") \/ journal' = NoJournal
  <2>1. CASE RemoveJournal
    BY <2>1 DEF RemoveJournal
  <2>2. CASE RollbackSettings
    <3>1. CASE journal = NoJournal
      BY <2>2, <3>1 DEF RollbackSettings, settingsFiles
    <3>2. CASE journal # NoJournal
      <4>1. PICK a : Unfolds(h, a) /\ Then(a) /\ h = "rollback_settings"
        BY <1>3, <1>4, <2>2, <3>2 DEF RollbackSettings, Unfolds
      <4>2. Good(a) /\ a # <<>> /\ a[Len(a)] = "unjournal"
        BY <4>1, UnfoldAt
      <4>3. Len(a) \in 1..Len(a)
        BY <4>2, TailAt DEF Good
      <4>4. Has(a, "unjournal")
        BY <4>2, <4>3 DEF Has
      <4>5. Replaces(a, call)
        BY <1>1, <4>1, UnfoldReplaces
      <4> QED BY <1>1, <4>1, <4>4, <4>5, ThenMoves
    <3> QED BY <3>1, <3>2
  <2>3. CASE ~RollbackSettings /\ ~RemoveJournal
    <3>1. journal' = journal /\ h # "rollback_settings" /\ h # "unjournal"
      BY <1>1, <1>3, <1>5, <2>3 DEF SettingsStep, ServiceStep, RecoverMigration, InstallSettings, Begin,
         Generate, Adopt, Probe, CommitSettings, RestoreSettings, DropReplacement, Finalize, Recover,
         Install, Uninstall, Reinstall, Stop, Replace, Start, Save, RemoveTxn, CommitInstall,
         CommitUninstall, Ready, ConnectConfig, ReleaseConfig, settingsFiles
    <3> QED BY <1>2, <1>6, <3>1 DEF DisconnectReached
  <2> QED BY <2>1, <2>2, <2>3
<1> QED BY <1>8, <1>9, <1>10 DEF DisconnectReached

\* A call that has just begun has everything before it.
LEMMA CallBegins ==
  ASSUME NEW e \in Executables, Connect(e) \/ Disconnect(e) \/ Status(e)
  PROVE  /\ outcome' = "none"
         /\ call'.kind = "connect" =>
              ConnectReached(call', txn', plist', loaded', managed', settings', journal')
         /\ call'.kind = "disconnect" => DisconnectReached(call', txn', managed', journal')
<1>0. outcome' = "none"
  BY DEF Connect, Disconnect, Status
<1>1. CASE Connect(e)
  <2>1. PICK q : q = <<"recover_migration", "install_settings", "probe", "recover", "install",
                       "ready", "config", "commit_install", "commit_settings">>
    OBVIOUS
  <2>2. call'.kind = "connect" /\ call'.todo = q
    BY <1>1, <2>1 DEF Connect, Called
  <2>3. /\ Has(q, "install_settings") /\ Has(q, "install") /\ Has(q, "config")
        /\ Has(q, "commit_install") /\ Has(q, "commit_settings")
    BY <2>1 DEF Has
  <2>4. Idle(q) /\ q \in Seq(CallSteps)
    BY <2>1, ConnectSteps DEF Good
  <2>5. ~Busy(call')
    BY <2>2, <2>4, TailAt DEF Busy, Idle
  <2>6. ~Has(q, "applied")
    BY <2>4 DEF Has, Idle, Working, Finishing
  <2>7. ConnectReached(call', txn', plist', loaded', managed', settings', journal')
    BY <2>2, <2>3, <2>5, <2>6 DEF ConnectReached
  <2> QED BY <1>0, <2>2, <2>7
<1>2. CASE Disconnect(e) /\ call'.kind = "disconnect"
  <2>1. PICK q : q = Releasing
    OBVIOUS
  <2>2. call'.todo = q
    BY <1>2, <2>1 DEF Disconnect, Called
  <2>3. Has(q, "release") /\ Has(q, "commit_uninstall") /\ Has(q, "rollback_settings")
    BY <2>1 DEF Has, Releasing
  <2>4. DisconnectReached(call', txn', managed', journal')
    BY <2>2, <2>3 DEF DisconnectReached
  <2> QED BY <1>0, <1>2, <2>4
<1>3. (Disconnect(e) => call'.kind # "connect") /\ (Status(e) => call'.kind = "status")
  BY DEF Disconnect, Status, Called
<1> QED BY <1>0, <1>1, <1>2, <1>3

\* What a connect and a disconnect have reached when nothing is left to do.
LEMMA CallReturns ==
  ASSUME ControlInv, StoreInv, ServiceInv, ConvergeInv, EndCall
  PROVE  ConvergeInv'
<1>1. call # NoCall /\ call.todo = <<>> /\ call' = NoCall /\ UNCHANGED <<service, settingsFiles, codex>>
  BY DEF EndCall
<1>2. \A m : ~Has(call.todo, m)
  BY <1>1 DEF Has
<1>3. outcome' = "connect" => ~call.failed /\ call.kind = "connect"
  BY <1>1 DEF EndCall
<1>4. outcome' = "disconnect" => ~call.failed /\ call.kind = "disconnect"
  BY <1>1 DEF EndCall
<1>5. ASSUME outcome' = "connect"
      PROVE  /\ loaded /\ txn # NoTxn /\ txn.phase = "owned" /\ plist = txn.desired
             /\ managed # NoConfig /\ Matches(plist) /\ journal = NoJournal
  <2>1. ConnectReached(call, txn, plist, loaded, managed, settings, journal)
    BY <1>1, <1>3, <1>5 DEF ConvergeInv
  <2>2. /\ Up(call, txn, plist, loaded) /\ Configured(call, managed, settings)
        /\ txn.phase = "owned" /\ journal = NoJournal
    BY <1>2, <2>1 DEF ConnectReached
  <2> QED BY <2>2 DEF Up, Configured, Matches
<1>6. ASSUME outcome' = "disconnect"
      PROVE  txn = NoTxn /\ managed = NoConfig /\ journal = NoJournal
  <2>1. DisconnectReached(call, txn, managed, journal)
    BY <1>1, <1>4, <1>6 DEF ConvergeInv
  <2> QED BY <1>2, <2>1 DEF DisconnectReached
<1>7. CallsConverge'
  BY <1>1, <1>5, <1>6 DEF CallsConverge, Matches, service, settingsFiles, codex
<1> QED BY <1>1, <1>7 DEF ConvergeInv

\* Every step keeps what the calls have reached.
LEMMA ConvergeStep ==
  ASSUME ControlInv, StoreInv, StoreInv', ServiceInv, ConvergeInv, IntegrationNext
  PROVE  ConvergeInv'
<1>1. ASSUME NEW e \in Executables, Connect(e) \/ Disconnect(e) \/ Status(e) PROVE ConvergeInv'
  <2>1. /\ outcome' = "none"
        /\ call'.kind = "connect" =>
             ConnectReached(call', txn', plist', loaded', managed', settings', journal')
        /\ call'.kind = "disconnect" => DisconnectReached(call', txn', managed', journal')
    BY <1>1, CallBegins
  <2> QED BY <2>1 DEF ConvergeInv, CallsConverge
<1>2. CASE EndCall
  BY <1>2, CallReturns
<1>3. CASE EditConfig /\ outcome' = "none"
  <2>1. /\ call' = call /\ txn' = txn /\ plist' = plist /\ loaded' = loaded /\ managed' = managed
        /\ settings' = settings /\ journal' = journal
    BY <1>3 DEF EditConfig, service, settingsFiles
  <2> QED BY <1>3, <2>1 DEF ConvergeInv, CallsConverge
<1>4. CASE Unload /\ outcome' = "none"
  BY <1>4 DEF Unload, ConvergeInv, CallsConverge
<1>5. CASE /\ UNCHANGED outcome
           /\ SettingsStep \/ ServiceStep \/ ObserveStatus \/ Ready \/ ConnectConfig \/ ReleaseConfig
              \/ StepFails \/ Crash
  <2>1. call # NoCall
    BY <1>5 DEF SettingsStep, ServiceStep, RecoverMigration, InstallSettings, Begin, Generate, Adopt,
       Probe, CommitSettings, RollbackSettings, RestoreSettings, DropReplacement, Finalize,
       RemoveJournal, Recover, Install, Uninstall, Reinstall, Stop, Replace, Start, Save, RemoveTxn,
       CommitInstall, CommitUninstall, ObserveStatus, Ready, ConnectConfig, ReleaseConfig, StepFails,
       Crash, Due
  <2>2. outcome' = "none"
    BY <1>5, <2>1 DEF ConvergeInv
  <2>3. CASE EditConfig
    BY <1>3, <2>2, <2>3
  <2>4. CASE ~EditConfig
    <3>1. call' # NoCall /\ ~call'.failed /\ call'.kind = "connect" =>
            ConnectReached(call', txn', plist', loaded', managed', settings', journal')
      BY <2>1, <2>4, ConnectGoesOn
    <3>2. call' # NoCall /\ ~call'.failed /\ call'.kind = "disconnect" =>
            DisconnectReached(call', txn', managed', journal')
      BY <2>1, <2>4, DisconnectGoesOn
    <3> QED BY <2>2, <3>1, <3>2 DEF ConvergeInv, CallsConverge
  <2> QED BY <2>3, <2>4
<1> QED BY <1>1, <1>2, <1>3, <1>4, <1>5 DEF IntegrationNext

\* CallsConverge, when a rollback is not itself cut short: a connect that
\* returns without an error has the service, the configuration and the settings
\* at the same values, and a disconnect has given back all three, however many
\* calls failed or crashed before it.
THEOREM CallsAlwaysConverge ==
  ASSUME RollbackFaults = FALSE
  PROVE  IntegrationSpec => []CallsConverge
<1>1. IntegrationInit => ConvergeInv
  BY DEF IntegrationInit, ConvergeInv, CallsConverge
<1>2. /\ ControlInv /\ StoreInv /\ StoreInv' /\ ServiceInv /\ ConvergeInv
      /\ [IntegrationNext]_integrationVars
      => ConvergeInv'
  <2>1. ASSUME ConvergeInv, UNCHANGED integrationVars PROVE ConvergeInv'
    <3>1. /\ call' = call /\ txn' = txn /\ plist' = plist /\ loaded' = loaded /\ managed' = managed
          /\ settings' = settings /\ journal' = journal /\ outcome' = outcome
      BY <2>1 DEF integrationVars, service, settingsFiles, codex
    <3> QED BY <2>1, <3>1 DEF ConvergeInv, CallsConverge, Matches
  <2> QED BY <2>1, ConvergeStep
<1>3. ConvergeInv => CallsConverge
  BY DEF ConvergeInv
<1>4. IntegrationSpec => []ServiceInv
  BY ServiceHolds
<1> QED BY <1>1, <1>2, <1>3, <1>4, ControlHolds, StoreHolds, PTL DEF IntegrationSpec
=============================================================================
