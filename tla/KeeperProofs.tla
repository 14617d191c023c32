---------------------------- MODULE KeeperProofs ----------------------------
(***************************************************************************)
(* No late transaction turns the lifeboat, for every threshold, pool and   *)
(* number of strategies.                                                   *)
(*                                                                         *)
(* Radar and worker share one sequence number, so a landing leaves nothing *)
(* else to land.  An action of the lifeboat is therefore overtaken by at   *)
(* most one turn of the flag, and that turn leaves the flag as the action  *)
(* would set it: a late one changes nothing.                               *)
(***************************************************************************)
EXTENDS Keeper, TLAPS

IsAction(a) ==
  a \in [type: {a.type}, from: {a.from}, to: {a.to}, amount: {a.amount},
         current: BOOLEAN, earned: BOOLEAN]

IsProc(x) == x \in [pc: {x.pc}, todo: {x.todo}, live: {x.live}]

Lifeboat == {"derisk", "resume"}

\* What holds of an action of the lifeboat from its decision on.
Decided(a) ==
  /\ a.type = "derisk" => IF a.current THEN ~derisked /\ memo.streak = 0 ELSE derisked
  /\ a.type = "resume" => IF a.current THEN derisked /\ a.earned ELSE ~derisked

Shapes ==
  /\ proc = [p \in Procs |-> proc[p]] /\ \A p \in Procs : IsProc(proc[p])
  /\ memo.streak \in Nat /\ clear \in Nat /\ derisked \in BOOLEAN

\* The streak counts ledgers of this rescue only.
StreakEarned == derisked => memo.streak <= clear

SentDecided == \A a \in sent : Decided(a)

\* The radar submits one action of the lifeboat.  Once overtaken, no other can
\* land before it.
RadarInv ==
  LET q == proc["radar"].todo
      a == q[1]
  IN /\ proc["radar"].pc \in {"account", "send"} => q # <<>>
     /\ q # <<>> => /\ q = <<a>> /\ IsAction(a) /\ a.type \in Lifeboat /\ Decided(a)
                    /\ ~a.current => \A b \in sent : b.type \notin Lifeboat

\* The worker submits compounds and rebalances only.
WorkerTodo(q) ==
  /\ q \in Seq({q[i] : i \in DOMAIN q})
  /\ \A i \in DOMAIN q : IsAction(q[i]) /\ q[i].type \notin Lifeboat

WorkerInv ==
  /\ WorkerTodo(proc["worker"].todo)
  /\ proc["worker"].pc \in {"account", "send"} => proc["worker"].todo # <<>>

KInv == Shapes /\ StreakEarned /\ SentDecided /\ RadarInv /\ WorkerInv

\* The turn that TimelyTurns allows.
Timely ==
  derisked' # derisked => \E a \in sent : Land(a) /\ a.current /\ (a.type = "resume" => a.earned)

-----------------------------------------------------------------------------
(* Sequences of actions *)

LEMMA PlainAction ==
  ASSUME NEW type, NEW earned \in BOOLEAN
  PROVE  LET a == Plain(type, earned)
         IN IsAction(a) /\ a.type = type /\ a.earned = earned
            /\ a.current = (type \in {"derisk", "resume"})
BY DEF Plain, Action, IsAction

LEMMA OverRange ==
  ASSUME NEW S, NEW q \in Seq(S)
  PROVE  q \in Seq({q[i] : i \in DOMAIN q})
<1> DEFINE R == {q[i] : i \in DOMAIN q}
<1>1. Len(q) \in Nat /\ DOMAIN q = 1..Len(q) /\ \A i \in 1..Len(q) : q[i] \in R
  OBVIOUS
<1>2. q = [i \in 1..Len(q) |-> q[i]]
  OBVIOUS
<1> HIDE DEF R
<1>3. q \in [1..Len(q) -> R]
  BY <1>1, <1>2
<1>4. q \in Seq(R)
  BY <1>1, <1>3
<1> QED BY <1>4 DEF R

LEMMA EmptyTodo == WorkerTodo(<<>>)
BY DEF WorkerTodo

LEMMA SingleTodo ==
  ASSUME NEW a, IsAction(a), a.type \notin Lifeboat
  PROVE  WorkerTodo(<<a>>)
BY DEF WorkerTodo

LEMMA ConcatTodo ==
  ASSUME NEW q, NEW r, WorkerTodo(q), WorkerTodo(r)
  PROVE  WorkerTodo(q \o r)
<1> DEFINE S == {q[i] : i \in DOMAIN q} \cup {r[i] : i \in DOMAIN r}
<1>1. q \in Seq(S) /\ r \in Seq(S)
  BY DEF WorkerTodo
<1>2. q \o r \in Seq(S) /\ Len(q \o r) = Len(q) + Len(r)
  BY <1>1
<1>3. \A i \in DOMAIN (q \o r) : (q \o r)[i] = IF i <= Len(q) THEN q[i] ELSE r[i - Len(q)]
  BY <1>1
<1>4. \A i \in DOMAIN (q \o r) : IsAction((q \o r)[i]) /\ (q \o r)[i].type \notin Lifeboat
  BY <1>1, <1>2, <1>3 DEF WorkerTodo
<1>5. q \o r \in Seq({(q \o r)[i] : i \in DOMAIN (q \o r)})
  BY <1>2, OverRange
<1> QED BY <1>4, <1>5 DEF WorkerTodo

LEMMA TailTodo ==
  ASSUME NEW q, WorkerTodo(q), q # <<>>
  PROVE  WorkerTodo(Tail(q)) /\ IsAction(Head(q)) /\ Head(q).type \notin Lifeboat
<1> DEFINE S == {q[i] : i \in DOMAIN q}
           t == Tail(q)
<1>1. q \in Seq(S) /\ Len(q) \in Nat /\ Len(q) > 0 /\ Head(q) = q[1] /\ 1 \in DOMAIN q
  BY DEF WorkerTodo
<1>2. t \in Seq(S) /\ Len(t) = Len(q) - 1
  BY <1>1
<1>3. \A i \in DOMAIN t : t[i] = q[i + 1] /\ i + 1 \in DOMAIN q
  BY <1>1, <1>2
<1>4. \A i \in DOMAIN t : IsAction(t[i]) /\ t[i].type \notin Lifeboat
  BY <1>3 DEF WorkerTodo
<1>5. t \in Seq({t[i] : i \in DOMAIN t})
  BY <1>2, OverRange
<1> QED BY <1>1, <1>4, <1>5 DEF WorkerTodo

-----------------------------------------------------------------------------
(* Steps that leave the flag alone *)

LEMMA ProcStep ==
  ASSUME Shapes, NEW p \in Procs, NEW x, IsProc(x), proc' = [proc EXCEPT ![p] = x]
  PROVE  /\ proc' = [r \in Procs |-> proc'[r]] /\ \A r \in Procs : IsProc(proc'[r])
         /\ proc'[p] = x /\ \A r \in Procs : r # p => proc'[r] = proc[r]
<1>1. \A r \in Procs : proc'[r] = IF r = p THEN x ELSE proc[r]
  BY DEF Shapes
<1>2. proc' = [r \in Procs |-> proc'[r]]
  BY DEF Shapes
<1> QED BY <1>1, <1>2 DEF Shapes

LEMMA IdleProc == IsProc(Idle) /\ Idle.pc = "idle" /\ Idle.todo = <<>>
BY DEF IsProc, Idle

LEMMA SameFlag ==
  ASSUME UNCHANGED vars
  PROVE  derisked' = derisked
BY DEF vars, lifeboatVars

\* Nothing but the market, the mandate or what was read has changed.
LEMMA NothingMoved ==
  ASSUME KInv, UNCHANGED <<derisked, memo, proc, clear>>, sent' \subseteq sent
  PROVE  KInv' /\ Timely
<1>1. Shapes' /\ StreakEarned'
  BY DEF KInv, Shapes, StreakEarned
<1>2. SentDecided' /\ RadarInv' /\ WorkerInv'
  BY DEF KInv, SentDecided, RadarInv, WorkerInv, Decided
<1> QED BY <1>1, <1>2 DEF KInv, Timely

\* Each await of the evaluation leaves the radar waiting for the next.
LEMMA ReadKeeps ==
  ASSUME KInv, NEW from, NEW to \in {"liquidity", "price", "vault"}, Reads(from, to)
  PROVE  KInv' /\ Timely
<1> DEFINE x == [proc["radar"] EXCEPT !.pc = to]
<1>1. proc' = [proc EXCEPT !["radar"] = x] /\ UNCHANGED <<derisked, memo, sent, clear>>
  BY SameFlag DEF Reads
<1>2. "radar" \in Procs /\ "worker" \in Procs
  BY DEF Procs
<1>3. IsProc(proc["radar"])
  BY <1>2 DEF KInv, Shapes
<1>4. IsProc(x) /\ x.pc = to /\ x.todo = proc["radar"].todo
  BY <1>3 DEF IsProc
<1> HIDE DEF x
<1>5. /\ proc' = [r \in Procs |-> proc'[r]] /\ \A r \in Procs : IsProc(proc'[r])
      /\ proc'["radar"] = x /\ proc'["worker"] = proc["worker"]
  BY <1>1, <1>2, <1>4, ProcStep DEF KInv
<1>6. Shapes' /\ StreakEarned' /\ SentDecided'
  BY <1>1, <1>5 DEF KInv, Shapes, StreakEarned, SentDecided, Decided
<1>7. RadarInv'
  BY <1>1, <1>4, <1>5 DEF KInv, RadarInv, Decided
<1>8. WorkerInv'
  BY <1>5 DEF KInv, WorkerInv
<1> QED BY <1>1, <1>6, <1>7, <1>8 DEF KInv, Timely

\* The radar's evaluation ends without an action: skipped, normal or restarted.
LEMMA RadarIdles ==
  ASSUME KInv, proc' = [proc EXCEPT !["radar"] = Idle], UNCHANGED <<derisked, sent>>,
         memo'.streak \in Nat, clear' \in Nat, derisked => memo'.streak <= clear',
         ~derisked => memo'.streak = 0 \/ memo'.streak = memo.streak
  PROVE  KInv' /\ Timely
<1>1. "radar" \in Procs /\ "worker" \in Procs
  BY DEF Procs
<1>2. /\ proc' = [r \in Procs |-> proc'[r]] /\ \A r \in Procs : IsProc(proc'[r])
      /\ proc'["radar"] = Idle /\ proc'["worker"] = proc["worker"]
  BY <1>1, ProcStep, IdleProc DEF KInv
<1>3. Shapes' /\ StreakEarned'
  BY <1>2 DEF KInv, Shapes, StreakEarned
<1>4. SentDecided'
  BY DEF KInv, SentDecided, Decided
<1>5. RadarInv' /\ WorkerInv'
  BY <1>2, IdleProc DEF KInv, RadarInv, WorkerInv
<1> QED BY <1>3, <1>4, <1>5 DEF KInv, Timely

\* The streak after an evaluation, and the ledgers it has really been clear.
LEMMA StreakFacts ==
  ASSUME KInv, NEW s
  PROVE  LET seen == IF derisked /\ isNormal(s) THEN Capped(clear + 1) ELSE 0
             k == Capped(Streak(s))
         IN /\ seen \in Nat /\ k \in Nat
            /\ derisked => k <= seen
            /\ ~derisked => k = 0
            /\ derisked /\ Streak(s) >= AllClear => seen = AllClear
<1> DEFINE n == derisked /\ isNormal(s)
<1>1. /\ memo.streak \in Nat /\ clear \in Nat /\ AllClear \in Nat \ {0}
      /\ derisked => memo.streak <= clear
  BY KeeperAssumption DEF KInv, Shapes, StreakEarned
<1>2. Streak(s) = IF n THEN memo.streak + 1 ELSE 0
  BY DEF Streak
<1> HIDE DEF n
<1>3. CASE n
  <2>1. derisked
    BY <1>3 DEF n
  <2> QED BY <1>1, <1>2, <1>3, <2>1 DEF Capped, n
<1>4. CASE ~n
  BY <1>1, <1>2, <1>4 DEF Capped, n
<1> QED BY <1>3, <1>4

LEMMA WithTodo ==
  ASSUME NEW i, IsProc(i), NEW q
  PROVE  LET x == [i EXCEPT !.pc = "account", !.todo = q]
         IN IsProc(x) /\ x.pc = "account" /\ x.todo = q
BY DEF IsProc

LEMMA NewProc ==
  ASSUME NEW q
  PROVE  LET x == [Idle EXCEPT !.pc = "account", !.todo = q]
         IN IsProc(x) /\ x.pc = "account" /\ x.todo = q
BY IdleProc, WithTodo

\* The radar decides to act.
LEMMA RadarActs ==
  ASSUME KInv, UNCHANGED <<derisked, sent>>, NEW a,
         proc' = [proc EXCEPT !["radar"] = [Idle EXCEPT !.pc = "account", !.todo = <<a>>]],
         memo'.streak \in Nat, clear' \in Nat, derisked => memo'.streak <= clear',
         ~derisked => memo'.streak = 0,
         IsAction(a), a.current, a.type = (IF derisked THEN "resume" ELSE "derisk"),
         derisked => a.earned
  PROVE  KInv' /\ Timely
<1> DEFINE x == [Idle EXCEPT !.pc = "account", !.todo = <<a>>]
<1>1. "radar" \in Procs /\ "worker" \in Procs
  BY DEF Procs
<1>2. IsProc(x) /\ x.pc = "account" /\ x.todo = <<a>>
  BY NewProc
<1> HIDE DEF x
<1>3. /\ proc' = [r \in Procs |-> proc'[r]] /\ \A r \in Procs : IsProc(proc'[r])
      /\ proc'["radar"] = x /\ proc'["worker"] = proc["worker"]
  BY <1>1, <1>2, ProcStep DEF KInv, x
<1>4. Shapes' /\ StreakEarned'
  BY <1>3 DEF KInv, Shapes, StreakEarned
<1>5. SentDecided'
  BY DEF KInv, SentDecided, Decided
<1>6. Decided(a)' /\ a.type \in Lifeboat
  BY DEF Decided, Lifeboat
<1>7. x.todo[1] = a /\ x.todo # <<>>
  BY <1>2
<1>8. RadarInv'
  BY <1>2, <1>3, <1>6, <1>7 DEF RadarInv
<1>9. WorkerInv'
  BY <1>3 DEF KInv, WorkerInv
<1> QED BY <1>4, <1>5, <1>8, <1>9 DEF KInv, Timely

LEMMA TickKeeps ==
  ASSUME KInv, radarTick
  PROVE  KInv' /\ Timely
<1> DEFINE s == signals
           seen == IF derisked /\ isNormal(s) THEN Capped(clear + 1) ELSE 0
           k == Capped(Streak(s))
           a == Plain(IF derisked THEN "resume" ELSE "derisk", seen = AllClear)
           todo == decideLifeboat(s, Streak(s), seen = AllClear)
           x == [Idle EXCEPT !.pc = "account", !.todo = todo]
<1>1. /\ memo' = [prevLiq |-> s.liq, streak |-> k] /\ clear' = seen
      /\ proc' = [proc EXCEPT !["radar"] = IF todo = <<>> THEN Idle ELSE x]
      /\ UNCHANGED <<derisked, sent>>
  BY SameFlag DEF radarTick
<1>2. memo'.streak = k
  BY <1>1
<1>3. /\ seen \in Nat /\ k \in Nat /\ (derisked => k <= seen)
      /\ ~derisked => k = 0
      /\ derisked /\ Streak(s) >= AllClear => seen = AllClear
  BY StreakFacts
<1>4. todo = <<>> \/ (todo = <<a>> /\ (derisked => seen = AllClear))
  BY <1>3 DEF decideLifeboat
<1>5. /\ IsAction(a) /\ a.type = (IF derisked THEN "resume" ELSE "derisk")
      /\ a.earned = (seen = AllClear) /\ a.current = TRUE
  BY PlainAction
<1>6. /\ memo'.streak \in Nat /\ clear' \in Nat /\ (derisked => memo'.streak <= clear')
      /\ ~derisked => memo'.streak = 0
  BY <1>1, <1>2, <1>3
<1>7. UNCHANGED <<derisked, sent>>
  BY <1>1
<1>8. CASE todo = <<>>
  <2>1. proc' = [proc EXCEPT !["radar"] = Idle]
    BY <1>1, <1>8
  <2> QED BY <1>6, <1>7, <2>1, RadarIdles
<1>9. CASE todo = <<a>> /\ (derisked => seen = AllClear)
  <2>1. a.current /\ (derisked => a.earned)
    BY <1>5, <1>9
  <2> HIDE DEF a, todo, k, seen
  <2>2. <<a>> # <<>>
    OBVIOUS
  <2>3. proc' = [proc EXCEPT !["radar"] = [Idle EXCEPT !.pc = "account", !.todo = <<a>>]]
    BY <1>1, <1>9, <2>2
  <2> QED BY <1>5, <1>6, <1>7, <2>1, <2>3, RadarActs
<1> QED BY <1>4, <1>8, <1>9

LEMMA RestartKeeps ==
  ASSUME KInv, RestartRadar
  PROVE  KInv' /\ Timely
<1>1. memo' = [prevLiq |-> None, streak |-> 0] /\ UNCHANGED <<derisked, sent, clear>>
  BY SameFlag DEF RestartRadar
<1>2. memo'.streak = 0 /\ clear \in Nat
  BY <1>1 DEF KInv, Shapes
<1> QED BY <1>1, <1>2, RadarIdles DEF RestartRadar

LEMMA SkipKeeps ==
  ASSUME KInv, SkipTick
  PROVE  KInv' /\ Timely
<1>1. UNCHANGED <<derisked, memo, sent, clear>> /\ proc' = [proc EXCEPT !["radar"] = Idle]
  BY SameFlag DEF SkipTick
<1> QED BY <1>1, RadarIdles DEF KInv, Shapes, StreakEarned

\* The worker moves on: what it sends, and has left, is not the lifeboat's.
LEMMA WorkerMoves ==
  ASSUME KInv, NEW x, IsProc(x), proc' = [proc EXCEPT !["worker"] = x],
         WorkerTodo(x.todo), x.pc \in {"account", "send"} => x.todo # <<>>,
         UNCHANGED <<derisked, memo, clear>>,
         \A b \in sent' : b \in sent \/ b.type \notin Lifeboat
  PROVE  KInv' /\ Timely
<1>1. "radar" \in Procs /\ "worker" \in Procs
  BY DEF Procs
<1>2. /\ proc' = [r \in Procs |-> proc'[r]] /\ \A r \in Procs : IsProc(proc'[r])
      /\ proc'["worker"] = x /\ proc'["radar"] = proc["radar"]
  BY <1>1, ProcStep DEF KInv
<1>3. Shapes' /\ StreakEarned'
  BY <1>2 DEF KInv, Shapes, StreakEarned
<1>4. SentDecided'
  BY DEF KInv, SentDecided, Decided, Lifeboat
<1>5. RadarInv'
  BY <1>2 DEF KInv, RadarInv, Decided
<1>6. WorkerInv'
  BY <1>2 DEF WorkerInv
<1> QED BY <1>3, <1>4, <1>5, <1>6 DEF KInv, Timely

LEMMA ScheduledKeeps ==
  ASSUME KInv, Scheduled
  PROVE  KInv' /\ Timely
<1> PICK from \in Registered, to \in Registered :
      LET todo == decideCompound(pos) \o decideRebalance(from, to)
      IN /\ todo # <<>>
         /\ proc' = [proc EXCEPT !["worker"] = [Idle EXCEPT !.pc = "account", !.todo = todo]]
  BY DEF Scheduled
<1> DEFINE c == decideCompound(pos)
           d == decideRebalance(from, to)
           q == c \o d
           x == [Idle EXCEPT !.pc = "account", !.todo = q]
<1>1. WorkerTodo(c)
  <2> DEFINE a == Plain("compound", FALSE)
  <2>1. c = <<>> \/ c = <<a>>
    BY DEF decideCompound
  <2>2. IsAction(a) /\ a.type = "compound"
    BY PlainAction
  <2> HIDE DEF a, c
  <2>3. a.type \notin Lifeboat
    BY <2>2 DEF Lifeboat
  <2> QED BY <2>1, <2>2, <2>3, EmptyTodo, SingleTodo
<1>2. WorkerTodo(d)
  <2> DEFINE a == Action("rebalance", from, to, RebalanceAmount(from, to), FALSE)
  <2>1. d = <<>> \/ d = <<a>>
    BY DEF decideRebalance
  <2>2. IsAction(a) /\ a.type \notin Lifeboat
    BY DEF Action, IsAction, Lifeboat
  <2> HIDE DEF a, d
  <2> QED BY <2>1, <2>2, EmptyTodo, SingleTodo
<1>3. q # <<>> /\ proc' = [proc EXCEPT !["worker"] = x] /\ UNCHANGED <<derisked, memo, sent, clear>>
  BY SameFlag DEF Scheduled
<1> HIDE DEF c, d
<1>4. WorkerTodo(q)
  BY <1>1, <1>2, ConcatTodo
<1> HIDE DEF q
<1>5. IsProc(x) /\ x.todo = q
  BY NewProc
<1> HIDE DEF x
<1> QED BY <1>3, <1>4, <1>5, WorkerMoves

LEMMA AccountKeeps ==
  ASSUME KInv, NEW p \in Procs, GetAccount(p)
  PROVE  KInv' /\ Timely
<1> DEFINE x == [proc[p] EXCEPT !.pc = "send", !.live = TRUE]
<1>1. /\ proc[p].pc = "account" /\ proc' = [proc EXCEPT ![p] = x]
      /\ UNCHANGED <<derisked, memo, sent, clear>>
  BY SameFlag DEF GetAccount
<1>2. IsProc(proc[p])
  BY DEF KInv, Shapes
<1>3. IsProc(x) /\ x.todo = proc[p].todo
  BY <1>2 DEF IsProc
<1> HIDE DEF x
<1>4. CASE p = "worker"
  BY <1>1, <1>3, <1>4, WorkerMoves DEF KInv, WorkerInv
<1>5. CASE p = "radar"
  <2>1. "worker" \in Procs
    BY DEF Procs
  <2>2. /\ proc' = [r \in Procs |-> proc'[r]] /\ \A r \in Procs : IsProc(proc'[r])
        /\ proc'["radar"] = x /\ proc'["worker"] = proc["worker"]
    BY <1>1, <1>3, <1>5, <2>1, ProcStep DEF KInv
  <2>3. Shapes' /\ StreakEarned' /\ SentDecided'
    BY <1>1, <2>2 DEF KInv, Shapes, StreakEarned, SentDecided, Decided
  <2>4. RadarInv'
    BY <1>1, <1>3, <1>5, <2>2 DEF KInv, RadarInv, Decided
  <2>5. WorkerInv'
    BY <2>2 DEF KInv, WorkerInv
  <2> QED BY <1>1, <2>3, <2>4, <2>5 DEF KInv, Timely
<1> QED BY <1>4, <1>5 DEF Procs

LEMMA SendKeeps ==
  ASSUME KInv, NEW p \in Procs, SendTransaction(p)
  PROVE  KInv' /\ Timely
<1> DEFINE q == proc[p].todo
           x == Over(p)
<1>1. /\ proc[p].pc = "send" /\ proc' = [proc EXCEPT ![p] = x]
      /\ sent' = sent \/ sent' = sent \cup {Head(q)}
      /\ UNCHANGED <<derisked, memo, clear>>
  BY SameFlag DEF SendTransaction
<1>2. \/ Tail(q) = <<>> /\ x = Idle
      \/ Tail(q) # <<>> /\ x = [pc |-> "account", todo |-> Tail(q), live |-> FALSE]
  BY DEF Over
<1> HIDE DEF q, x
<1>3. IsProc(x) /\ x.todo = Tail(q) /\ (x.pc \in {"account", "send"} => x.todo # <<>>)
  <2> DEFINE t == Tail(q)
  <2> HIDE DEF t
  <2>1. CASE t = <<>> /\ x = Idle
    BY <2>1, IdleProc DEF t
  <2>2. CASE t # <<>> /\ x = [pc |-> "account", todo |-> t, live |-> FALSE]
    <3>1. IsProc(x) /\ x.todo = t
      BY <2>2 DEF IsProc
    <3> QED BY <2>2, <3>1 DEF t
  <2> QED BY <1>2, <2>1, <2>2 DEF t
<1>4. CASE p = "worker"
  <2>1. WorkerTodo(q) /\ q # <<>>
    BY <1>1, <1>4 DEF KInv, WorkerInv, q
  <2>2. WorkerTodo(Tail(q)) /\ Head(q).type \notin Lifeboat
    BY <2>1, TailTodo
  <2> QED BY <1>1, <1>3, <1>4, <2>2, WorkerMoves
<1>5. CASE p = "radar"
  <2> DEFINE a == q[1]
  <2>1. /\ q = <<a>> /\ Decided(a)
    BY <1>1, <1>5 DEF KInv, RadarInv, q
  <2> HIDE DEF a
  <2>2. Head(q) = a /\ Tail(q) = <<>>
    BY <2>1
  <2>3. "worker" \in Procs
    BY DEF Procs
  <2>4. /\ proc' = [r \in Procs |-> proc'[r]] /\ \A r \in Procs : IsProc(proc'[r])
        /\ proc'["radar"] = x /\ proc'["worker"] = proc["worker"]
    BY <1>1, <1>3, <1>5, <2>3, ProcStep DEF KInv
  <2>5. Shapes' /\ StreakEarned'
    BY <1>1, <2>4 DEF KInv, Shapes, StreakEarned
  <2>6. SentDecided'
    BY <1>1, <2>1, <2>2 DEF KInv, SentDecided, Decided
  <2>7. RadarInv' /\ WorkerInv'
    BY <1>3, <2>2, <2>4 DEF KInv, RadarInv, WorkerInv
  <2> QED BY <1>1, <2>5, <2>6, <2>7 DEF KInv, Timely
<1> QED BY <1>4, <1>5 DEF Procs

-----------------------------------------------------------------------------
(* A landing *)

\* Which calls turn the flag.
LEMMA CallTurns ==
  ASSUME NEW a, Executes(a), derisked \in BOOLEAN
  PROVE  /\ derisked' \in BOOLEAN
         /\ derisked' # derisked =>
              \/ a.type = "derisk" /\ ~derisked /\ derisked'
              \/ a.type = "resume" /\ derisked /\ ~derisked'
<1> DEFINE z == [s \in Registered |-> 0]
<1>1. CASE a.type = "derisk" /\ emergency_derisk
  BY <1>1 DEF emergency_derisk
<1>2. CASE a.type = "resume" /\ resume
  BY <1>2 DEF resume
<1>3. CASE a.type = "compound" /\ compound(z, z, z)
  <2>1. UNCHANGED lifeboatVars
    BY <1>3 DEF compound
  <2> QED BY <2>1 DEF lifeboatVars
<1>4. CASE a.type = "rebalance" /\ rebalance(a.from, a.to, a.amount)
  <2>1. UNCHANGED lifeboatVars
    BY <1>4 DEF rebalance
  <2> QED BY <2>1 DEF lifeboatVars
<1>5. CASE UNCHANGED vars
  BY <1>5, SameFlag
<1> QED BY <1>1, <1>2, <1>3, <1>4, <1>5 DEF Executes

\* What a landing does to an action that waits.
Restamp(a) == IF derisked' = derisked THEN a ELSE [a EXCEPT !.current = FALSE]

LEMMA Restamped ==
  ASSUME NEW a, IsAction(a)
  PROVE  /\ IsAction(Restamp(a)) /\ Restamp(a).type = a.type /\ Restamp(a).earned = a.earned
         /\ derisked' = derisked => Restamp(a) = a
         /\ derisked' # derisked => ~Restamp(a).current
<1> DEFINE b == [a EXCEPT !.current = FALSE]
<1>1. IsAction(b) /\ b.type = a.type /\ b.earned = a.earned /\ b.current = FALSE
  BY DEF IsAction
<1> HIDE DEF b
<1>2. Restamp(a) = IF derisked' = derisked THEN a ELSE b
  BY DEF Restamp, b
<1> QED BY <1>1, <1>2

LEMMA WorkerRestamped ==
  ASSUME NEW q, WorkerTodo(q)
  PROVE  /\ WorkerTodo([i \in DOMAIN q |-> Restamp(q[i])])
         /\ q # <<>> => [i \in DOMAIN q |-> Restamp(q[i])] # <<>>
<1> DEFINE r == [i \in DOMAIN q |-> Restamp(q[i])]
           S == {Restamp(q[i]) : i \in DOMAIN q}
<1>1. Len(q) \in Nat /\ DOMAIN q = 1..Len(q)
  BY DEF WorkerTodo
<1>2. r \in [1..Len(q) -> S]
  BY <1>1
<1>3. r \in Seq(S) /\ DOMAIN r = DOMAIN q
  BY <1>1, <1>2
<1>4. r \in Seq({r[i] : i \in DOMAIN r})
  BY <1>3, OverRange
<1>5. \A i \in DOMAIN r : IsAction(r[i]) /\ r[i].type \notin Lifeboat
  BY <1>3, Restamped DEF WorkerTodo
<1>6. q # <<>> => r # <<>>
  <2>1. q # <<>> => Len(q) # 0
    BY DEF WorkerTodo
  <2>2. r = <<>> => DOMAIN r = {}
    OBVIOUS
  <2> QED BY <1>1, <1>3, <2>1, <2>2
<1> QED BY <1>4, <1>5, <1>6 DEF WorkerTodo

LEMMA LandKeeps ==
  ASSUME KInv, NEW a \in sent, Land(a)
  PROVE  KInv' /\ Timely
<1> DEFINE stamped(p) == [i \in DOMAIN proc[p].todo |-> Restamp(proc[p].todo[i])]
<1>1. /\ Executes(a) /\ sent' = {} /\ memo' = memo
      /\ clear' = IF derisked' = derisked THEN clear ELSE 0
      /\ proc' = [p \in Procs |-> [proc[p] EXCEPT !.live = FALSE, !.todo = stamped(p)]]
  BY DEF Land, Restamp
<1>2. /\ derisked \in BOOLEAN /\ Decided(a) /\ memo.streak \in Nat /\ clear \in Nat
      /\ \A p \in Procs : IsProc(proc[p])
  BY DEF KInv, Shapes, SentDecided
<1>3. /\ derisked' \in BOOLEAN
      /\ derisked' # derisked =>
           \/ a.type = "derisk" /\ ~derisked /\ derisked'
           \/ a.type = "resume" /\ derisked /\ ~derisked'
  BY <1>1, <1>2, CallTurns
<1>4. Timely
  BY <1>2, <1>3 DEF Timely, Decided
<1>5. derisked' # derisked /\ derisked' => memo.streak = 0
  BY <1>2, <1>3 DEF Decided
<1>6. ASSUME NEW p \in Procs
      PROVE  IsProc(proc'[p]) /\ proc'[p].pc = proc[p].pc /\ proc'[p].todo = stamped(p)
  <2> DEFINE q == stamped(p)
  <2> HIDE DEF q
  <2>1. proc'[p] = [proc[p] EXCEPT !.live = FALSE, !.todo = q]
    BY <1>1 DEF q
  <2>2. IsProc(proc'[p]) /\ proc'[p].pc = proc[p].pc /\ proc'[p].todo = q
    BY <1>2, <2>1 DEF IsProc
  <2> QED BY <2>2 DEF q
<1>7. Shapes'
  BY <1>1, <1>2, <1>3, <1>6 DEF Shapes
<1>8. StreakEarned'
  <2>1. CASE derisked' = derisked
    BY <1>1, <2>1 DEF KInv, StreakEarned
  <2>2. CASE derisked' # derisked
    <3>1. clear' = 0
      BY <1>1, <2>2
    <3>2. derisked' => memo'.streak = 0
      BY <1>1, <1>5, <2>2
    <3> QED BY <3>1, <3>2 DEF StreakEarned
  <2> QED BY <2>1, <2>2
<1>9. SentDecided'
  BY <1>1 DEF SentDecided
<1>10. WorkerInv'
  <2>1. "worker" \in Procs
    BY DEF Procs
  <2> QED BY <1>6, <2>1, WorkerRestamped DEF KInv, WorkerInv
<1>11. RadarInv'
  <2> DEFINE q == proc["radar"].todo
             b == q[1]
             c == Restamp(b)
  <2>1. "radar" \in Procs
    BY DEF Procs
  <2>2. proc'["radar"].pc = proc["radar"].pc /\ proc'["radar"].todo = stamped("radar")
    BY <1>6, <2>1
  <2>3. CASE q = <<>>
    <3>1. stamped("radar") = <<>>
      BY <2>3
    <3> QED BY <2>2, <2>3, <3>1 DEF KInv, RadarInv
  <2>4. CASE q # <<>>
    <3>1. /\ q = <<b>> /\ IsAction(b) /\ b.type \in Lifeboat /\ Decided(b)
          /\ ~b.current => \A d \in sent : d.type \notin Lifeboat
      BY <2>4 DEF KInv, RadarInv
    <3>2. stamped("radar") = <<c>>
      BY <3>1
    <3>3. /\ IsAction(c) /\ c.type = b.type /\ c.earned = b.earned
          /\ derisked' = derisked => c = b
          /\ derisked' # derisked => ~c.current
      BY <3>1, Restamped
    <3> HIDE DEF c
    <3>4. derisked' # derisked => b.current
      BY <1>3, <3>1 DEF Lifeboat
    <3>5. /\ c.type = "derisk" => IF c.current THEN ~derisked' /\ memo'.streak = 0 ELSE derisked'
          /\ c.type = "resume" => IF c.current THEN derisked' /\ c.earned ELSE ~derisked'
      <4>1. CASE derisked' = derisked
        BY <1>1, <3>1, <3>3, <4>1 DEF Decided
      <4>2. CASE derisked' # derisked
        BY <1>2, <1>3, <3>1, <3>3, <3>4, <4>2 DEF Decided
      <4> QED BY <4>1, <4>2
    <3>6. proc'["radar"].todo[1] = c /\ proc'["radar"].todo = <<c>> /\ <<c>> # <<>>
      BY <2>2, <3>2
    <3> QED BY <1>1, <3>1, <3>3, <3>5, <3>6 DEF RadarInv, Decided
  <2> QED BY <2>3, <2>4
<1> QED BY <1>4, <1>7, <1>8, <1>9, <1>10, <1>11 DEF KInv

-----------------------------------------------------------------------------
(* The theorem *)

LEMMA InitKInv == KeeperInit => KInv
<1> SUFFICES ASSUME KeeperInit PROVE KInv
  OBVIOUS
<1>1. /\ memo = [prevLiq |-> None, streak |-> 0] /\ sent = {} /\ clear = 0 /\ derisked = FALSE
      /\ proc = [p \in Procs |-> Idle]
  BY DEF KeeperInit
<1>2. memo.streak = 0 /\ \A p \in Procs : proc[p] = Idle
  BY <1>1
<1>3. Shapes /\ StreakEarned /\ SentDecided
  BY <1>1, <1>2, IdleProc DEF Shapes, StreakEarned, SentDecided
<1>4. proc["radar"] = Idle /\ proc["worker"] = Idle
  BY <1>2 DEF Procs
<1>5. RadarInv /\ WorkerInv
  BY <1>4, IdleProc, EmptyTodo DEF RadarInv, WorkerInv
<1> QED BY <1>3, <1>5 DEF KInv

LEMMA StepKeeps ==
  ASSUME KInv, [KeeperNext]_allVars
  PROVE  KInv' /\ Timely
<1>0. CASE ReadUtilization \/ ReadLiquidity \/ ReadPrice
  BY <1>0, ReadKeeps DEF ReadUtilization, ReadLiquidity, ReadPrice
<1>1. CASE SkipTick \/ radarTick \/ RestartRadar \/ Scheduled
  BY <1>1, SkipKeeps, TickKeeps, RestartKeeps, ScheduledKeeps
<1>2. CASE \E p \in Procs : GetAccount(p) \/ SendTransaction(p)
  BY <1>2, AccountKeeps, SendKeeps
<1>3. CASE \E a \in sent : Land(a)
  BY <1>3, LandKeeps
<1>4. CASE \E a \in sent : Expire(a)
  <2>1. sent' \subseteq sent /\ UNCHANGED <<derisked, memo, proc, clear>>
    BY <1>4, SameFlag DEF Expire
  <2> QED BY <2>1, NothingMoved
<1>5. CASE MarketMoves
  <2>1. UNCHANGED <<derisked, memo, proc, clear, sent>>
    BY <1>5, SameFlag DEF MarketMoves
  <2> QED BY <2>1, NothingMoved
<1>6. CASE MandateStep \/ PoolMoves
  <2>1. UNCHANGED <<derisked, memo, proc, clear, sent>>
    BY <1>6 DEF MandateStep, set_mandate, PoolMoves, PoolChanges, envFrame, lifeboatVars,
                keeperVars
  <2> QED BY <2>1, NothingMoved
<1>7. CASE UNCHANGED allVars
  <2>1. UNCHANGED vars /\ UNCHANGED <<memo, proc, clear, sent>>
    BY <1>7 DEF allVars, keeperVars
  <2>2. derisked' = derisked
    BY <2>1, SameFlag
  <2> QED BY <2>1, <2>2, NothingMoved
<1> QED BY <1>0, <1>1, <1>2, <1>3, <1>4, <1>5, <1>6, <1>7 DEF KeeperNext

\* However submissions fail, land late or race the worker's, radarTick's last
\* decision is the only one that turns the vault's flag, and a rescue ends only
\* after allClearLedgers normal evaluations in a row (decideLifeboat, submit).
THEOREM LifeboatTurnsInTime == KeeperSpec => TimelyTurns
<1>1. KInv /\ [KeeperNext]_allVars => KInv'
  BY StepKeeps
<1>2. KeeperSpec => []KInv
  BY InitKInv, <1>1, PTL DEF KeeperSpec
<1>3. KInv /\ [KeeperNext]_allVars =>
        [derisked' # derisked =>
           \E a \in sent : Land(a) /\ a.current /\ (a.type = "resume" => a.earned)]_allVars
  BY StepKeeps DEF Timely
<1> QED BY <1>2, <1>3, PTL DEF KeeperSpec, TimelyTurns
=============================================================================
