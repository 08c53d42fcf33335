---------------------- MODULE RuntimePreferencesProofs ----------------------
(***************************************************************************)
(* What holds of the runtime preference lane for any number of jobs,       *)
(* workers and values, whatever the classifier answers.                    *)
(***************************************************************************)
EXTENDS RuntimePreferences, FiniteSetTheorems, TLAPS

-----------------------------------------------------------------------------
(* The inductive invariant.                                                *)

ClaimFields == {"st", "val", "ver", "how", "src", "old"}
RecordFields == {"st", "snap", "ctx", "full", "reply", "plan", "settled", "residual"}
CapturedSteps == {"load", "admit", "fix", "apply", "finish"}

Shape ==
  /\ DOMAIN claim = Ids /\ \A p \in Ids : DOMAIN claim[p] = ClaimFields
  /\ DOMAIN fact = {"ver", "live", "strong", "others"} /\ fact.ver \in Versions
  /\ DOMAIN job = Jobs /\ \A j \in Jobs : DOMAIN job[j] = {"st", "route", "source", "legacy"}
  /\ DOMAIN rec = Jobs /\ \A j \in Jobs : DOMAIN rec[j] = RecordFields
  /\ DOMAIN hold = Jobs /\ \A j \in Jobs : DOMAIN hold[j] = {"why", "at", "released"}
  /\ DOMAIN ask = Jobs /\ \A j \in Jobs : DOMAIN ask[j] = {"st", "ver"}
  /\ DOMAIN work = Workers /\ \A w \in Workers : DOMAIN work[w] = {"job", "reply", "plan", "pc"}

\* Jobs are accepted in order, and only accepted jobs are processed, by either lane.
Accepting ==
  /\ \A i, j \in Jobs : i < j /\ job[j].st # "none" => job[i].st # "none"
  /\ \A j \in Jobs : rec[j].st # "none" \/ job[j].legacy => job[j].st # "none"
  /\ \A w \in Workers : work[w].pc # "idle" =>
       /\ work[w].job \in Jobs /\ job[work[w].job].st # "none"
       /\ work[w].pc \in CapturedSteps => rec[work[w].job].st # "none"

\* Whoever is on the way to the extraction pipeline has a job without a reserved
\* route, or one that another worker captured meanwhile.
Lanes ==
  /\ LaneKept
  /\ \A w \in Workers : work[w].pc = "legacy" /\ job[work[w].job].route => rec[work[w].job].st # "none"

\* A receipt says what was settled and what stays withheld; only an applied job asks.
Records ==
  /\ \A j \in Jobs :
       /\ rec[j].st \in {"none", "captured", "validated", "applied"}
       /\ rec[j].plan \in Plans /\ rec[j].ctx["fact"] \in Versions
       /\ rec[j].st = "applied" => rec[j].residual \in {{}, Broad, {FactKey(j)}}
       /\ rec[j].st # "applied" => rec[j].settled = {}
       /\ ask[j].st # "none" => rec[j].st = "applied"
  /\ \A w \in Workers : work[w].plan \in Plans

\* A hold is written when its job is known, and what is released of it a later job settled.
Holds ==
  \A i \in Jobs :
    /\ hold[i].why # "none" => hold[i].at \in Nat /\ i <= hold[i].at
    /\ \A k \in hold[i].released : \E j \in Jobs : j > i /\ k \in rec[j].settled

Sources == ConfirmedBeforeCurrent /\ \A p \in Ids : claim[p].src \in Jobs \cup {0}

PreferenceInv == Shape /\ Accepting /\ Lanes /\ Records /\ Holds /\ Sources

-----------------------------------------------------------------------------
(* Facts about constants and operators.                                    *)

LEMMA JobNumbers == \A j \in Jobs : j \in Nat /\ j # 0 /\ 0 \notin Jobs
<1>1. Cardinality(Jobs) \in Nat /\ Jobs = 1 .. Cardinality(Jobs)
  BY PreferenceAssumption, FS_CardinalityType
<1> QED
  BY <1>1

\* The number of accepted jobs bounds the number of each of them.
LEMMA AcceptedCount ==
  ASSUME Accepting, NEW j \in Jobs, job[j].st # "none"
  PROVE  Cardinality(Accepted) \in Nat /\ j <= Cardinality(Accepted)
<1>1. Cardinality(Jobs) \in Nat /\ Jobs = 1 .. Cardinality(Jobs) /\ j \in Nat /\ j # 0
  BY PreferenceAssumption, FS_CardinalityType, JobNumbers
<1>2. Accepted \subseteq Jobs /\ IsFiniteSet(Jobs)
  BY PreferenceAssumption DEF Accepted
<1>3. IsFiniteSet(Accepted) /\ Cardinality(Accepted) \in Nat
  BY <1>2, FS_Subset, FS_CardinalityType
<1>4. 1 .. j \subseteq Accepted
  <2> SUFFICES ASSUME NEW i \in 1 .. j PROVE i \in Accepted
    OBVIOUS
  <2>1. i \in Jobs /\ (i = j \/ i < j)
    BY <1>1
  <2> QED
    BY <2>1 DEF Accepting, Accepted
<1>5. Cardinality(1 .. j) = j
  <2>1. Cardinality(1 .. j) = IF 1 > j THEN 0 ELSE j - 1 + 1
    BY <1>1, FS_Interval
  <2> QED
    BY <1>1, <2>1
<1>6. Cardinality(1 .. j) <= Cardinality(Accepted)
  BY <1>3, <1>4, FS_Subset
<1> QED
  BY <1>3, <1>5, <1>6

LEMMA VersionFacts == 0 \in Versions /\ (fact.ver \in Versions => Bindings["fact"] \in Versions)
<1>1. 0 \in Versions
  BY PreferenceAssumption DEF Versions
<1>2. "fact" \in Ids \cup {"fact", "others"}
  OBVIOUS
<1>3. Bindings["fact"] = IF fact.live THEN fact.ver ELSE 0
  BY <1>2 DEF Bindings
<1> QED
  BY <1>1, <1>3

LEMMA NoPlanIs == NoPlan \in Plans
  BY DEF NoPlan, Plans

\* What a transition leaves of a row: it is one version further, and its source is the
\* writer's only if the value is.
LEMMA MovedRow ==
  ASSUME Shape, NEW p \in Ids, NEW reason, NEW val, NEW c, NEW src
  PROVE  /\ DOMAIN Moved(p, reason, val, c, src) = ClaimFields
         /\ reason \notin {"NEW", "UPDATE"} => Moved(p, reason, val, c, src).src = claim[p].src
         /\ reason \in {"NEW", "UPDATE"} => /\ Moved(p, reason, val, c, src).src = src
                                            /\ Moved(p, reason, val, c, src).how = c
         /\ Moved(p, reason, val, c, src) = claim[p] \/ Moved(p, reason, val, c, src).ver = claim[p].ver + 1
<1>1. DOMAIN claim[p] = ClaimFields
  BY DEF Shape
<1> DEFINE old == claim[p].old \/ reason = "UPDATE" \/ claim[p].st = "cleared"
<1>2. CASE reason \in {"NEW", "UPDATE"}
  <2>1. Moved(p, reason, val, c, src) =
          [[claim[p] EXCEPT !.ver = claim[p].ver + 1] EXCEPT !.st = "active", !.val = val, !.how = c, !.src = src, !.old = old]
    BY <1>2 DEF Moved
  <2> HIDE DEF old
  <2> QED
    BY <1>1, <1>2, <2>1 DEF ClaimFields
<1>3. CASE reason \notin {"NEW", "UPDATE"}
  <2>1. \/ Moved(p, reason, val, c, src) = [[claim[p] EXCEPT !.ver = claim[p].ver + 1] EXCEPT !.st = "active"]
        \/ Moved(p, reason, val, c, src) = [[claim[p] EXCEPT !.ver = claim[p].ver + 1] EXCEPT !.st = "disputed"]
        \/ Moved(p, reason, val, c, src) = claim[p]
    BY <1>3 DEF Moved
  <2> QED
    BY <1>1, <1>3, <2>1 DEF ClaimFields
<1> QED
  BY <1>2, <1>3

-----------------------------------------------------------------------------
(* What the pieces of a step do.                                           *)

WorkFields == {"job", "reply", "plan", "pc"}

LEMMA GotoDoes ==
  ASSUME Shape, NEW w \in Workers, NEW pc, Goto(w, pc)
  PROVE  /\ DOMAIN work' = Workers /\ \A v \in Workers : v # w => work'[v] = work[v]
         /\ DOMAIN work'[w] = WorkFields /\ work'[w].job = work[w].job /\ work'[w].pc = pc
         /\ work'[w].plan \in Plans
  BY NoPlanIs DEF Shape, Goto, Idle, WorkFields

LEMMA AbortDoes ==
  ASSUME Shape, NEW w \in Workers, Abort(w)
  PROVE  /\ DOMAIN work' = Workers /\ \A v \in Workers : v # w => work'[v] = work[v]
         /\ DOMAIN work'[w] = WorkFields /\ work'[w].pc = "idle" /\ work'[w].plan \in Plans
  BY NoPlanIs DEF Shape, Abort, Idle, WorkFields

\* A worker that moves on, while nothing else that matters to it changes.
LEMMA WorkerMoves ==
  ASSUME PreferenceInv, NEW w \in Workers,
         DOMAIN work' = Workers, \A v \in Workers : v # w => work'[v] = work[v],
         DOMAIN work'[w] = WorkFields, work'[w].plan \in Plans,
         work'[w].pc # "idle" => /\ work'[w].job \in Jobs /\ job[work'[w].job].st # "none"
                                 /\ work'[w].pc \in CapturedSteps => rec[work'[w].job].st # "none"
                                 /\ work'[w].pc = "legacy" /\ job[work'[w].job].route
                                      => rec[work'[w].job].st # "none",
         UNCHANGED <<claim, fact, job, rec, hold, ask>>
  PROVE  PreferenceInv'
<1>1. Shape'
  BY DEF PreferenceInv, Shape, WorkFields, Versions
<1>2. Accepting'
  BY DEF PreferenceInv, Accepting
<1>3. Lanes'
  BY DEF PreferenceInv, Lanes, LaneKept
<1>4. Records'
  BY DEF PreferenceInv, Records, FactKey, Fact, Broad
<1>5. Holds'
  BY DEF PreferenceInv, Holds
<1>6. Sources'
  BY DEF PreferenceInv, Sources, ConfirmedBeforeCurrent
<1> QED
  BY <1>1, <1>2, <1>3, <1>4, <1>5, <1>6 DEF PreferenceInv

LEMMA CrashKeeps ==
  ASSUME PreferenceInv, NEW w \in Workers, Crash(w)
  PROVE  PreferenceInv'
<1>1. Shape /\ Abort(w) /\ UNCHANGED <<claim, fact, job, rec, hold, ask>>
  BY DEF Crash, PreferenceInv
<1> QED
  BY <1>1, AbortDoes, WorkerMoves

LEMMA SelectKeeps ==
  ASSUME PreferenceInv, NEW w \in Workers, NEW j \in Jobs, Select(w, j)
  PROVE  PreferenceInv'
<1> DEFINE pc == IF rec[j].st # "none" THEN "load" ELSE IF flag THEN "capture" ELSE "legacy"
<1>1. /\ work' = [work EXCEPT ![w] = [Idle EXCEPT !.job = j, !.pc = pc]]
      /\ UNCHANGED <<claim, fact, job, rec, hold, ask>> /\ job[j].st = "open" /\ Shape
  BY DEF Select, PreferenceInv
<1>2. /\ pc \in CapturedSteps => rec[j].st # "none"
      /\ pc = "legacy" /\ job[j].route => rec[j].st # "none"
  BY DEF Select, CapturedSteps
<1> HIDE DEF pc
<1>3. /\ DOMAIN work' = Workers /\ \A v \in Workers : v # w => work'[v] = work[v]
      /\ DOMAIN work'[w] = WorkFields /\ work'[w].job = j /\ work'[w].pc = pc
      /\ work'[w].plan \in Plans
  BY <1>1, NoPlanIs DEF Shape, Idle, WorkFields
<1> QED
  BY <1>1, <1>2, <1>3, WorkerMoves

\* A job that has a record is somewhere after its capture.
LEMMA NextStepIs ==
  ASSUME Records, NEW j \in Jobs, rec[j].st # "none"
  PROVE  NextStep(j) \in CapturedSteps
  BY DEF Records, NextStep, CapturedSteps

LEMMA LoadKeeps ==
  ASSUME PreferenceInv, NEW w \in Workers, Load(w)
  PROVE  PreferenceInv'
<1> DEFINE j == work[w].job
<1>1. /\ j \in Jobs /\ job[j].st # "none" /\ rec[j].st # "none"
      /\ UNCHANGED <<claim, fact, job, rec, hold, ask>> /\ Shape /\ Records
  BY DEF Load, PreferenceInv, Accepting, CapturedSteps
<1>2. \/ \E r \in Replies[j] : work' = [work EXCEPT ![w].pc = "admit", ![w].reply = r]
      \/ Goto(w, NextStep(j))
  BY DEF Load
<1>3. NextStep(j) \in CapturedSteps /\ "admit" \in CapturedSteps /\ "legacy" \notin CapturedSteps
  BY <1>1, NextStepIs DEF CapturedSteps
<1>4. CASE Goto(w, NextStep(j))
  BY <1>1, <1>3, <1>4, GotoDoes, WorkerMoves
<1>5. CASE \E r \in Replies[j] : work' = [work EXCEPT ![w].pc = "admit", ![w].reply = r]
  <2>1. work[w].plan \in Plans
    BY <1>1 DEF Records
  <2>2. /\ DOMAIN work' = Workers /\ \A v \in Workers : v # w => work'[v] = work[v]
        /\ DOMAIN work'[w] = WorkFields /\ work'[w].job = j /\ work'[w].pc = "admit"
        /\ work'[w].plan \in Plans
    BY <1>1, <1>5, <2>1 DEF Shape, WorkFields
  <2> QED
    BY <1>1, <1>3, <2>2, WorkerMoves
<1> QED
  BY <1>2, <1>4, <1>5

LEMMA AdmitKeeps ==
  ASSUME PreferenceInv, NEW w \in Workers, Admit(w)
  PROVE  PreferenceInv'
<1> DEFINE j == work[w].job
<1> DEFINE plans == IF work[w].reply.fact /\ ContextUnchanged(j)
                    THEN {q \in PlansFor[j] : q.target => fact.live} ELSE {NoPlan}
<1>1. /\ j \in Jobs /\ job[j].st # "none" /\ rec[j].st # "none"
      /\ UNCHANGED <<claim, fact, job, rec, hold, ask>> /\ Shape /\ Records
  BY DEF Admit, PreferenceInv, Accepting, CapturedSteps
<1>2. \/ \E p \in plans : work' = [work EXCEPT ![w].pc = "fix", ![w].plan = p]
      \/ Goto(w, NextStep(j))
  BY DEF Admit, TakeOver
<1>3. NextStep(j) \in CapturedSteps /\ "fix" \in CapturedSteps /\ "legacy" \notin CapturedSteps
  BY <1>1, NextStepIs DEF CapturedSteps
<1>4. CASE Goto(w, NextStep(j))
  BY <1>1, <1>3, <1>4, GotoDoes, WorkerMoves
<1>5. plans \subseteq Plans
  BY <1>1, PreferenceAssumption, NoPlanIs
<1> HIDE DEF plans
<1>6. CASE \E p \in plans : work' = [work EXCEPT ![w].pc = "fix", ![w].plan = p]
  <2>2. /\ DOMAIN work' = Workers /\ \A v \in Workers : v # w => work'[v] = work[v]
        /\ DOMAIN work'[w] = WorkFields /\ work'[w].job = j /\ work'[w].pc = "fix"
        /\ work'[w].plan \in Plans
    BY <1>1, <1>5, <1>6 DEF Shape, WorkFields
  <2> QED
    BY <1>1, <1>3, <2>2, WorkerMoves
<1> QED
  BY <1>2, <1>4, <1>6

JobFields == {"st", "route", "source", "legacy"}

\* A step that moves the row of one job and lets at most its worker go.
LEMMA JobMoves ==
  ASSUME PreferenceInv, NEW j \in Jobs,
         DOMAIN job' = Jobs, \A i \in Jobs : i # j => job'[i] = job[i],
         DOMAIN job'[j] = JobFields, job'[j].st # "none",
         \A i \in Jobs : i < j => job[i].st # "none",
         job'[j].legacy /\ job'[j].route => rec[j].st # "none",
         job[j].st # "none" => job'[j].route = job[j].route,
         DOMAIN work' = Workers,
         \A v \in Workers : \/ work'[v] = work[v]
                            \/ DOMAIN work'[v] = WorkFields /\ work'[v].pc = "idle" /\ work'[v].plan \in Plans,
         DOMAIN fact' = DOMAIN fact, fact'.ver \in Versions,
         UNCHANGED <<claim, rec, hold, ask>>
  PROVE  PreferenceInv'
<1>1. Shape'
  BY DEF PreferenceInv, Shape, WorkFields, JobFields, Versions
<1>2. Accepting'
  <2>1. \A i, k \in Jobs : i < k /\ job'[k].st # "none" => job'[i].st # "none"
    BY DEF PreferenceInv, Accepting
  <2>2. \A k \in Jobs : rec'[k].st # "none" \/ job'[k].legacy => job'[k].st # "none"
    BY DEF PreferenceInv, Accepting
  <2>3. \A v \in Workers : work'[v].pc # "idle" =>
          /\ work'[v].job \in Jobs /\ job'[work'[v].job].st # "none"
          /\ work'[v].pc \in CapturedSteps => rec'[work'[v].job].st # "none"
    BY DEF PreferenceInv, Accepting
  <2> QED
    BY <2>1, <2>2, <2>3 DEF Accepting
<1>3. Lanes'
  <2>1. LaneKept'
    BY DEF PreferenceInv, Lanes, LaneKept
  <2>2. ASSUME NEW v \in Workers, work'[v].pc = "legacy", job'[work'[v].job].route
        PROVE  rec'[work'[v].job].st # "none"
    <3>1. work'[v] = work[v] /\ work[v].job \in Jobs /\ job[work[v].job].st # "none"
      BY <2>2 DEF PreferenceInv, Accepting
    <3>2. job[work[v].job].route
      BY <2>2, <3>1
    <3> QED
      BY <2>2, <3>1, <3>2 DEF PreferenceInv, Lanes
  <2> QED
    BY <2>1, <2>2 DEF Lanes
<1>4. Records'
  BY DEF PreferenceInv, Records, FactKey, Fact, Broad, Versions
<1>5. Holds'
  BY DEF PreferenceInv, Holds
<1>6. Sources'
  BY DEF PreferenceInv, Sources, ConfirmedBeforeCurrent
<1> QED
  BY <1>1, <1>2, <1>3, <1>4, <1>5, <1>6 DEF PreferenceInv

LEMMA JobRowsKeep ==
  ASSUME PreferenceInv, NEW j \in Jobs, Accept(j) \/ LoseSource(j) \/ Retry(j)
  PROVE  PreferenceInv'
<1>1. /\ UNCHANGED <<claim, fact, rec, hold, ask, work>>
      /\ DOMAIN job = Jobs /\ DOMAIN job[j] = JobFields /\ fact.ver \in Versions /\ DOMAIN work = Workers
  BY DEF PreferenceInv, Shape, JobFields, Accept, LoseSource, Retry
<1>2. CASE Accept(j)
  <2>1. job[j].st = "none" /\ \A i \in Jobs : i < j => job[i].st # "none"
    BY <1>2 DEF Accept, Accepted
  <2>2. job' = [job EXCEPT ![j].st = "open", ![j].route = flag]
    BY <1>2 DEF Accept
  <2>3. ~job[j].legacy
    BY <2>1 DEF PreferenceInv, Accepting
  <2>4. /\ DOMAIN job' = Jobs /\ \A i \in Jobs : i # j => job'[i] = job[i]
        /\ DOMAIN job'[j] = JobFields /\ job'[j].st = "open" /\ job'[j].legacy = job[j].legacy
    BY <1>1, <2>2 DEF JobFields
  <2> QED
    BY <1>1, <2>1, <2>3, <2>4, JobMoves
<1>3. CASE LoseSource(j) \/ Retry(j)
  <2>1. job[j].st # "none" /\ \A i \in Jobs : i < j => job[i].st # "none"
    BY <1>3 DEF LoseSource, Retry, Accepted, PreferenceInv, Accepting
  <2>2. \/ job' = [job EXCEPT ![j].st = "open"]
        \/ \E s \in {"lost", "changed"} : job' = [job EXCEPT ![j].source = s]
    BY <1>3 DEF LoseSource, Retry
  <2>3. job[j].legacy /\ job[j].route => rec[j].st # "none"
    BY DEF PreferenceInv, Lanes, LaneKept
  <2>4. /\ DOMAIN job' = Jobs /\ \A i \in Jobs : i # j => job'[i] = job[i]
        /\ DOMAIN job'[j] = JobFields /\ job'[j].st # "none" /\ job'[j].legacy = job[j].legacy
        /\ job'[j].route = job[j].route
    BY <1>1, <2>1, <2>2 DEF JobFields
  <2> QED
    BY <1>1, <2>1, <2>3, <2>4, JobMoves
<1> QED
  BY <1>2, <1>3

LEMMA EndingsKeep ==
  ASSUME PreferenceInv, NEW w \in Workers, Finish(w) \/ Die(w) \/ Legacy(w)
  PROVE  PreferenceInv'
<1> DEFINE j == work[w].job
<1>1. /\ UNCHANGED <<claim, rec, hold, ask>> /\ Abort(w) /\ Shape
      /\ j \in Jobs /\ job[j].st # "none" /\ \A i \in Jobs : i < j => job[i].st # "none"
  BY DEF PreferenceInv, Accepting, Finish, Die, Legacy
<1>2. /\ DOMAIN job = Jobs /\ DOMAIN job[j] = JobFields /\ fact.ver \in Versions
      /\ DOMAIN fact = {"ver", "live", "strong", "others"}
  BY <1>1 DEF Shape, JobFields
<1>3. DOMAIN fact' = DOMAIN fact /\ fact'.ver \in Versions
  BY <1>2 DEF Finish, Die, Legacy
<1>4. /\ DOMAIN job' = Jobs /\ \A i \in Jobs : i # j => job'[i] = job[i]
      /\ DOMAIN job'[j] = JobFields /\ job'[j].st # "none" /\ job'[j].route = job[j].route
  BY <1>1, <1>2 DEF Finish, Die, Legacy, JobFields
<1>5. job'[j].legacy /\ job'[j].route => rec[j].st # "none"
  <2>1. CASE Legacy(w)
    BY <1>1, <1>4, <2>1 DEF Legacy, PreferenceInv, Lanes
  <2>2. CASE Finish(w) \/ Die(w)
    <3>1. job'[j].legacy = job[j].legacy
      BY <1>1, <1>2, <2>2 DEF Finish, Die, JobFields
    <3> QED
      BY <1>1, <1>4, <3>1 DEF PreferenceInv, Lanes, LaneKept
  <2> QED
    BY <2>1, <2>2
<1> HIDE DEF j
<1> QED
  BY <1>1, <1>3, <1>4, <1>5, AbortDoes, JobMoves

\* A step that moves the ledger or the questions to the user, and nothing else.
LEMMA LedgerMoves ==
  ASSUME PreferenceInv,
         DOMAIN claim' = Ids, DOMAIN ask' = Jobs,
         \A p \in Ids : \/ claim'[p] = claim[p]
                        \/ /\ DOMAIN claim'[p] = ClaimFields /\ claim'[p].src \in Jobs \cup {0}
                           /\ claim'[p].src # 0 /\ Policy[claim'[p].src] = 2
                                => ask'[claim'[p].src].st = "confirmed",
         \A j \in Jobs : \/ ask'[j] = ask[j]
                         \/ DOMAIN ask'[j] = {"st", "ver"} /\ ask[j].st \notin {"none", "confirmed"},
         UNCHANGED <<fact, job, rec, hold, work>>
  PROVE  PreferenceInv'
<1>1. Shape'
  BY DEF PreferenceInv, Shape, Versions
<1>2. Accepting'
  BY DEF PreferenceInv, Accepting
<1>3. Lanes'
  BY DEF PreferenceInv, Lanes, LaneKept
<1>4. Records'
  BY DEF PreferenceInv, Records, FactKey, Fact, Broad, Versions
<1>5. Holds'
  BY DEF PreferenceInv, Holds
<1>6. Sources'
  <2>1. \A j \in Jobs : ask[j].st = "confirmed" => ask'[j].st = "confirmed"
    OBVIOUS
  <2>2. \A p \in Ids : /\ claim[p].src \in Jobs \cup {0}
                       /\ claim[p].src # 0 /\ Policy[claim[p].src] = 2 => ask[claim[p].src].st = "confirmed"
    BY DEF PreferenceInv, Sources, ConfirmedBeforeCurrent
  <2>3. \A p \in Ids : /\ claim'[p].src \in Jobs \cup {0}
                       /\ claim'[p].src # 0 /\ Policy[claim'[p].src] = 2 => ask'[claim'[p].src].st = "confirmed"
    BY <2>1, <2>2
  <2> QED
    BY <2>3 DEF Sources, ConfirmedBeforeCurrent
<1> QED
  BY <1>1, <1>2, <1>3, <1>4, <1>5, <1>6 DEF PreferenceInv

LEMMA SourceKept ==
  ASSUME PreferenceInv, NEW p \in Ids
  PROVE  /\ claim[p].src \in Jobs \cup {0}
         /\ claim[p].src # 0 /\ Policy[claim[p].src] = 2 => ask[claim[p].src].st = "confirmed"
  BY DEF PreferenceInv, Sources, ConfirmedBeforeCurrent

LEMMA DeclareKeeps ==
  ASSUME PreferenceInv, NEW p \in Ids, NEW c, NEW v, Declare(p, c, v, claim[p].ver)
  PROVE  PreferenceInv'
<1> DEFINE row == Moved(p, Reason(p, c, v, claim[p].ver), v, c, 0)
<1>1. /\ claim' = [claim EXCEPT ![p] = row]
      /\ UNCHANGED <<fact, job, rec, hold, ask, work>> /\ Shape
  BY DEF Declare, PreferenceInv
<1>2. DOMAIN row = ClaimFields /\ (row.src = 0 \/ row.src = claim[p].src)
  BY <1>1, MovedRow
<1> HIDE DEF row
<1>3. /\ DOMAIN claim' = Ids /\ claim'[p] = row /\ \A q \in Ids : q # p => claim'[q] = claim[q]
      /\ DOMAIN ask' = Jobs
  BY <1>1 DEF Shape
<1> QED
  BY <1>1, <1>2, <1>3, SourceKept, LedgerMoves

LEMMA ArchiveKeeps ==
  ASSUME PreferenceInv, NEW p \in Ids, ArchivePreference(p) \/ DeletePreference(p)
  PROVE  PreferenceInv'
<1>1. UNCHANGED <<fact, job, rec, hold, ask, work>> /\ Shape
  BY DEF ArchivePreference, DeletePreference, PreferenceInv
<1>2. /\ DOMAIN claim' = Ids /\ \A q \in Ids : q # p => claim'[q] = claim[q]
      /\ DOMAIN ask' = Jobs
  BY <1>1 DEF ArchivePreference, DeletePreference, Shape
<1>3. DOMAIN claim'[p] = ClaimFields /\ claim'[p].src = claim[p].src
  BY <1>1 DEF ArchivePreference, DeletePreference, Shape, ClaimFields
<1> QED
  BY <1>1, <1>2, <1>3, SourceKept, LedgerMoves

LEMMA AnswerKeeps ==
  ASSUME PreferenceInv, NEW j \in Jobs, NEW a, AnswerReview(j, a) \/ Decline(j, a) \/ Lapse(j)
  PROVE  PreferenceInv'
<1> DEFINE p == rec[j].reply.id
<1>1. UNCHANGED <<fact, job, rec, hold, work>> /\ Shape
  BY DEF AnswerReview, Decline, Lapse, PreferenceInv
<1>2. claim' = claim \/ claim' = [claim EXCEPT ![p].st = "active", ![p].ver = @ + 1]
  BY DEF AnswerReview, Decline, Lapse
<1>3. /\ DOMAIN claim' = Ids
      /\ \A q \in Ids : \/ claim'[q] = claim[q]
                        \/ DOMAIN claim'[q] = ClaimFields /\ claim'[q].src = claim[q].src
  <2> HIDE DEF p
  <2> QED
    BY <1>1, <1>2 DEF Shape, ClaimFields
<1>4. \/ ask' = ask
      \/ \E s \in {"closed", "lapsed"} : ask' = [ask EXCEPT ![j].st = s] /\ ask[j].st \in {"pending", "lapsed"}
  BY DEF AnswerReview, Decline, Lapse
<1>5. /\ DOMAIN ask' = Jobs
      /\ \A i \in Jobs : \/ ask'[i] = ask[i]
                         \/ DOMAIN ask'[i] = {"st", "ver"} /\ ask[i].st \notin {"none", "confirmed"}
  BY <1>1, <1>4 DEF Shape
<1>6. \A i \in Jobs : ask[i].st = "confirmed" => ask'[i].st = "confirmed"
  BY <1>5
<1>7. \A q \in Ids : \/ claim'[q] = claim[q]
                     \/ /\ DOMAIN claim'[q] = ClaimFields /\ claim'[q].src \in Jobs \cup {0}
                        /\ claim'[q].src # 0 /\ Policy[claim'[q].src] = 2
                             => ask'[claim'[q].src].st = "confirmed"
  BY <1>3, <1>6, SourceKept
<1> QED
  BY <1>1, <1>3, <1>5, <1>7, LedgerMoves

LEMMA ConfirmKeeps ==
  ASSUME PreferenceInv, NEW j \in Jobs, Confirm(j)
  PROVE  PreferenceInv'
<1> DEFINE r == rec[j].reply
           c == IF rec[j].snap[r.id] = 0 THEN "asserted" ELSE "replacement"
           row == Moved(r.id, Reason(r.id, c, r.val, rec[j].snap[r.id]), r.val, c, j)
<1>1. /\ UNCHANGED <<fact, job, rec, hold, work>> /\ Shape /\ ask[j].st = "pending"
      /\ ask' = [ask EXCEPT ![j].st = "confirmed"]
  BY DEF Confirm, PreferenceInv
<1>2. claim' = [claim EXCEPT ![r.id] = row]
  BY DEF Confirm
<1>3. r.id \in Ids => DOMAIN row = ClaimFields /\ (row.src = j \/ row.src = claim[r.id].src)
  BY <1>1, MovedRow
<1> HIDE DEF row, r
<1>4. /\ DOMAIN claim' = Ids
      /\ \A q \in Ids : \/ claim'[q] = claim[q]
                        \/ DOMAIN claim'[q] = ClaimFields /\ claim'[q].src \in {j, claim[q].src}
  BY <1>1, <1>2, <1>3 DEF Shape
<1>5. /\ DOMAIN ask' = Jobs /\ ask'[j].st = "confirmed"
      /\ \A i \in Jobs : \/ ask'[i] = ask[i]
                         \/ DOMAIN ask'[i] = {"st", "ver"} /\ ask[i].st \notin {"none", "confirmed"}
  BY <1>1 DEF Shape
<1>6. \A i \in Jobs : ask[i].st = "confirmed" => ask'[i].st = "confirmed"
  BY <1>5
<1>7. \A q \in Ids : \/ claim'[q] = claim[q]
                     \/ /\ DOMAIN claim'[q] = ClaimFields /\ claim'[q].src \in Jobs \cup {0}
                        /\ claim'[q].src # 0 /\ Policy[claim'[q].src] = 2
                             => ask'[claim'[q].src].st = "confirmed"
  BY <1>4, <1>5, <1>6, SourceKept
<1> QED
  BY <1>1, <1>4, <1>5, <1>7, LedgerMoves

LEMMA OtherWriterKeeps ==
  ASSUME PreferenceInv, OtherWriter
  PROVE  PreferenceInv'
<1>1. /\ UNCHANGED <<claim, job, rec, hold, ask, work>> /\ fact.ver \in Versions /\ MaxVersion \in Nat
      /\ DOMAIN fact = {"ver", "live", "strong", "others"}
  BY PreferenceAssumption DEF OtherWriter, PreferenceInv, Shape
<1>2. DOMAIN fact' = DOMAIN fact /\ fact'.ver \in Versions
  <2>1. \/ /\ fact.ver < MaxVersion
           /\ \E live \in BOOLEAN : fact' = [fact EXCEPT !.ver = @ + 1, !.live = live]
        \/ fact' = [fact EXCEPT !.others = @ + 1]
        \/ fact' = [fact EXCEPT !.strong = TRUE]
    BY DEF OtherWriter
  <2>2. ASSUME NEW live \in BOOLEAN, fact.ver < MaxVersion, fact' = [fact EXCEPT !.ver = @ + 1, !.live = live]
        PROVE  DOMAIN fact' = DOMAIN fact /\ fact'.ver = fact.ver + 1
    BY <1>1, <2>2
  <2>3. fact.ver < MaxVersion => fact.ver + 1 \in Versions
    BY <1>1 DEF Versions
  <2>4. CASE fact' = [fact EXCEPT !.others = @ + 1] \/ fact' = [fact EXCEPT !.strong = TRUE]
    BY <1>1, <2>4
  <2> QED
    BY <2>1, <2>2, <2>3, <2>4
<1>3. Shape'
  BY <1>1, <1>2 DEF PreferenceInv, Shape, Versions
<1>4. Accepting' /\ Lanes' /\ Holds'
  BY <1>1 DEF PreferenceInv, Accepting, Lanes, LaneKept, Holds
<1>6. Sources'
  BY <1>1 DEF PreferenceInv, Sources, ConfirmedBeforeCurrent
<1>5. Records'
  BY <1>1 DEF PreferenceInv, Records, FactKey, Fact, Broad, Versions
<1> QED
  BY <1>3, <1>4, <1>5, <1>6 DEF PreferenceInv

LEMMA FlipKeeps ==
  ASSUME PreferenceInv, UNCHANGED <<claim, fact, job, rec, hold, ask, work>>
  PROVE  PreferenceInv'
<1>1. Shape' /\ Accepting' /\ Lanes' /\ Holds' /\ Sources'
  BY DEF PreferenceInv, Shape, Versions, Accepting, Lanes, LaneKept, Holds, Sources, ConfirmedBeforeCurrent
<1>2. Records'
  BY DEF PreferenceInv, Records, FactKey, Fact, Broad, Versions
<1> QED
  BY <1>1, <1>2 DEF PreferenceInv

LEMMA QuarantineKeeps ==
  ASSUME PreferenceInv, NEW j \in Jobs, Quarantine(j)
  PROVE  PreferenceInv'
<1> DEFINE why == IF job[j].source = "lost" /\ Deciding(j) /\ Footprint(j) # Broad THEN "narrow" ELSE "broad"
<1>1. /\ UNCHANGED <<claim, fact, job, rec, ask, work>> /\ Shape /\ Accepting /\ job[j].st # "none"
      /\ hold' = [hold EXCEPT ![j] = [why |-> why, at |-> Cardinality(Accepted), released |-> {}]]
  BY DEF Quarantine, PreferenceInv
<1> HIDE DEF why
<1>2. /\ DOMAIN hold' = Jobs /\ \A i \in Jobs : i # j => hold'[i] = hold[i]
      /\ DOMAIN hold'[j] = {"why", "at", "released"} /\ hold'[j].at = Cardinality(Accepted)
      /\ hold'[j].released = {}
  BY <1>1 DEF Shape
<1>3. Cardinality(Accepted) \in Nat /\ j <= Cardinality(Accepted)
  BY <1>1, AcceptedCount
<1>4. Shape'
  BY <1>1, <1>2 DEF PreferenceInv, Shape, Versions
<1>5. Accepting' /\ Lanes'
  BY <1>1 DEF PreferenceInv, Accepting, Lanes, LaneKept
<1>6. Records'
  BY <1>1 DEF PreferenceInv, Records, FactKey, Fact, Broad, Versions
<1>7. Holds'
  BY <1>1, <1>2, <1>3 DEF PreferenceInv, Holds
<1>8. Sources'
  BY <1>1 DEF PreferenceInv, Sources, ConfirmedBeforeCurrent
<1> QED
  BY <1>4, <1>5, <1>6, <1>7, <1>8 DEF PreferenceInv

\* A worker writes the record of its job and goes on.
LEMMA RecordMoves ==
  ASSUME PreferenceInv, NEW w \in Workers, work[w].pc # "idle", NEW pc, Goto(w, pc), pc \in CapturedSteps,
         DOMAIN rec' = Jobs, \A i \in Jobs : i # work[w].job => rec'[i] = rec[i],
         rec'[work[w].job].st # "none",
         DOMAIN job' = Jobs,
         \A i \in Jobs : /\ job'[i].st = job[i].st /\ job'[i].legacy = job[i].legacy
                         /\ i # work[w].job => job'[i].route = job[i].route
  PROVE  Accepting' /\ Lanes'
<1> DEFINE j == work[w].job
<1>1. /\ Shape /\ j \in Jobs /\ job[j].st # "none"
  BY DEF PreferenceInv, Accepting
<1>2. /\ DOMAIN work' = Workers /\ \A v \in Workers : v # w => work'[v] = work[v]
      /\ work'[w].job = j /\ work'[w].pc = pc
  BY <1>1, GotoDoes
<1>3. \A i \in Jobs : rec[i].st # "none" => rec'[i].st # "none"
  OBVIOUS
<1>4. Accepting'
  BY <1>1, <1>2, <1>3 DEF PreferenceInv, Accepting
<1>5. LaneKept'
  <2> SUFFICES ASSUME NEW i \in Jobs, job'[i].legacy, job'[i].route PROVE rec'[i].st # "none"
    BY DEF LaneKept
  <2> QED
    BY <1>3 DEF PreferenceInv, Lanes, LaneKept
<1>6. ASSUME NEW v \in Workers, work'[v].pc = "legacy", job'[work'[v].job].route
      PROVE  rec'[work'[v].job].st # "none"
  <2>1. v # w /\ work'[v] = work[v]
    BY <1>2, <1>6 DEF CapturedSteps
  <2>2. work[v].job \in Jobs
    BY <1>6, <2>1 DEF PreferenceInv, Accepting
  <2> QED
    BY <1>3, <1>6, <2>1, <2>2 DEF PreferenceInv, Lanes
<1> QED
  BY <1>4, <1>5, <1>6 DEF Lanes

LEMMA CaptureKeeps ==
  ASSUME PreferenceInv, NEW w \in Workers, Capture(w)
  PROVE  PreferenceInv'
<1> DEFINE j == work[w].job
           new == [NoRecord EXCEPT !.st = "captured", !.full = Complete,
                                   !.snap = [p \in Ids |-> Binding(p)], !.ctx = Bindings]
<1>1. /\ UNCHANGED <<claim, fact, hold, ask>> /\ Shape /\ Goto(w, "load") /\ work[w].pc # "idle"
      /\ j \in Jobs /\ job[j].st # "none" /\ "load" \in CapturedSteps /\ fact.ver \in Versions
  BY DEF Capture, PreferenceInv, Accepting, CapturedSteps, Shape
<1>2. CASE rec[j].st # "none" /\ UNCHANGED <<job, rec>>
  BY <1>1, <1>2, GotoDoes, WorkerMoves
<1>3. CASE rec[j].st = "none" /\ rec' = [rec EXCEPT ![j] = new] /\ job' = [job EXCEPT ![j].route = TRUE]
  <2>1. /\ DOMAIN new = RecordFields /\ new.st = "captured" /\ new.plan \in Plans /\ new.ctx["fact"] \in Versions
        /\ new.settled = {}
    BY <1>1, VersionFacts, NoPlanIs DEF NoRecord, RecordFields
  <2> HIDE DEF new
  <2>2. DOMAIN rec' = Jobs /\ rec'[j] = new /\ \A i \in Jobs : i # j => rec'[i] = rec[i]
    BY <1>1, <1>3 DEF Shape
  <2>3. /\ DOMAIN job' = Jobs
        /\ \A i \in Jobs : /\ job'[i].st = job[i].st /\ job'[i].legacy = job[i].legacy
                           /\ i # j => job'[i].route = job[i].route
                           /\ DOMAIN job'[i] = JobFields
    BY <1>1, <1>3 DEF Shape, JobFields
  <2>4. /\ DOMAIN work' = Workers /\ \A v \in Workers : v # w => work'[v] = work[v]
        /\ DOMAIN work'[w] = WorkFields /\ work'[w].plan \in Plans
    BY <1>1, GotoDoes
  <2>5. Accepting' /\ Lanes'
    BY <1>1, <2>1, <2>2, <2>3, RecordMoves
  <2>6. Shape'
    BY <1>1, <2>1, <2>2, <2>3, <2>4 DEF Shape, Versions, JobFields, WorkFields
  <2>7. Records'
    <3> SUFFICES /\ \A i \in Jobs :
                      /\ rec'[i].st \in {"none", "captured", "validated", "applied"}
                      /\ rec'[i].plan \in Plans /\ rec'[i].ctx["fact"] \in Versions
                      /\ rec'[i].st = "applied" => rec'[i].residual \in {{}, Broad, {FactKey(i)'}}
                      /\ rec'[i].st # "applied" => rec'[i].settled = {}
                      /\ ask'[i].st # "none" => rec'[i].st = "applied"
                 /\ \A v \in Workers : work'[v].plan \in Plans
      BY DEF Records, Versions, Broad
    <3>1. \A v \in Workers : work'[v].plan \in Plans
      BY <2>4 DEF PreferenceInv, Records
    <3>2. \A i \in Jobs : i # j => rec'[i] = rec[i] /\ FactKey(i)' = FactKey(i)
      BY <2>2 DEF FactKey, Fact
    <3>3. ask[j].st = "none"
      BY <1>1, <1>3 DEF PreferenceInv, Records
    <3> QED
      BY <1>1, <2>1, <2>2, <3>1, <3>2, <3>3 DEF PreferenceInv, Records
  <2>8. rec[j].settled = {}
    BY <1>1, <1>3 DEF PreferenceInv, Records
  <2>9. Holds'
    BY <1>1, <2>1, <2>2, <2>8 DEF PreferenceInv, Holds
  <2>10. Sources'
    BY <1>1 DEF PreferenceInv, Sources, ConfirmedBeforeCurrent
  <2> QED
    BY <2>5, <2>6, <2>7, <2>9, <2>10 DEF PreferenceInv
<1> QED
  BY <1>2, <1>3 DEF Capture

LEMMA FixKeeps ==
  ASSUME PreferenceInv, NEW w \in Workers, Fix(w)
  PROVE  PreferenceInv'
<1> DEFINE j == work[w].job
<1>1. /\ UNCHANGED <<claim, fact, job, hold, ask>> /\ Shape /\ Records /\ work[w].pc # "idle"
      /\ j \in Jobs /\ job[j].st # "none" /\ rec[j].st # "none"
  BY DEF Fix, PreferenceInv, Accepting, CapturedSteps
<1>2. CASE TakeOver(w, j) /\ UNCHANGED rec
  <2>1. NextStep(j) \in CapturedSteps /\ Goto(w, NextStep(j)) /\ "legacy" \notin CapturedSteps
    BY <1>1, <1>2, NextStepIs DEF TakeOver, CapturedSteps
  <2> QED
    BY <1>1, <1>2, <2>1, GotoDoes, WorkerMoves
<1>3. CASE rec[j].st = "captured" /\ rec' = Fixed(w) /\ Goto(w, "apply")
  <2>1. work[w].plan \in Plans
    BY <1>1 DEF Records
  <2>2. /\ DOMAIN rec' = Jobs /\ \A i \in Jobs : i # j => rec'[i] = rec[i]
        /\ DOMAIN rec'[j] = RecordFields /\ rec'[j].st = "validated" /\ rec'[j].plan = work[w].plan
        /\ rec'[j].ctx = rec[j].ctx /\ rec'[j].settled = rec[j].settled
    BY <1>1, <1>3 DEF Shape, Fixed, RecordFields
  <2>3. /\ DOMAIN work' = Workers /\ \A v \in Workers : v # w => work'[v] = work[v]
        /\ DOMAIN work'[w] = WorkFields /\ work'[w].plan \in Plans
    BY <1>1, <1>3, GotoDoes
  <2>4. "apply" \in CapturedSteps /\ DOMAIN job' = Jobs
    BY <1>1 DEF CapturedSteps, Shape
  <2>5. Accepting' /\ Lanes'
    BY <1>1, <1>3, <2>2, <2>4, RecordMoves
  <2>6. Shape'
    BY <1>1, <2>2, <2>3 DEF Shape, Versions, WorkFields
  <2>7. Records'
    <3> SUFFICES /\ \A i \in Jobs :
                      /\ rec'[i].st \in {"none", "captured", "validated", "applied"}
                      /\ rec'[i].plan \in Plans /\ rec'[i].ctx["fact"] \in Versions
                      /\ rec'[i].st = "applied" => rec'[i].residual \in {{}, Broad, {FactKey(i)'}}
                      /\ rec'[i].st # "applied" => rec'[i].settled = {}
                      /\ ask'[i].st # "none" => rec'[i].st = "applied"
                 /\ \A v \in Workers : work'[v].plan \in Plans
      BY DEF Records, Versions, Broad
    <3>1. \A v \in Workers : work'[v].plan \in Plans
      BY <2>3 DEF PreferenceInv, Records
    <3>2. \A i \in Jobs : i # j => rec'[i] = rec[i] /\ FactKey(i)' = FactKey(i)
      BY <2>2 DEF FactKey, Fact
    <3>3. ask[j].st = "none" /\ rec[j].settled = {}
      BY <1>1, <1>3 DEF Records
    <3> QED
      BY <1>1, <2>1, <2>2, <3>1, <3>2, <3>3 DEF Records
  <2>8. Holds'
    BY <1>1, <2>2 DEF PreferenceInv, Holds
  <2>9. Sources'
    BY <1>1 DEF PreferenceInv, Sources, ConfirmedBeforeCurrent
  <2> QED
    BY <2>5, <2>6, <2>7, <2>8, <2>9 DEF PreferenceInv
<1> QED
  BY <1>2, <1>3 DEF Fix

-----------------------------------------------------------------------------
(* What a job's transaction decides and writes.                            *)

Moves == {"NEW", "UPDATE", "REAFFIRM", "WITHHOLD"}

\* A choice is about the current row at the version it cites.
LEMMA ChoiceOnCurrent ==
  ASSUME NEW p, NEW act, NEW ver, ChoiceReason(p, act, ver) \in {"WITHHOLD", "REAFFIRM", "not_held"}
  PROVE  Current(p) /\ claim[p].ver = ver
  BY DEF ChoiceReason

\* A job that moves a preference captured the row as it is, and only a declaration
\* that needs no confirmation makes a value current.
LEMMA OutcomeOnCaptured ==
  ASSUME NEW j \in Jobs, PreferenceOutcome(j) \in Moves
  PROVE  /\ rec[j].snap[rec[j].reply.id] = Binding(rec[j].reply.id)
         /\ PreferenceOutcome(j) \in {"NEW", "UPDATE"} => Declares(j)
<1> DEFINE p == rec[j].reply.id
           snap == rec[j].snap[p]
           fits == IF snap = 0 THEN claim[p].st = "none" ELSE Usable(p) /\ claim[p].ver = snap
           reason == Reason(p, Commitment(j), rec[j].reply.val, snap)
           choice == ChoiceReason(p, rec[j].reply.act, snap)
<1>1. CASE Declares(j)
  <2>1. PreferenceOutcome(j) = IF fits THEN reason ELSE "stale"
    BY <1>1 DEF PreferenceOutcome
  <2>2. fits
    BY <2>1 DEF Moves
  <2> QED
    BY <1>1, <2>2 DEF Binding, Usable
<1>2. CASE ~Declares(j)
  <2>1. \/ PreferenceOutcome(j) = "none"
        \/ PreferenceOutcome(j) = "REAFFIRM" /\ choice = "not_held"
        \/ PreferenceOutcome(j) = choice
    BY <1>2 DEF PreferenceOutcome
  <2>2. choice \in {"inconsistent", "stale", "WITHHOLD", "REAFFIRM", "not_held"}
    BY DEF ChoiceReason
  <2>3. choice \in {"WITHHOLD", "REAFFIRM", "not_held"} /\ PreferenceOutcome(j) \notin {"NEW", "UPDATE"}
    <3> HIDE DEF choice
    <3> QED
      BY <2>1, <2>2 DEF Moves
  <2>4. Current(p) /\ claim[p].ver = snap
    BY <2>3, ChoiceOnCurrent
  <2> QED
    BY <2>3, <2>4 DEF Binding, Usable, Current
<1> QED
  BY <1>1, <1>2

LEMMA ResidualIs ==
  ASSUME NEW j \in Jobs
  PROVE  Residual(j) \in {{}, Broad, {FactKey(j)}}
  BY DEF Residual

\* What applying job j does to the record, the ledger, the question and the fact.
LEMMA ApplyRows ==
  ASSUME PreferenceInv, NEW j \in Jobs, ApplyOnce(j)
  PROVE  /\ DOMAIN rec' = Jobs /\ \A i \in Jobs : i # j => rec'[i] = rec[i]
         /\ DOMAIN rec'[j] = RecordFields /\ rec'[j].st = "applied" /\ rec'[j].plan = rec[j].plan
         /\ rec'[j].reply = rec[j].reply /\ rec'[j].ctx = rec[j].ctx
         /\ rec'[j].settled = Settled(j) /\ rec'[j].residual = Residual(j)
         /\ DOMAIN claim' = Ids
         /\ \A q \in Ids :
              \/ claim'[q] = claim[q]
              \/ /\ q = rec[j].reply.id /\ PreferenceOutcome(j) \in Moves
                 /\ claim'[q] = Moved(q, PreferenceOutcome(j), rec[j].reply.val, Commitment(j), j)
         /\ DOMAIN ask' = Jobs /\ \A i \in Jobs : \/ ask'[i] = ask[i]
                                                  \/ i = j /\ DOMAIN ask'[i] = {"st", "ver"} /\ ask'[i].st = "pending"
         /\ DOMAIN fact' = {"ver", "live", "strong", "others"} /\ fact'.ver \in Versions
         /\ fact'.ver # fact.ver => FactOutcome(j) = "UPDATE"
<1>1. Shape /\ MaxVersion \in Nat
  BY PreferenceAssumption DEF PreferenceInv
<1>2. rec' = [rec EXCEPT ![j].st = "applied", ![j].settled = Settled(j), ![j].residual = Residual(j)]
  BY DEF ApplyOnce
<1>3. /\ DOMAIN rec' = Jobs /\ \A i \in Jobs : i # j => rec'[i] = rec[i]
      /\ DOMAIN rec'[j] = RecordFields /\ rec'[j].st = "applied" /\ rec'[j].plan = rec[j].plan
      /\ rec'[j].reply = rec[j].reply /\ rec'[j].ctx = rec[j].ctx
      /\ rec'[j].settled = Settled(j) /\ rec'[j].residual = Residual(j)
  BY <1>1, <1>2 DEF Shape, RecordFields
<1> DEFINE r == rec[j].reply
           row == Moved(r.id, PreferenceOutcome(j), r.val, Commitment(j), j)
<1>4. \/ claim' = claim
      \/ PreferenceOutcome(j) \in Moves /\ claim' = [claim EXCEPT ![r.id] = row]
  BY DEF ApplyOnce, Moves
<1>5. DOMAIN claim' = Ids /\ \A q \in Ids :
                           \/ claim'[q] = claim[q]
                           \/ q = r.id /\ PreferenceOutcome(j) \in Moves /\ claim'[q] = row
  <2> HIDE DEF row
  <2> QED
    BY <1>1, <1>4 DEF Shape
<1>6. ask' = ask \/ ask' = [ask EXCEPT ![j] = [st |-> "pending", ver |-> rec[j].snap[r.id]]]
  BY DEF ApplyOnce
<1>7. DOMAIN ask' = Jobs /\ \A i \in Jobs :
                           \/ ask'[i] = ask[i]
                           \/ i = j /\ DOMAIN ask'[i] = {"st", "ver"} /\ ask'[i].st = "pending"
  BY <1>1, <1>6 DEF Shape
<1>8. \/ FactOutcome(j) = "UPDATE" /\ fact.ver < MaxVersion /\ fact' = [fact EXCEPT !.ver = @ + 1, !.strong = FALSE]
      \/ fact' = [fact EXCEPT !.others = @ + 1]
      \/ fact' = fact
  BY DEF ApplyOnce
<1>9. fact.ver < MaxVersion => fact.ver + 1 \in Versions
  BY <1>1 DEF Shape, Versions
<1>10. /\ DOMAIN fact' = {"ver", "live", "strong", "others"} /\ fact'.ver \in Versions
       /\ fact'.ver # fact.ver => FactOutcome(j) = "UPDATE"
  BY <1>1, <1>8, <1>9 DEF Shape
<1> HIDE DEF row
<1> QED
  BY <1>3, <1>5, <1>7, <1>10 DEF row

LEMMA ApplyHolds ==
  ASSUME PreferenceInv, NEW j \in Jobs, job[j].st # "none", rec[j].st # "applied", ApplyOnce(j)
  PROVE  Holds' /\ DOMAIN hold' = Jobs /\ \A i \in Jobs : DOMAIN hold'[i] = {"why", "at", "released"}
<1>1. /\ hold' = Released(j) /\ Shape /\ Accepting
      /\ rec'[j].settled = Settled(j) /\ \A i \in Jobs : i # j => rec'[i] = rec[i]
  BY ApplyRows DEF ApplyOnce, PreferenceInv
<1>2. Cardinality(Accepted) \in Nat /\ j <= Cardinality(Accepted)
  BY <1>1, AcceptedCount
<1> DEFINE own == [why |-> "residual", at |-> Cardinality(Accepted), released |-> {}]
<1>3. DOMAIN hold' = Jobs /\ \A i \in Jobs : DOMAIN hold[i] = {"why", "at", "released"}
  BY <1>1 DEF Released, Shape
<1>4. \A i \in Jobs :
        \/ i \in Releasable(j) /\ hold'[i] = [hold[i] EXCEPT !.released = @ \cup (Settled(j) \cap Remaining(i))]
        \/ i = j /\ hold'[i] = own
        \/ hold'[i] = hold[i]
  BY <1>1 DEF Released
<1>5. \A i \in Jobs : DOMAIN hold'[i] = {"why", "at", "released"}
  BY <1>3, <1>4
<1>6. \A i \in Jobs : \A k \in rec[i].settled : k \in rec'[i].settled
  <2>1. rec[j].settled = {}
    BY DEF PreferenceInv, Records
  <2> QED
    BY <1>1, <2>1
<1>7. \A i \in Jobs : \A k \in hold[i].released : \E n \in Jobs : n > i /\ k \in rec'[n].settled
  BY <1>6 DEF PreferenceInv, Holds
<1>8. ASSUME NEW i \in Jobs
      PROVE  /\ hold'[i].why # "none" => hold'[i].at \in Nat /\ i <= hold'[i].at
             /\ \A k \in hold'[i].released : \E n \in Jobs : n > i /\ k \in rec'[n].settled
  <2>0. hold[i].why # "none" => hold[i].at \in Nat /\ i <= hold[i].at
    BY DEF PreferenceInv, Holds
  <2>1. CASE i \in Releasable(j) /\ hold'[i] = [hold[i] EXCEPT !.released = @ \cup (Settled(j) \cap Remaining(i))]
    <3>1. hold[i].why # "none" /\ hold[i].at < j
      BY <2>1 DEF Releasable
    <3>2. i < j
      BY <2>0, <3>1, JobNumbers
    <3>3. /\ hold'[i].why = hold[i].why /\ hold'[i].at = hold[i].at
          /\ \A k \in hold'[i].released : k \in hold[i].released \/ k \in Settled(j)
      BY <1>3, <2>1
    <3>4. j > i
      BY <3>2, JobNumbers
    <3> QED
      BY <1>1, <1>7, <2>0, <3>3, <3>4
  <2>2. CASE i = j /\ hold'[i] = own
    <3>1. hold'[i].at = Cardinality(Accepted) /\ hold'[i].released = {}
      BY <2>2
    <3> QED
      BY <1>2, <2>2, <3>1
  <2>3. CASE hold'[i] = hold[i]
    BY <1>7, <2>0, <2>3
  <2> QED
    BY <1>4, <2>1, <2>2, <2>3
<1> QED
  BY <1>3, <1>5, <1>8 DEF Holds

LEMMA ApplySources ==
  ASSUME PreferenceInv, NEW j \in Jobs, rec[j].st # "applied", ApplyOnce(j)
  PROVE  Sources' /\ \A q \in Ids : DOMAIN claim'[q] = ClaimFields
<1>1. Shape /\ ask[j].st = "none" /\ \A i \in Jobs : i # j => ask'[i] = ask[i]
  BY ApplyRows DEF PreferenceInv, Records
<1>2. \A i \in Jobs : ask[i].st = "confirmed" => ask'[i].st = "confirmed"
  BY <1>1
<1>3. ASSUME NEW q \in Ids
      PROVE  /\ claim'[q].src \in Jobs \cup {0} /\ DOMAIN claim'[q] = ClaimFields
             /\ claim'[q].src # 0 /\ Policy[claim'[q].src] = 2 => ask'[claim'[q].src].st = "confirmed"
  <2> DEFINE out == PreferenceOutcome(j)
             row == Moved(q, out, rec[j].reply.val, Commitment(j), j)
  <2>1. CASE claim'[q] = claim[q]
    BY <1>1, <1>2, <2>1, SourceKept DEF Shape
  <2>2. CASE out \in Moves /\ claim'[q] = row
    <3>1. /\ DOMAIN row = ClaimFields 
          /\ out \notin {"NEW", "UPDATE"} => row.src = claim[q].src
          /\ out \in {"NEW", "UPDATE"} => row.src = j
      BY <1>1, MovedRow
    <3>2. out \in {"NEW", "UPDATE"} => Policy[j] = 1
      BY <2>2, OutcomeOnCaptured DEF Declares
    <3> HIDE DEF row, out
    <3>3. CASE out \in {"NEW", "UPDATE"}
      BY <2>2, <3>1, <3>2, <3>3
    <3>4. CASE out \notin {"NEW", "UPDATE"}
      BY <1>2, <2>2, <3>1, <3>4, SourceKept
    <3> QED
      BY <3>3, <3>4
  <2> QED
    BY <2>1, <2>2, ApplyRows
<1> QED
  BY <1>3 DEF Sources, ConfirmedBeforeCurrent

LEMMA ApplyKeeps ==
  ASSUME PreferenceInv, NEW w \in Workers, Apply(w)
  PROVE  PreferenceInv'
<1> DEFINE j == work[w].job
<1>1. /\ UNCHANGED job /\ Shape /\ Records /\ work[w].pc # "idle" /\ Goto(w, "finish")
      /\ j \in Jobs /\ job[j].st # "none" /\ rec[j].st # "none"
      /\ "finish" \in CapturedSteps /\ "legacy" \notin CapturedSteps /\ DOMAIN job' = Jobs
  BY DEF Apply, PreferenceInv, Accepting, CapturedSteps, Shape
<1>2. /\ DOMAIN work' = Workers /\ \A v \in Workers : v # w => work'[v] = work[v]
      /\ DOMAIN work'[w] = WorkFields /\ work'[w].plan \in Plans
  BY <1>1, GotoDoes
<1>3. CASE UNCHANGED <<claim, fact, rec, hold, review, ask>>
  BY <1>1, <1>3, GotoDoes, WorkerMoves
<1>4. CASE rec[j].st = "validated" /\ ApplyOnce(j)
  <2>1. /\ DOMAIN rec' = Jobs /\ \A i \in Jobs : i # j => rec'[i] = rec[i]
        /\ DOMAIN rec'[j] = RecordFields /\ rec'[j].st = "applied" /\ rec'[j].plan = rec[j].plan
        /\ rec'[j].ctx = rec[j].ctx /\ rec'[j].residual = Residual(j)
        /\ DOMAIN claim' = Ids
        /\ DOMAIN ask' = Jobs /\ \A i \in Jobs  : ask'[i] = ask[i] \/ (i = j /\ DOMAIN ask'[i] = {"st", "ver"})
        /\ DOMAIN fact' = {"ver", "live", "strong", "others"} /\ fact'.ver \in Versions
    BY <1>1, <1>4, ApplyRows
  <2>2. Accepting' /\ Lanes'
    BY <1>1, <2>1, RecordMoves
  <2>3. Holds' /\ DOMAIN hold' = Jobs /\ \A i \in Jobs : DOMAIN hold'[i] = {"why", "at", "released"}
    BY <1>1, <1>4, ApplyHolds
  <2>4. Sources' /\ \A q \in Ids : DOMAIN claim'[q] = ClaimFields
    BY <1>1, <1>4, ApplySources
  <2>5. Shape'
    BY <1>1, <1>2, <2>1, <2>3, <2>4 DEF Shape, Versions, WorkFields
  <2>6. Records'
    <3> SUFFICES /\ \A i \in Jobs :
                      /\ rec'[i].st \in {"none", "captured", "validated", "applied"}
                      /\ rec'[i].plan \in Plans /\ rec'[i].ctx["fact"] \in Versions
                      /\ rec'[i].st = "applied" => rec'[i].residual \in {{}, Broad, {FactKey(i)'}}
                      /\ rec'[i].st # "applied" => rec'[i].settled = {}
                      /\ ask'[i].st # "none" => rec'[i].st = "applied"
                 /\ \A v \in Workers : work'[v].plan \in Plans
      BY DEF Records, Versions, Broad
    <3>1. \A v \in Workers : work'[v].plan \in Plans
      BY <1>2 DEF PreferenceInv, Records
    <3>2. \A i \in Jobs : FactKey(i)' = FactKey(i)
      BY <2>1 DEF FactKey, Fact
    <3> QED
      BY <1>1, <2>1, <3>1, <3>2, ResidualIs DEF Records
  <2> QED
    BY <2>2, <2>3, <2>4, <2>5, <2>6 DEF PreferenceInv
<1> QED
  BY <1>3, <1>4 DEF Apply

-----------------------------------------------------------------------------
(* The invariant holds.                                                    *)

LEMMA InitHolds ==
  ASSUME Init
  PROVE  PreferenceInv
<1>1. /\ DOMAIN claim = Ids /\ \A p \in Ids : DOMAIN claim[p] = ClaimFields /\ claim[p].src = 0
  BY DEF Init, ClaimFields
<1>2. DOMAIN fact = {"ver", "live", "strong", "others"} /\ fact.ver = 1
  BY DEF Init
<1>3. /\ DOMAIN job = Jobs
      /\ \A j \in Jobs : DOMAIN job[j] = {"st", "route", "source", "legacy"} /\ job[j].st = "none" /\ ~job[j].legacy
  BY DEF Init
<1>4. /\ DOMAIN rec = Jobs
      /\ \A j \in Jobs : /\ DOMAIN rec[j] = RecordFields /\ rec[j].st = "none" /\ rec[j].plan \in Plans
                         /\ rec[j].ctx["fact"] = 0 /\ rec[j].settled = {}
  BY NoPlanIs DEF Init, NoRecord, RecordFields
<1>5. /\ DOMAIN hold = Jobs
      /\ \A j \in Jobs : DOMAIN hold[j] = {"why", "at", "released"} /\ hold[j].why = "none" /\ hold[j].released = {}
  BY DEF Init
<1>6. DOMAIN ask = Jobs /\ \A j \in Jobs : DOMAIN ask[j] = {"st", "ver"} /\ ask[j].st = "none"
  BY DEF Init, NoQuestion
<1>7. /\ DOMAIN work = Workers
      /\ \A w \in Workers : DOMAIN work[w] = WorkFields /\ work[w].pc = "idle" /\ work[w].plan \in Plans
  BY NoPlanIs DEF Init, Idle, WorkFields
<1>8. fact.ver \in Versions /\ 0 \in Versions
  BY <1>2, PreferenceAssumption DEF Versions
<1>9. Shape
  BY <1>1, <1>2, <1>3, <1>4, <1>5, <1>6, <1>7, <1>8 DEF Shape, WorkFields
<1>10. Accepting /\ Lanes /\ Holds
  BY <1>3, <1>4, <1>5, <1>7 DEF Accepting, Lanes, LaneKept, Holds
<1>11. Records
  BY <1>4, <1>6, <1>7, <1>8 DEF Records
<1>12. Sources
  BY <1>1 DEF Sources, ConfirmedBeforeCurrent
<1> QED
  BY <1>9, <1>10, <1>11, <1>12 DEF PreferenceInv

LEMMA NextKeeps ==
  ASSUME PreferenceInv, [Next]_vars
  PROVE  PreferenceInv'
<1>1. ASSUME NEW w \in Workers, NEW j \in Jobs, Select(w, j)
      PROVE  PreferenceInv'
  BY <1>1, SelectKeeps
<1>2. ASSUME NEW w \in Workers,
             Capture(w) \/ Load(w) \/ Admit(w) \/ Fix(w) \/ Apply(w) \/ Crash(w)
      PROVE  PreferenceInv'
  BY <1>2, CaptureKeeps, LoadKeeps, AdmitKeeps, FixKeeps, ApplyKeeps, CrashKeeps
<1>3. ASSUME NEW w \in Workers, Finish(w) \/ Legacy(w) \/ Die(w)
      PROVE  PreferenceInv'
  BY <1>3, EndingsKeep
<1>4. ASSUME NEW j \in Jobs, Accept(j) \/ LoseSource(j) \/ Retry(j)
      PROVE  PreferenceInv'
  BY <1>4, JobRowsKeep
<1>5. ASSUME NEW j \in Jobs, Quarantine(j) \/ Confirm(j)
      PROVE  PreferenceInv'
  BY <1>5, QuarantineKeeps, ConfirmKeeps
<1>6. ASSUME NEW j \in Jobs, Lapse(j) \/ \E a \in {"keep_current", "dismiss"} : AnswerReview(j, a) \/ Decline(j, a)
      PROVE  PreferenceInv'
  BY <1>6, AnswerKeeps
<1>7. ASSUME NEW p \in Ids, ArchivePreference(p) \/ DeletePreference(p)
      PROVE  PreferenceInv'
  BY <1>7, ArchiveKeeps
<1>8. ASSUME NEW p \in Ids, NEW c \in {"asserted", "replacement", "uncertain"}, NEW v \in Values,
             Declare(p, c, v, claim[p].ver)
      PROVE  PreferenceInv'
  BY <1>8, DeclareKeeps
<1>9. CASE OtherWriter
  BY <1>9, OtherWriterKeeps
<1>10. CASE Flip \/ UNCHANGED vars
  BY <1>10, FlipKeeps DEF Flip, vars
<1> QED
  BY <1>1, <1>2, <1>3, <1>4, <1>5, <1>6, <1>7, <1>8, <1>9, <1>10 DEF Next

\* The invariant behind the lane: jobs are accepted in order, a worker past its capture
\* has a record to work on, a receipt says what it settled, and whatever is released of
\* a hold a later job settled (capture, admit, apply, commit_target_releases).
THEOREM PreferencesHeld == Spec => []PreferenceInv
<1>1. Init => PreferenceInv
  BY InitHolds
<1>2. PreferenceInv /\ [Next]_vars => PreferenceInv'
  BY NextKeeps
<1> QED
  BY <1>1, <1>2, PTL DEF Spec

\* A job whose route was reserved at acceptance is never processed by the extraction
\* pipeline, whatever the flags do while workers hold it (_selection).
THEOREM Lane == Spec => []LaneKept
<1>1. PreferenceInv => LaneKept
  BY DEF PreferenceInv, Lanes
<1> QED
  BY <1>1, PreferencesHeld, PTL

-----------------------------------------------------------------------------
(* What a read finds.                                                      *)

\* A hold on all of the profile withholds all of it; any other is part of what is
\* withheld, and the fact it names, at the version it is in now, too.
LEMMA BroadWithholds ==
  ASSUME NEW j \in Jobs, Unresolved(j), HoldOf(j) = Broad
  PROVE  RuntimeHold = Broad
  BY Zenon DEF RuntimeHold

LEMMA KeyWithheld ==
  ASSUME NEW j \in Jobs, Unresolved(j), NEW k \in HoldOf(j), RuntimeHold # Broad
  PROVE  /\ k \in RuntimeHold
         /\ \A v \in Versions : k = Fact(v) => v = fact.ver
<1> DEFINE pending == {i \in Jobs : Unresolved(i)}
           keys == UNION {HoldOf(i) : i \in {n \in pending : HoldOf(n) # Broad}}
           lost == \/ Cardinality(pending) > MaxPage
                   \/ \E i \in pending : HoldOf(i) = Broad
                   \/ \E v \in Versions : Fact(v) \in keys /\ (v # fact.ver \/ ~fact.live)
<1>1. RuntimeHold = IF lost THEN Broad ELSE keys
  BY DEF RuntimeHold
<1>2. ~lost /\ RuntimeHold = keys
  <2> HIDE DEF lost, keys
  <2> QED
    BY <1>1
<1>3. HoldOf(j) # Broad
  BY BroadWithholds
<1>4. k \in keys
  BY <1>3
<1>5. \A v \in Versions : Fact(v) \in keys => v = fact.ver
  <2> HIDE DEF keys, pending
  <2> QED
    BY <1>2
<1> HIDE DEF keys
<1> QED
  BY <1>2, <1>4, <1>5

LEMMA NothingServed ==
  ASSUME NEW p, RuntimeHold = Broad \/ Pref(p) \in RuntimeHold \/ Pref(Global) \in RuntimeHold
  PROVE  Served(p) = NoId
  BY DEF Served

LEMMA PreferencesUnserved ==
  ASSUME PreferenceInv
  PROVE  UnsettledNotServed
<1> SUFFICES ASSUME NEW j \in Accepted, NEW p \in Ids, Guarded(j), rec[j].st # "applied", Served(p) # NoId
             PROVE  /\ rec[j].st = "validated"
                    /\ rec[j].reply.id \in {p, Global} =>
                         \E i \in Jobs : i > j /\ Pref(rec[j].reply.id) \in rec[i].settled
  BY DEF UnsettledNotServed
<1> DEFINE id == rec[j].reply.id
<1>1. j \in Jobs /\ job[j].st # "none" /\ rec[j].st \in {"none", "captured", "validated"}
  BY DEF Accepted, PreferenceInv, Records
<1>2. RuntimeHold # Broad
  BY NothingServed
<1>3. FullyReleased(j) \/ Unresolved(j)
  BY <1>1 DEF Unresolved
<1>4. Extent(j) # Broad
  <2> SUFFICES ASSUME Extent(j) = Broad PROVE FALSE
    OBVIOUS
  <2>1. ~FullyReleased(j) /\ HoldOf(j) = Broad
    BY DEF FullyReleased, HoldOf
  <2> QED
    BY <1>1, <1>2, <1>3, <2>1, BroadWithholds
<1>5. rec[j].st = "validated" /\ Extent(j) = Footprint(j)
  BY <1>1, <1>4 DEF Extent
<1>6. ASSUME id \in {p, Global}
      PROVE  \E i \in Jobs : i > j /\ Pref(id) \in rec[i].settled
  <2>1. id # NoId
    BY <1>6 DEF Ids, NoId, Global, Project
  <2>2. Pref(id) \in Extent(j)
    <3> HIDE DEF id
    <3>1. Footprint(j) = Broad \/ Pref(id) \in Footprint(j)
      BY <2>1 DEF Footprint, id
    <3> QED
      BY <1>4, <1>5, <3>1
  <2>3. CASE Pref(id) \in hold[j].released
    BY <1>1, <2>3 DEF PreferenceInv, Holds
  <2>4. CASE Pref(id) \notin hold[j].released
    <3>1. Unresolved(j)
      BY <1>3, <2>2, <2>4 DEF FullyReleased
    <3>2. Pref(id) \in HoldOf(j)
      <4>1. HoldOf(j) # Broad
        BY <1>1, <1>2, <3>1, BroadWithholds
      <4> QED
        BY <2>2, <2>4, <4>1 DEF HoldOf
    <3>3. Pref(id) \in RuntimeHold
      BY <1>1, <1>2, <3>1, <3>2, KeyWithheld
    <3> QED
      BY <1>6, <3>3, NothingServed
  <2> QED
    BY <2>3, <2>4
<1> QED
  BY <1>5, <1>6

LEMMA PendingFactsUnserved ==
  ASSUME PreferenceInv
  PROVE  PendingFactNotServed
<1> SUFFICES ASSUME NEW j \in Jobs, rec[j].st = "applied", rec[j].residual # {}, FactServed
             PROVE  \E i \in Jobs : i > j /\ rec[j].residual \subseteq rec[i].settled
  BY DEF PendingFactNotServed
<1> DEFINE v == rec[j].ctx["fact"]
<1>1. RuntimeHold # Broad /\ Fact(fact.ver) \notin RuntimeHold
  BY DEF FactServed
<1>2. /\ Extent(j) = rec[j].residual /\ rec[j].residual \in {Broad, {Fact(v)}} /\ v \in Versions
      /\ FullyReleased(j) \/ Unresolved(j)
  <2>1. job[j].st # "none" /\ Guarded(j)
    BY DEF PreferenceInv, Accepting, Guarded
  <2>2. rec[j].residual \in {Broad, {Fact(v)}} /\ v \in Versions
    BY DEF PreferenceInv, Records, FactKey
  <2> QED
    BY <2>1, <2>2 DEF Extent, Unresolved
<1>3. Extent(j) # Broad
  <2> SUFFICES ASSUME Extent(j) = Broad PROVE FALSE
    OBVIOUS
  <2>1. ~FullyReleased(j) /\ HoldOf(j) = Broad
    BY DEF FullyReleased, HoldOf
  <2> QED
    BY <1>1, <1>2, <2>1, BroadWithholds
<1>4. CASE Fact(v) \in hold[j].released
  <2>1. \E i \in Jobs : i > j /\ Fact(v) \in rec[i].settled
    BY <1>4 DEF PreferenceInv, Holds
  <2> QED
    BY <1>2, <1>3, <2>1
<1>5. CASE Fact(v) \notin hold[j].released
  <2>1. Unresolved(j)
    BY <1>2, <1>3, <1>5 DEF FullyReleased
  <2>2. Fact(v) \in HoldOf(j)
    <3>1. HoldOf(j) # Broad
      BY <1>1, <2>1, BroadWithholds
    <3> QED
      BY <1>2, <1>3, <1>5, <3>1 DEF HoldOf
  <2>3. Fact(v) \in RuntimeHold /\ v = fact.ver
    <3> HIDE DEF v
    <3> QED
      BY <1>1, <1>2, <2>1, <2>2, KeyWithheld
  <2> QED
    BY <1>1, <2>3
<1> QED
  BY <1>4, <1>5

\* Nothing unsettled is served, for any number of jobs and workers: no preference that
\* an undecided or unapplied job may still change, no fact that a job left pending, no
\* value before its confirmation (read_runtime_hold, _retrieve_declared_preferences).
THEOREM Unsettled == Spec => []NothingUnsettled
<1>1. PreferenceInv => NothingUnsettled
  BY PreferencesUnserved, PendingFactsUnserved DEF NothingUnsettled, PreferenceInv, Sources
<1> QED
  BY <1>1, PreferencesHeld, PTL

-----------------------------------------------------------------------------
(* What a step does to the records, the questions and the ledger.          *)

\* A record is captured, fixed and applied, each at most once.
LEMMA RecordSteps ==
  ASSUME PreferenceInv, [Next]_vars, NEW j \in Jobs
  PROVE  \/ rec'[j] = rec[j]
         \/ rec[j].st = "none" /\ rec'[j].st # "applied"
         \/ rec[j].st = "captured" /\ rec'[j].st # "applied"
         \/ rec[j].st = "validated" /\ ApplyOnce(j)
<1>1. Shape
  BY DEF PreferenceInv
<1>2. CASE rec' = rec
  BY <1>2
<1>3. ASSUME NEW w \in Workers, Capture(w)
      PROVE  rec'[j] = rec[j] \/ (rec[j].st = "none" /\ rec'[j].st # "applied")
  <2> DEFINE new == [NoRecord EXCEPT !.st = "captured", !.full = Complete,
                                     !.snap = [p \in Ids |-> Binding(p)], !.ctx = Bindings]
  <2>1. rec' = rec \/ (rec[work[w].job].st = "none" /\ rec' = [rec EXCEPT ![work[w].job] = new])
    BY <1>3 DEF Capture
  <2>2. new.st = "captured"
    BY DEF NoRecord
  <2> HIDE DEF new
  <2> QED
    BY <1>1, <2>1, <2>2 DEF Shape
<1>4. ASSUME NEW w \in Workers, Fix(w)
      PROVE  rec'[j] = rec[j] \/ (rec[j].st = "captured" /\ rec'[j].st # "applied")
  <2>1. rec' = rec \/ (rec[work[w].job].st = "captured" /\ rec' = Fixed(w))
    BY <1>4 DEF Fix
  <2>2. rec' = Fixed(w) => IF work[w].job = j THEN rec'[j].st = "validated" ELSE rec'[j] = rec[j]
    BY <1>1 DEF Shape, Fixed, RecordFields
  <2> QED
    BY <2>1, <2>2
<1>5. ASSUME NEW w \in Workers, Apply(w)
      PROVE  rec'[j] = rec[j] \/ (rec[j].st = "validated" /\ ApplyOnce(j))
  <2>1. rec' = rec \/ (rec[work[w].job].st = "validated" /\ ApplyOnce(work[w].job))
    BY <1>5 DEF Apply
  <2>2. work[w].job \in Jobs
    BY <1>5 DEF Apply, PreferenceInv, Accepting
  <2>3. ASSUME ApplyOnce(work[w].job) PROVE work[w].job # j => rec'[j] = rec[j]
    BY <2>2, <2>3, ApplyRows
  <2> QED
    BY <2>1, <2>3
<1>6. \/ rec' = rec
      \/ \E w \in Workers : Capture(w) \/ Fix(w) \/ Apply(w)
  <2>1. ASSUME NEW w \in Workers, NEW i \in Jobs, Select(w, i) PROVE rec' = rec
    BY <2>1 DEF Select
  <2>2. ASSUME NEW w \in Workers, Load(w) \/ Admit(w) \/ Finish(w) \/ Legacy(w) \/ Crash(w) \/ Die(w) PROVE rec' = rec
    BY <2>2 DEF Load, Admit, Finish, Legacy, Crash, Die
  <2>3. ASSUME NEW i \in Jobs,
               Accept(i) \/ LoseSource(i) \/ Quarantine(i) \/ Retry(i) \/ Confirm(i) \/ Lapse(i)
        PROVE  rec' = rec
    BY <2>3 DEF Accept, LoseSource, Quarantine, Retry, Confirm, Lapse
  <2>4. ASSUME NEW i \in Jobs, NEW a, AnswerReview(i, a) \/ Decline(i, a) PROVE rec' = rec
    BY <2>4 DEF AnswerReview, Decline
  <2>5. ASSUME NEW p \in Ids, ArchivePreference(p) \/ DeletePreference(p) PROVE rec' = rec
    BY <2>5 DEF ArchivePreference, DeletePreference
  <2>6. ASSUME NEW p \in Ids, NEW c, NEW v, Declare(p, c, v, claim[p].ver) PROVE rec' = rec
    BY <2>6 DEF Declare
  <2>7. CASE OtherWriter \/ Flip \/ UNCHANGED vars
    BY <2>7 DEF OtherWriter, Flip, vars
  <2> QED
    BY <2>1, <2>2, <2>3, <2>4, <2>5, <2>6, <2>7 DEF Next
<1> QED
  BY <1>2, <1>3, <1>4, <1>5, <1>6

\* A question is confirmed by its answer only.
LEMMA QuestionSteps ==
  ASSUME PreferenceInv, [Next]_vars, NEW j \in Jobs, ask[j].st # "confirmed", ask'[j].st = "confirmed"
  PROVE  Confirm(j)
<1>1. Shape
  BY DEF PreferenceInv
<1>2. ask' # ask
  OBVIOUS
<1>3. ASSUME NEW w \in Workers, Apply(w) PROVE FALSE
  <2>1. work[w].job \in Jobs
    BY <1>3 DEF Apply, PreferenceInv, Accepting
  <2>2. ApplyOnce(work[w].job)
    BY <1>2, <1>3 DEF Apply
  <2> QED
    BY <2>1, <2>2, ApplyRows
<1>4. ASSUME NEW i \in Jobs, Confirm(i) PROVE Confirm(j)
  <2>1. ask' = [ask EXCEPT ![i].st = "confirmed"]
    BY <1>4 DEF Confirm
  <2>2. i = j
    BY <1>1, <2>1 DEF Shape
  <2> QED
    BY <1>4, <2>2
<1>5. ASSUME NEW i \in Jobs, NEW a, AnswerReview(i, a) \/ Decline(i, a) \/ Lapse(i) PROVE FALSE
  <2>1. \E s \in {"closed", "lapsed"} : ask' = [ask EXCEPT ![i].st = s]
    BY <1>2, <1>5 DEF AnswerReview, Decline, Lapse
  <2> QED
    BY <1>1, <2>1 DEF Shape
<1>6. ASSUME NEW w \in Workers, NEW i \in Jobs, Select(w, i) PROVE FALSE
  BY <1>2, <1>6 DEF Select
<1>7. ASSUME NEW w \in Workers,
             Capture(w) \/ Load(w) \/ Admit(w) \/ Fix(w) \/ Finish(w) \/ Legacy(w) \/ Crash(w) \/ Die(w)
      PROVE  FALSE
  BY <1>2, <1>7 DEF Capture, Load, Admit, Fix, Finish, Legacy, Crash, Die
<1>8. ASSUME NEW i \in Jobs, Accept(i) \/ LoseSource(i) \/ Quarantine(i) \/ Retry(i) PROVE FALSE
  BY <1>2, <1>8 DEF Accept, LoseSource, Quarantine, Retry
<1>9. ASSUME NEW p \in Ids, ArchivePreference(p) \/ DeletePreference(p) PROVE FALSE
  BY <1>2, <1>9 DEF ArchivePreference, DeletePreference
<1>10. ASSUME NEW p \in Ids, NEW c, NEW v, Declare(p, c, v, claim[p].ver) PROVE FALSE
  BY <1>2, <1>10 DEF Declare
<1>11. CASE OtherWriter \/ Flip \/ UNCHANGED vars
  BY <1>2, <1>11 DEF OtherWriter, Flip, vars
<1> QED
  BY <1>3, <1>4, <1>5, <1>6, <1>7, <1>8, <1>9, <1>10, <1>11 DEF Next

\* An archived row moves only when a replacement names it.
LEMMA ArchivedReason ==
  ASSUME NEW p \in Ids, NEW c, NEW val, NEW ver, claim[p].st = "archived",
         Reason(p, c, val, ver) \in Moves
  PROVE  c = "replacement" /\ Reason(p, c, val, ver) = "UPDATE"
  BY DEF Reason, Moves, Usable, Current, Held

LEMMA ArchivedRow ==
  ASSUME Shape, NEW p \in Ids, NEW val, NEW src
  PROVE  /\ Moved(p, "UPDATE", val, "replacement", src).how = "replacement"
         /\ Moved(p, "UPDATE", val, "replacement", src).ver = claim[p].ver + 1
<1>1. DOMAIN claim[p] = ClaimFields
  BY DEF Shape
<1> DEFINE old == claim[p].old \/ "UPDATE" = "UPDATE" \/ claim[p].st = "cleared"
<1>2. Moved(p, "UPDATE", val, "replacement", src) =
        [[claim[p] EXCEPT !.ver = claim[p].ver + 1]
           EXCEPT !.st = "active", !.val = val, !.how = "replacement", !.src = src, !.old = old]
  BY DEF Moved
<1> HIDE DEF old
<1> QED
  BY <1>1, <1>2 DEF ClaimFields

Revived(p) == claim'[p].how = "replacement" /\ claim'[p].ver = claim[p].ver + 1

LEMMA ArchivedApply ==
  ASSUME PreferenceInv, NEW j \in Jobs, ApplyOnce(j), NEW p \in Ids, claim[p].st = "archived",
         claim'[p].st = "active"
  PROVE  Revived(p)
<1> DEFINE r == rec[j].reply
           snap == rec[j].snap[r.id]
           out == PreferenceOutcome(j)
<1>1. /\ p = r.id /\ out \in Moves /\ claim'[p] = Moved(p, out, r.val, Commitment(j), j) /\ Shape
  BY ApplyRows DEF PreferenceInv
<1>2. CASE Declares(j)
  <2>1. out = Reason(p, Commitment(j), r.val, snap)
    BY <1>1, <1>2 DEF PreferenceOutcome, Moves
  <2>2. Commitment(j) = "replacement" /\ out = "UPDATE"
    BY <1>1, <2>1, ArchivedReason
  <2> QED
    BY <1>1, <2>2, ArchivedRow DEF Revived
<1>3. CASE ~Declares(j)
  <2> DEFINE choice == ChoiceReason(p, r.act, snap)
  <2>1. out = "none" \/ choice = "not_held" \/ out = choice
    BY <1>1, <1>3 DEF PreferenceOutcome
  <2>2. choice \in {"inconsistent", "stale", "WITHHOLD", "REAFFIRM", "not_held"}
    BY DEF ChoiceReason
  <2>3. choice \in {"WITHHOLD", "REAFFIRM", "not_held"}
    <3> HIDE DEF choice, out
    <3> QED
      BY <1>1, <2>1, <2>2 DEF Moves
  <2>4. Current(p)
    BY <2>3, ChoiceOnCurrent
  <2> QED
    BY <2>4 DEF Current
<1> QED
  BY <1>2, <1>3

LEMMA LedgerSteps ==
  ASSUME PreferenceInv, [Next]_vars, NEW p \in Ids, claim[p].st = "archived", claim'[p].st = "active"
  PROVE  Revived(p)
<1>1. Shape /\ claim' # claim /\ ~Current(p) /\ Usable(p)
  BY DEF PreferenceInv, Current, Usable
<1>2. ASSUME NEW w \in Workers, Apply(w) PROVE Revived(p)
  <2>1. work[w].job \in Jobs /\ ApplyOnce(work[w].job)
    BY <1>1, <1>2 DEF Apply, PreferenceInv, Accepting
  <2> QED
    BY <2>1, ArchivedApply
<1>3. ASSUME NEW j \in Jobs, Confirm(j) PROVE FALSE
  <2> DEFINE r == rec[j].reply
             c == IF rec[j].snap[r.id] = 0 THEN "asserted" ELSE "replacement"
             row == Moved(r.id, Reason(r.id, c, r.val, rec[j].snap[r.id]), r.val, c, j)
  <2>1. Asked(j) /\ claim' = [claim EXCEPT ![r.id] = row]
    BY <1>3 DEF Confirm
  <2>2. r.id = p
    <3> HIDE DEF row, r
    <3> QED
      BY <1>1, <2>1 DEF Shape
  <2> QED
    BY <1>1, <2>1, <2>2 DEF Asked
<1>4. ASSUME NEW j \in Jobs, NEW a, AnswerReview(j, a) PROVE FALSE
  <2> DEFINE q == rec[j].reply.id
  <2>1. Current(q) /\ claim' = [claim EXCEPT ![q].st = "active", ![q].ver = @ + 1]
    BY <1>1, <1>4 DEF AnswerReview
  <2>2. q = p
    <3> HIDE DEF q
    <3> QED
      BY <1>1, <2>1 DEF Shape
  <2> QED
    BY <1>1, <2>1, <2>2
<1>5. ASSUME NEW q \in Ids, ArchivePreference(q) \/ DeletePreference(q) PROVE FALSE
  <2>1. q # p => claim'[p] = claim[p]
    BY <1>1, <1>5 DEF Shape, ArchivePreference, DeletePreference
  <2>2. q = p => claim'[p].st \in {"archived", "cleared", "none"}
    BY <1>1, <1>5 DEF Shape, ClaimFields, ArchivePreference, DeletePreference
  <2> QED
    BY <2>1, <2>2
<1>6. ASSUME NEW q \in Ids, NEW c, NEW v, Declare(q, c, v, claim[q].ver) PROVE Revived(p)
  <2> DEFINE reason == Reason(q, c, v, claim[q].ver)
             row == Moved(q, reason, v, c, 0)
  <2>1. reason \in Moves /\ claim' = [claim EXCEPT ![q] = row]
    BY <1>6 DEF Declare, Moves
  <2>2. q = p /\ claim'[p] = row
    <3> HIDE DEF row
    <3> QED
      BY <1>1, <2>1 DEF Shape
  <2>3. c = "replacement" /\ reason = "UPDATE"
    BY <2>1, <2>2, ArchivedReason
  <2> QED
    BY <1>1, <2>2, <2>3, ArchivedRow DEF Revived
<1>7. ASSUME NEW w \in Workers, NEW i \in Jobs, Select(w, i) PROVE FALSE
  BY <1>1, <1>7 DEF Select
<1>8. ASSUME NEW w \in Workers,
             Capture(w) \/ Load(w) \/ Admit(w) \/ Fix(w) \/ Finish(w) \/ Legacy(w) \/ Crash(w) \/ Die(w)
      PROVE  FALSE
  BY <1>1, <1>8 DEF Capture, Load, Admit, Fix, Finish, Legacy, Crash, Die
<1>9. ASSUME NEW i \in Jobs, Accept(i) \/ LoseSource(i) \/ Quarantine(i) \/ Retry(i) \/ Lapse(i) PROVE FALSE
  BY <1>1, <1>9 DEF Accept, LoseSource, Quarantine, Retry, Lapse
<1>10. ASSUME NEW i \in Jobs, NEW a, Decline(i, a) PROVE FALSE
  BY <1>1, <1>10 DEF Decline
<1>11. CASE OtherWriter \/ Flip \/ UNCHANGED vars
  BY <1>1, <1>11 DEF OtherWriter, Flip, vars
<1> QED
  BY <1>2, <1>3, <1>4, <1>5, <1>6, <1>7, <1>8, <1>9, <1>10, <1>11 DEF Next

-----------------------------------------------------------------------------
(* Decisions are applied as they were made.                                *)

\* A job that corrects the fact found its context and the fact's authority as captured.
LEMMA CorrectedAsSeen ==
  ASSUME PreferenceInv, NEW j \in Jobs, FactOutcome(j) = "UPDATE"
  PROVE  rec[j].ctx = Bindings /\ ~fact.strong
<1>1. ContextUnchanged(j) /\ ~(rec[j].plan.target /\ fact.strong) /\ rec[j].plan.act = "UPDATE"
  BY DEF FactOutcome
<1>2. rec[j].plan.target
  <2>1. rec[j].plan \in Plans
    BY DEF PreferenceInv, Records
  <2>2. /\ rec[j].plan \in [act : {"UPDATE", "KEEP_BOTH", "REJECT", "pending"}, target : BOOLEAN]
        /\ rec[j].plan # [act |-> "UPDATE", target |-> FALSE]
    BY <2>1 DEF Plans
  <2>3. rec[j].plan = [act |-> rec[j].plan.act, target |-> rec[j].plan.target] /\ rec[j].plan.target \in BOOLEAN
    BY <2>2
  <2> QED
    BY <1>1, <2>2, <2>3
<1> QED
  BY <1>1, <1>2 DEF ContextUnchanged

LEMMA FixedOnce ==
  ASSUME PreferenceInv, [Next]_vars, NEW j \in Jobs
  PROVE  /\ Deciding(j) => rec'[j].reply = rec[j].reply /\ rec'[j].plan = rec[j].plan
         /\ rec[j].st = "applied" => rec'[j] = rec[j]
<1>1. ASSUME ApplyOnce(j) PROVE rec'[j].reply = rec[j].reply /\ rec'[j].plan = rec[j].plan
  BY <1>1, ApplyRows
<1> QED
  BY <1>1, RecordSteps DEF Deciding

LEMMA MovedAsCaptured ==
  ASSUME PreferenceInv, [Next]_vars, NEW j \in Jobs, NEW p \in Ids, claim'[p] # claim[p],
         \/ rec'[j].st = "applied" /\ rec[j].st # "applied"
         \/ ask'[j].st = "confirmed" /\ ask[j].st # "confirmed"
  PROVE  rec[j].snap[p] = Binding(p)
<1>1. CASE rec'[j].st = "applied" /\ rec[j].st # "applied"
  <2>1. ApplyOnce(j)
    BY <1>1, RecordSteps
  <2>2. p = rec[j].reply.id /\ PreferenceOutcome(j) \in Moves
    BY <2>1, ApplyRows
  <2> QED
    BY <2>2, OutcomeOnCaptured
<1>2. CASE ask'[j].st = "confirmed" /\ ask[j].st # "confirmed"
  <2> DEFINE r == rec[j].reply
             c == IF rec[j].snap[r.id] = 0 THEN "asserted" ELSE "replacement"
             row == Moved(r.id, Reason(r.id, c, r.val, rec[j].snap[r.id]), r.val, c, j)
  <2>1. Confirm(j)
    BY <1>2, QuestionSteps
  <2>2. Asked(j) /\ claim' = [claim EXCEPT ![r.id] = row] /\ Shape
    BY <2>1 DEF Confirm, PreferenceInv
  <2>3. r.id = p
    <3> HIDE DEF row, r
    <3> QED
      BY <2>2 DEF Shape
  <2> QED
    BY <2>2, <2>3 DEF Asked, Binding, Current, Usable
<1> QED
  BY <1>1, <1>2

LEMMA FactAsSeen ==
  ASSUME PreferenceInv, [Next]_vars, NEW j \in Jobs,
         rec'[j].st = "applied", rec[j].st # "applied", fact'.ver # fact.ver
  PROVE  rec[j].ctx = Bindings /\ ~fact.strong
<1>1. ApplyOnce(j)
  BY RecordSteps
<1>2. FactOutcome(j) = "UPDATE"
  BY <1>1, ApplyRows
<1> QED
  BY <1>2, CorrectedAsSeen

\* However workers, answers and declarations overlap: a fixed decision and a receipt are
\* never replaced, a preference changes only at the version that was captured or asked
\* about, a fact is corrected only in the context its plan was made in, and an archived
\* preference returns only by a replacement that names it (admit, apply, answer).
THEOREM AsDecided == Spec => AppliedAsDecided
<1>1. PreferenceInv /\ [Next]_vars =>
        [\A j \in Jobs : /\ Deciding(j) => rec'[j].reply = rec[j].reply /\ rec'[j].plan = rec[j].plan
                         /\ rec[j].st = "applied" => rec'[j] = rec[j]]_<<rec>>
  BY FixedOnce
<1>2. PreferenceInv /\ [Next]_vars =>
        [\A j \in Jobs, p \in Ids :
           /\ rec'[j].st = "applied" /\ rec[j].st # "applied" /\ claim'[p] # claim[p]
                => rec[j].snap[p] = Binding(p)
           /\ ask'[j].st = "confirmed" /\ ask[j].st # "confirmed" /\ claim'[p] # claim[p]
                => rec[j].snap[p] = Binding(p)]_<<claim, rec, ask>>
  BY MovedAsCaptured
<1>3. PreferenceInv /\ [Next]_vars =>
        [\A j \in Jobs : rec'[j].st = "applied" /\ rec[j].st # "applied" /\ fact'.ver # fact.ver
                           => rec[j].ctx = Bindings /\ ~fact.strong]_<<fact, rec>>
  BY FactAsSeen
<1>4. PreferenceInv /\ [Next]_vars =>
        [\A p \in Ids : claim[p].st = "archived" /\ claim'[p].st = "active"
                          => claim'[p].how = "replacement" /\ claim'[p].ver = claim[p].ver + 1]_<<claim>>
  BY LedgerSteps DEF Revived
<1>5. Spec => DecisionFixed
  BY <1>1, PreferencesHeld, PTL DEF Spec, DecisionFixed
<1>6. Spec => DecidedOnWhatItChanges
  BY <1>2, PreferencesHeld, PTL DEF Spec, DecidedOnWhatItChanges
<1>7. Spec => FactCorrectedAsSeen
  BY <1>3, PreferencesHeld, PTL DEF Spec, FactCorrectedAsSeen
<1>8. Spec => TombstoneKept
  BY <1>4, PreferencesHeld, PTL DEF Spec, TombstoneKept
<1> QED
  BY <1>5, <1>6, <1>7, <1>8 DEF AppliedAsDecided
=============================================================================
