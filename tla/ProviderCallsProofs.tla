------------------------- MODULE ProviderCallsProofs -------------------------
(***************************************************************************)
(* The concurrency limits of the providers hold for any number of          *)
(* processes, calls and providers, any limits and timeouts, and whatever   *)
(* the services, Redis and the processes do: the detailed calls implement  *)
(* ProviderPermits.                                                        *)
(***************************************************************************)
EXTENDS ProviderCalls, FiniteSetTheorems, TLAPS

-----------------------------------------------------------------------------
(* The inductive invariant.                                                 *)

\* call[c] has the fields of Idle.
Shape ==
  /\ call = [c \in Calls |-> call[c]]
  /\ \A c \in Calls : call[c] =
       [pc |-> call[c].pc, todo |-> call[c].todo, age |-> call[c].age, buf |-> call[c].buf,
        token |-> call[c].token, tries |-> call[c].tries, next |-> call[c].next]

\* What a failure is followed by once it is saved; none of it has a slot.
After == {"idle", "release", "again", "force"}

\* Ages count only while a slot is held or the provider is asked, and stay within bounds.
Ages ==
  \A c \in Calls :
    /\ call[c].age \in Nat
    /\ call[c].pc \notin {"held", "calling"} => call[c].age = 0
    /\ call[c].pc = "held" => call[c].age + 1 <= Slack
    /\ call[c].pc = "calling" => call[c].age <= Timeout
    /\ call[c].next \in After

\* A provider has no more leases than the limit.
Leases ==
  /\ lease = [p \in Services |-> lease[p]]
  /\ \A p \in Services :
       /\ lease[p] \in [DOMAIN lease[p] -> Nat]
       /\ IsFiniteSet(DOMAIN lease[p]) /\ Cardinality(DOMAIN lease[p]) <= Limit

\* Whoever holds a slot or is at work has a lease that lasts until its time is up.
Leased(c) ==
  LET t == <<c, call[c].token>>  l == lease[Service(c)] IN
  /\ t \in DOMAIN l
  /\ call[c].pc = "held" => l[t] >= Timeout + Slack - call[c].age
  /\ call[c].pc = "calling" => l[t] >= Timeout + 1 - call[c].age
Covered ==
  \A c \in Calls : c \notin Guarded /\ call[c].pc \in {"held", "calling"} /\ Service(c) \in Services
                   => Leased(c)

Inv == plan \in Plans /\ Shape /\ Ages /\ Leases /\ Covered

-----------------------------------------------------------------------------
(* The pieces.                                                              *)

\* A lease outlives the slack and the timeout together.
LEMMA LeaseOutlives == LeaseTtl \in Nat /\ LeaseTtl >= Timeout + Slack
<1> DEFINE a == SlotTtl
           b == Timeout + Slack
<1>1. a \in Nat /\ b \in Nat
  BY ProviderAssumption
<1> HIDE DEF a, b
<1>2. \E x \in {a, b} : \A y \in {a, b} : x >= y
  BY <1>1
<1>3. Max({a, b}) \in {a, b} /\ \A y \in {a, b} : Max({a, b}) >= y
  BY <1>2 DEF Max
<1>4. Max({a, b}) \in Nat /\ Max({a, b}) >= b
  BY <1>1, <1>3
<1> QED
  BY <1>4 DEF LeaseTtl, a, b

\* A field that a function does not have is not written.
LEMMA NotThere ==
  ASSUME NEW f, NEW S, NEW a, NEW e, f = [x \in S |-> f[x]], a \notin S
  PROVE  [f EXCEPT ![a] = e] = f
<1>1. DOMAIN f = S
  BY Zenon
<1>2. [f EXCEPT ![a] = e] = [x \in DOMAIN f |-> IF x = a THEN e ELSE f[x]]
  BY Zenon
<1>3. [x \in S |-> IF x = a THEN e ELSE f[x]] = [x \in S |-> f[x]]
  BY Zenon
<1> QED
  BY <1>1, <1>2, <1>3, Zenon

\* At most Limit - 1 calls run at a provider while another one holds a slot of it.
LEMMA RoomForOne ==
  ASSUME Inv, NEW c \in Calls, c \notin Guarded, At(c, "held"), Service(c) \in Services
  PROVE  Cardinality(Running(Service(c))) < Limit
<1> DEFINE p == Service(c)
           R == Running(p)
           S == R \cup {c}
           D == DOMAIN lease[p]
           f == [d \in S |-> <<d, call[d].token>>]
<1>1. c \notin R /\ R \subseteq Calls
  BY DEF Running, At
<1>2. \A d \in S : d \in Calls /\ d \notin Guarded /\ call[d].pc \in {"held", "calling"} /\ Service(d) = p
  BY DEF Running, At
<1>3. \A d \in S : <<d, call[d].token>> \in D
  BY <1>2 DEF Inv, Covered, Leased
<1>4. f \in Injection(S, D)
  BY <1>3 DEF Injection, IsInjective
<1>5. IsFiniteSet(D) /\ Cardinality(D) <= Limit
  BY DEF Inv, Leases
<1>6. IsFiniteSet(S) /\ Cardinality(S) <= Cardinality(D)
  BY <1>4, <1>5, FS_Injection
<1>7. IsFiniteSet(R)
  BY <1>6, FS_Subset, R \in SUBSET S
<1>8. Cardinality(S) = Cardinality(R) + 1
  BY <1>1, <1>7, FS_AddElement
<1>9. Cardinality(S) \in Nat /\ Cardinality(D) \in Nat /\ Cardinality(R) \in Nat
  BY <1>5, <1>6, <1>7, FS_CardinalityType
<1> QED
  BY <1>5, <1>6, <1>8, <1>9, ProviderAssumption

-----------------------------------------------------------------------------
(* The steps of a call.                                                     *)

\* A step of call c that leaves it without a slot and without a provider at work, or that
\* asks the index, which has no slots.
Formed(x) == x = [pc |-> x.pc, todo |-> x.todo, age |-> x.age, buf |-> x.buf, token |-> x.token,
                  tries |-> x.tries, next |-> x.next]
Quiet(c) ==
  /\ plan' = plan /\ lease' = lease
  /\ call' = [call EXCEPT ![c] = call'[c]]
  /\ Formed(call'[c]) /\ call'[c].next \in After /\ call'[c].age = 0
  /\ call'[c].pc \in {"held", "calling"} => c \in Guarded /\ call'[c].pc = "calling"

\* Where a call stands after a failure is counted.
LEMMA FailureQuiet ==
  ASSUME Inv, NEW c \in Calls, NEW next \in After, RecordFailure(c, next), plan' = plan, lease' = lease
  PROVE  Quiet(c)
<1>1. Formed(call[c]) /\ call = [d \in Calls |-> call[d]]
  BY DEF Inv, Shape, Formed
<1> DEFINE b == Counted(local'[ProcessOf(c)][Service(c)])
<1>2. call' = [call EXCEPT ![c].pc = "save", ![c].buf = b, ![c].next = next, ![c].age = 0]
  BY DEF RecordFailure
<1> HIDE DEF b
<1>3. call'[c] = [call[c] EXCEPT !.pc = "save", !.buf = b, !.next = next, !.age = 0]
      /\ call' = [call EXCEPT ![c] = call'[c]]
  BY <1>1, <1>2
<1> QED
  BY <1>1, <1>3 DEF Quiet, Formed

\* Every step but the ones that take, use and return a slot is quiet.
LEMMA QuietSteps ==
  ASSUME Inv, NEW c \in Calls,
         \/ Select(c) \/ Coerce(c) \/ SaveFailure(c) \/ Exhausted(c) \/ Begin(c) \/ Succeed(c)
         \/ Failing(c) \/ Again(c) \/ Limited(c) \/ Refused(c) \/ Garbled(c)
  PROVE  Quiet(c)
<1>1. Formed(call[c]) /\ call = [d \in Calls |-> call[d]] /\ call[c].next \in After
      /\ (call[c].pc \notin {"held", "calling"} => call[c].age = 0)
  BY DEF Inv, Shape, Ages, Formed
<1>2. Formed(Idle) /\ Idle.pc = "idle" /\ Idle.age = 0 /\ Idle.next = "idle"
  BY DEF Idle, Formed
<1>3. CASE Select(c)
  <2> DEFINE s == local'[ProcessOf(c)][Service(c)]
             x == IF Recovered(s) THEN [call[c] EXCEPT !.pc = "coerce"]
                  ELSE IF s.st # "OPEN" THEN [call[c] EXCEPT !.pc = "acquire"]
                  ELSE IF c \in Guarded THEN Idle ELSE [call[c] EXCEPT !.todo = Tail(call[c].todo)]
  <2>1. call' = [call EXCEPT ![c] = x] /\ call[c].pc = "select" /\ plan' = plan /\ lease' = lease
    BY <1>3 DEF Select, At, worldVars
  <2>2. call'[c] = x
    BY <1>1, <2>1
  <2>3. Formed(x) /\ x.next \in After /\ x.age = 0 /\ x.pc \notin {"held", "calling"}
    BY <1>1, <1>2, <2>1 DEF Formed, After
  <2> QED
    BY <2>1, <2>2, <2>3 DEF Quiet
<1>4. CASE Coerce(c)
  BY <1>1, <1>4 DEF Coerce, Go, At, Quiet, Formed, worldVars
<1>5. CASE SaveFailure(c)
  <2> DEFINE x == IF call[c].next = "idle" THEN Idle
                  ELSE [call[c] EXCEPT !.pc = call[c].next, !.buf = Closed, !.next = "idle"]
  <2>1. call' = [call EXCEPT ![c] = x] /\ call[c].pc = "save" /\ plan' = plan /\ lease' = lease
    BY <1>5 DEF SaveFailure, At, worldVars
  <2>2. call'[c] = x
    BY <1>1, <2>1
  <2>3. Formed(x) /\ x.next \in After /\ x.age = 0 /\ x.pc \notin {"held", "calling"}
    BY <1>1, <1>2, <2>1 DEF Formed, After
  <2> QED
    BY <2>1, <2>2, <2>3 DEF Quiet
<1>6. CASE Exhausted(c)
  BY <1>1, <1>2, <1>6 DEF Exhausted, Quiet, After, worldVars
<1>7. CASE Begin(c)
  <2> DEFINE todo == SelectSeq(plan.order[c], LAMBDA p : p \in avail[ProcessOf(c)])
             x == [Idle EXCEPT !.pc = "select", !.todo = todo]
  <2>1. call' = [call EXCEPT ![c] = x] /\ plan' = plan /\ lease' = lease
    BY <1>7 DEF Begin
  <2> HIDE DEF todo
  <2>2. call'[c] = x
    BY <1>1, <2>1
  <2>3. Formed(x) /\ x.next = "idle" /\ x.age = 0 /\ x.pc = "select"
    <3>1. ASSUME NEW y, NEW t, Formed(y), y.next = "idle", y.age = 0, y.pc = "select"
          PROVE  LET z == [y EXCEPT !.todo = t] IN
                 Formed(z) /\ z.next = "idle" /\ z.age = 0 /\ z.pc = "select"
      BY <3>1 DEF Formed
    <3> DEFINE w == [Idle EXCEPT !.pc = "select"]
    <3>2. x = [w EXCEPT !.todo = todo]
      OBVIOUS
    <3>3. Formed(w) /\ w.next = "idle" /\ w.age = 0 /\ w.pc = "select"
      BY <1>2 DEF Formed
    <3> HIDE DEF w
    <3> QED
      BY <3>1, <3>2, <3>3
  <2> QED
    BY <2>1, <2>2, <2>3 DEF Quiet, After
<1>8. CASE Succeed(c)
  <2> DEFINE x == IF c \in Guarded THEN Idle
                  ELSE [call[c] EXCEPT !.pc = "release", !.age = 0, !.todo = <<Service(c)>>]
  <2>1. call' = [call EXCEPT ![c] = x] /\ plan' = plan /\ lease' = lease
    BY <1>8 DEF Succeed, worldVars
  <2>2. call'[c] = x
    BY <1>1, <2>1
  <2>3. Formed(x) /\ x.next \in After /\ x.age = 0 /\ x.pc \notin {"held", "calling"}
    BY <1>1, <1>2 DEF Formed, After
  <2> QED
    BY <2>1, <2>2, <2>3 DEF Quiet
<1>9. CASE Failing(c)
  <2>1. PICK next \in After : RecordFailure(c, next) /\ plan' = plan /\ lease' = lease
    BY <1>9 DEF Failing, After, worldVars
  <2> QED
    BY <2>1, FailureQuiet
<1>10. CASE Again(c)
  BY <1>1, <1>10 DEF Again, At, Quiet, Formed, worldVars
<1>11. CASE Limited(c)
  BY <1>1, <1>11 DEF Limited, Quiet, Formed, worldVars
<1>12. CASE Refused(c)
  BY <1>1, <1>12 DEF Refused, Quiet, Formed, worldVars
<1>13. CASE Garbled(c)
  <2>1. plan' = plan /\ lease' = lease
    BY <1>13 DEF Garbled, worldVars
  <2>2. CASE \E next \in {"idle", "force"} : RecordFailure(c, next)
    BY <2>1, <2>2, FailureQuiet DEF After
  <2>3. CASE call' = [call EXCEPT ![c] = Idle]
    BY <1>1, <1>2, <2>1, <2>3 DEF Quiet, After
  <2> QED
    BY <1>13, <2>2, <2>3 DEF Garbled
<1> QED
  BY <1>3, <1>4, <1>5, <1>6, <1>7, <1>8, <1>9, <1>10, <1>11, <1>12, <1>13

\* A quiet step keeps the invariant: other calls keep their leases.
LEMMA QuietInv ==
  ASSUME Inv, NEW c \in Calls, Quiet(c)
  PROVE  Inv'
<1>1. \A d \in Calls \ {c} : call'[d] = call[d]
  BY DEF Inv, Shape, Quiet
<1>2. plan' \in Plans /\ Leases'
  BY DEF Inv, Quiet, Leases
<1>3. Shape'
  BY <1>1 DEF Inv, Shape, Quiet, Formed
<1>4. Ages'
  BY <1>1, ProviderAssumption DEF Inv, Ages, Quiet
<1>5. Covered'
  <2> SUFFICES ASSUME NEW d \in Calls, (d \notin Guarded)', call'[d].pc \in {"held", "calling"},
                      Service(d)' \in Services
               PROVE  Leased(d)'
    BY DEF Covered
  <2>1. d # c
    BY DEF Quiet, Guarded
  <2>2. call'[d] = call[d] /\ lease' = lease /\ plan' = plan
    BY <1>1, <2>1 DEF Quiet
  <2> QED
    BY <2>2 DEF Inv, Covered, Leased, Service, Guarded
<1> QED
  BY <1>2, <1>3, <1>4, <1>5 DEF Inv

\* Taking a slot: one more lease, for the whole time that is left.
LEMMA AcquireInv ==
  ASSUME Inv, NEW c \in Calls, Acquire(c)
  PROVE  Inv'
<1> DEFINE p == Service(c)
           n == Min({k \in 0 .. Len(plan.then) + 1 : <<c, k>> \notin DOMAIN lease[p]})
           t == <<c, n>>
           l == [u \in DOMAIN lease[p] \cup {t} |-> IF u = t THEN LeaseTtl ELSE lease[p][u]]
<1>1. Formed(call[c]) /\ call = [d \in Calls |-> call[d]] /\ call[c].next \in After /\ call[c].age = 0
  BY DEF Acquire, At, Inv, Shape, Ages, Formed
<1>2. plan' = plan /\ plan \in Plans
  BY DEF Acquire, worldVars, Inv
<1>3. CASE c \in Guarded
  BY <1>1, <1>2, <1>3, QuietInv DEF Acquire, Go, Quiet, Formed
<1>4. CASE c \notin Guarded /\ ~(redis /\ SlotFree(p))
  <2>1. call' = [call EXCEPT ![c].pc = "select", ![c].todo = Tail(call[c].todo)] /\ lease' = lease
    BY <1>4 DEF Acquire
  <2>2. call' = [call EXCEPT ![c] = call'[c]]
        /\ call'[c] = [[call[c] EXCEPT !.pc = "select"] EXCEPT !.todo = Tail(call[c].todo)]
    BY <1>1, <2>1
  <2>3. Quiet(c)
    BY <1>1, <1>2, <2>1, <2>2 DEF Quiet, Formed
  <2> QED
    BY <2>3, QuietInv
<1>5. CASE c \notin Guarded /\ redis /\ SlotFree(p)
  <2>1. lease' = [lease EXCEPT ![p] = l] /\ call' = [call EXCEPT ![c].pc = "held", ![c].token = n]
    BY <1>5 DEF Acquire
  <2> HIDE DEF n
  <2>2. call' = [call EXCEPT ![c] = call'[c]]
        /\ call'[c] = [[call[c] EXCEPT !.pc = "held"] EXCEPT !.token = n]
    BY <1>1, <2>1
  <2>3. Formed(call'[c]) /\ call'[c].pc = "held" /\ call'[c].token = n /\ call'[c].age = 0
        /\ call'[c].todo = call[c].todo /\ call'[c].next \in After
    BY <1>1, <2>2 DEF Formed
  <2>4. \A d \in Calls \ {c} : call'[d] = call[d]
    BY <1>1, <2>2
  <2>5. Shape'
    BY <1>1, <2>2, <2>3, <2>4 DEF Inv, Shape, Formed
  <2>6. Ages'
    BY <2>3, <2>4, ProviderAssumption DEF Inv, Ages
  <2>7. lease = [q \in Services |-> lease[q]]
    BY DEF Inv, Leases
  <2>8. CASE p \notin Services
    <3>1. lease' = lease
      BY <2>1, <2>7, <2>8, NotThere
    <3>2. Service(c)' = Service(c)
      BY <2>3 DEF Service
    <3>3. Covered'
      BY <1>2, <2>4, <2>8, <3>1, <3>2 DEF Inv, Covered, Leased, Service, Guarded
    <3> QED
      BY <1>2, <2>5, <2>6, <3>1, <3>3 DEF Inv, Leases
  <2>9. CASE p \in Services
    <3> DEFINE D == DOMAIN lease[p]
    <3>1. IsFiniteSet(D) /\ Cardinality(D) < Limit /\ Cardinality(D) \in Nat /\ Limit \in Nat
          /\ lease[p] \in [D -> Nat]
      BY <1>5, <2>9, FS_CardinalityType, ProviderAssumption DEF Inv, Leases, SlotFree
    <3>2. IsFiniteSet(D \cup {t}) /\ Cardinality(D \cup {t}) <= Limit
      <4>1. ASSUME NEW S, NEW x, IsFiniteSet(S), Cardinality(S) < Limit, Cardinality(S) \in Nat
            PROVE  IsFiniteSet(S \cup {x}) /\ Cardinality(S \cup {x}) <= Limit
        <5>1. IsFiniteSet(S \cup {x}) /\ Cardinality(S \cup {x}) =
                IF x \in S THEN Cardinality(S) ELSE Cardinality(S) + 1
          BY <4>1, FS_AddElement
        <5> QED
          BY <3>1, <4>1, <5>1
      <4> QED
        BY <3>1, <4>1
    <3>3. lease'[p] = l /\ lease' = [q \in Services |-> lease'[q]]
          /\ \A q \in Services \ {p} : lease'[q] = lease[q]
      BY <2>1, <2>7, <2>9
    <3>4. DOMAIN l = D \cup {t} /\ l \in [D \cup {t} -> Nat] /\ l[t] = LeaseTtl
          /\ \A u \in D : u # t => l[u] = lease[p][u]
      BY <3>1, LeaseOutlives
    <3> HIDE DEF l
    <3>5. Leases'
      BY <3>1, <3>2, <3>3, <3>4 DEF Inv, Leases
    <3>6. Covered'
      <4> SUFFICES ASSUME NEW d \in Calls, (d \notin Guarded)', call'[d].pc \in {"held", "calling"},
                          Service(d)' \in Services
                   PROVE  Leased(d)'
        BY DEF Covered
      <4>1. CASE d = c
        <5>1. Service(d)' = p /\ <<d, call[d].token>>' = t
          BY <2>3, <4>1 DEF Service
        <5> QED
          BY <2>3, <3>3, <3>4, <4>1, <5>1, LeaseOutlives, ProviderAssumption DEF Leased
      <4>2. CASE d # c
        <5>1. call'[d] = call[d] /\ Service(d)' = Service(d) /\ Leased(d)
          BY <1>2, <2>4, <4>2 DEF Service, Inv, Covered, Guarded
        <5>2. <<d, call[d].token>> # t
          BY <4>2
        <5>3. Service(d) = p => <<d, call[d].token>> \in D /\ lease'[p][<<d, call[d].token>>] = lease[p][<<d, call[d].token>>]
                                /\ <<d, call[d].token>> \in DOMAIN lease'[p]
          BY <3>3, <3>4, <5>1, <5>2 DEF Leased
        <5> QED
          BY <3>3, <5>1, <5>3 DEF Leased
      <4> QED
        BY <4>1, <4>2
    <3> QED
      BY <1>2, <2>5, <2>6, <3>5, <3>6 DEF Inv
  <2> QED
    BY <2>8, <2>9
<1> QED
  BY <1>3, <1>4, <1>5

\* Starting the call: what is left of the lease covers the timeout.
LEMMA StartInv ==
  ASSUME Inv, NEW c \in Calls, Start(c)
  PROVE  Inv'
<1>1. Formed(call[c]) /\ call = [d \in Calls |-> call[d]] /\ call[c].next \in After
      /\ call[c].age \in Nat /\ call[c].age + 1 <= Slack
  BY DEF Start, At, Inv, Shape, Ages, Formed
<1>2. plan' = plan /\ lease' = lease /\ call' = [call EXCEPT ![c].pc = "calling", ![c].age = 0]
      /\ call[c].pc = "held"
  BY DEF Start, At, worldVars
<1>3. call' = [call EXCEPT ![c] = call'[c]] /\ Formed(call'[c]) /\ call'[c].pc = "calling"
      /\ call'[c].age = 0 /\ call'[c].todo = call[c].todo /\ call'[c].token = call[c].token
      /\ call'[c].next \in After
  BY <1>1, <1>2 DEF Formed
<1>4. \A d \in Calls \ {c} : call'[d] = call[d]
  BY <1>1, <1>3
<1>5. Shape' /\ Ages' /\ Leases'
  BY <1>1, <1>2, <1>3, <1>4, ProviderAssumption DEF Inv, Shape, Ages, Leases, Formed
<1>6. Covered'
  <2> SUFFICES ASSUME NEW d \in Calls, (d \notin Guarded)', call'[d].pc \in {"held", "calling"},
                      Service(d)' \in Services
               PROVE  Leased(d)'
    BY DEF Covered
  <2>1. Service(d)' = Service(d) /\ call'[d].token = call[d].token /\ call[d].pc \in {"held", "calling"}
    BY <1>2, <1>3, <1>4 DEF Service
  <2>2. Leased(d) /\ lease[Service(d)] \in [DOMAIN lease[Service(d)] -> Nat]
    BY <1>2, <2>1 DEF Inv, Covered, Guarded, Leases
  <2>3. CASE d = c
    BY <1>1, <1>2, <1>3, <2>1, <2>2, <2>3, ProviderAssumption DEF Leased
  <2>4. CASE d # c
    BY <1>2, <1>4, <2>1, <2>2, <2>4 DEF Leased
  <2> QED
    BY <2>3, <2>4
<1> QED
  BY <1>2, <1>5, <1>6 DEF Inv

\* Giving a slot back takes the call's own lease.
LEMMA ReleaseInv ==
  ASSUME Inv, NEW c \in Calls, Release(c)
  PROVE  Inv'
<1> DEFINE p == Service(c)
           t == <<c, call[c].token>>
           l == [u \in DOMAIN lease[p] \ {t} |-> lease[p][u]]
           x == IF Len(call[c].todo) = 1 THEN Idle
                ELSE [call[c] EXCEPT !.pc = "select", !.todo = Tail(call[c].todo), !.token = 0]
<1>1. Formed(call[c]) /\ call = [d \in Calls |-> call[d]] /\ call[c].next \in After /\ call[c].age = 0
  BY DEF Release, At, Inv, Shape, Ages, Formed
<1>2. plan' = plan /\ plan \in Plans
  BY DEF Release, worldVars, Inv
<1>3. call' = [call EXCEPT ![c] = x]
  BY DEF Release
<1>4. Formed(x) /\ x.pc \notin {"held", "calling"} /\ x.age = 0 /\ x.next \in After
  <2>1. CASE Len(call[c].todo) = 1
    BY <2>1 DEF Formed, Idle, After
  <2>2. CASE Len(call[c].todo) # 1
    <3> DEFINE w == Tail(call[c].todo)
               y == [call[c] EXCEPT !.pc = "select"]
               z == [y EXCEPT !.todo = w]
    <3>1. x = [z EXCEPT !.token = 0]
      BY <2>2
    <3>2. Formed(y) /\ y.pc = "select" /\ y.age = 0 /\ y.next \in After
      BY <1>1 DEF Formed
    <3> HIDE DEF w, x, y
    <3>3. Formed(z) /\ z.pc = "select" /\ z.age = 0 /\ z.next \in After
      BY <3>2 DEF Formed
    <3> HIDE DEF z
    <3> QED
      BY <3>1, <3>3 DEF Formed
  <2> QED
    BY <2>1, <2>2
<1> HIDE DEF x
<1>5. call'[c] = x /\ \A d \in Calls \ {c} : call'[d] = call[d]
  BY <1>1, <1>3
<1>6. Shape'
  BY <1>1, <1>3, <1>4, <1>5 DEF Inv, Shape, Formed
<1>7. Ages'
  BY <1>4, <1>5, ProviderAssumption DEF Inv, Ages
<1>8. lease = [q \in Services |-> lease[q]]
  BY DEF Inv, Leases
<1>9. CASE lease' = lease
  <2>1. Covered'
    BY <1>2, <1>4, <1>5, <1>9 DEF Inv, Covered, Leased, Service, Guarded
  <2> QED
    BY <1>2, <1>6, <1>7, <1>9, <2>1 DEF Inv, Leases
<1>10. CASE p \in Services /\ lease' = [lease EXCEPT ![p] = l]
  <2> DEFINE D == DOMAIN lease[p]
  <2>1. lease[p] \in [D -> Nat] /\ IsFiniteSet(D) /\ Cardinality(D) <= Limit /\ Limit \in Nat
    BY <1>10, ProviderAssumption DEF Inv, Leases
  <2>2. IsFiniteSet(D \ {t}) /\ Cardinality(D \ {t}) <= Limit
    <3>1. D \ {t} \in SUBSET D
      OBVIOUS
    <3>2. IsFiniteSet(D \ {t}) /\ Cardinality(D \ {t}) <= Cardinality(D)
      BY <2>1, <3>1, FS_Subset
    <3>3. Cardinality(D \ {t}) \in Nat /\ Cardinality(D) \in Nat
      BY <2>1, <3>2, FS_CardinalityType
    <3> QED
      BY <2>1, <3>2, <3>3
  <2>3. lease'[p] = l /\ lease' = [q \in Services |-> lease'[q]]
        /\ \A q \in Services \ {p} : lease'[q] = lease[q]
    BY <1>8, <1>10
  <2>4. DOMAIN l = D \ {t} /\ l \in [D \ {t} -> Nat] /\ \A u \in D : u # t => l[u] = lease[p][u]
    BY <2>1
  <2> HIDE DEF l
  <2>5. Leases'
    BY <2>2, <2>3, <2>4 DEF Inv, Leases
  <2>6. Covered'
    <3> SUFFICES ASSUME NEW d \in Calls, (d \notin Guarded)', call'[d].pc \in {"held", "calling"},
                        Service(d)' \in Services
                 PROVE  Leased(d)'
      BY DEF Covered
    <3>1. d # c
      BY <1>4, <1>5
    <3>2. call'[d] = call[d] /\ Service(d)' = Service(d) /\ Leased(d)
      BY <1>2, <1>5, <3>1 DEF Service, Inv, Covered, Guarded
    <3>3. <<d, call[d].token>> # t
      BY <3>1
    <3>4. Service(d) = p => /\ <<d, call[d].token>> \in DOMAIN lease'[p]
                            /\ lease'[p][<<d, call[d].token>>] = lease[p][<<d, call[d].token>>]
      BY <2>3, <2>4, <3>2, <3>3 DEF Leased
    <3> QED
      BY <2>3, <3>2, <3>4 DEF Leased
  <2> QED
    BY <1>2, <1>6, <1>7, <2>5, <2>6 DEF Inv
<1>11. lease' = lease \/ lease' = [lease EXCEPT ![p] = l]
  BY DEF Release
<1>12. p \notin Services => [lease EXCEPT ![p] = l] = lease
  <2> HIDE DEF l
  <2> QED
    BY <1>8, NotThere
<1> QED
  BY <1>9, <1>10, <1>11, <1>12

\* A tick ages the calls and the leases together; no urgent call waits.
LEMMA TickInv ==
  ASSUME Inv, Tick
  PROVE  Inv'
<1>1. plan' = plan /\ plan \in Plans
  BY DEF Tick, Inv
<1>2. \A c \in Calls : ~Urgent(c)
  BY DEF Tick
<1>3. call' = [c \in Calls |-> IF call[c].pc \in {"held", "calling"} THEN [call[c] EXCEPT !.age = @ + 1]
                               ELSE call[c]]
  BY DEF Tick
<1>4. ASSUME NEW c \in Calls
      PROVE  /\ Formed(call'[c]) /\ call'[c].next = call[c].next /\ call'[c].pc = call[c].pc
             /\ call'[c].todo = call[c].todo /\ call'[c].token = call[c].token
             /\ call'[c].age = IF call[c].pc \in {"held", "calling"} THEN call[c].age + 1 ELSE call[c].age
  <2>1. Formed(call[c])
    BY DEF Inv, Shape, Formed
  <2> QED
    BY <1>3, <2>1 DEF Formed
<1>5. Shape'
  BY <1>3, <1>4 DEF Shape, Formed
<1>6. Ages'
  <2> SUFFICES ASSUME NEW c \in Calls
               PROVE  /\ call'[c].age \in Nat
                      /\ call'[c].pc \notin {"held", "calling"} => call'[c].age = 0
                      /\ call'[c].pc = "held" => call'[c].age + 1 <= Slack
                      /\ call'[c].pc = "calling" => call'[c].age <= Timeout
                      /\ call'[c].next \in After
    BY DEF Ages
  <2>1. /\ call[c].age \in Nat /\ call[c].next \in After
        /\ call[c].pc \notin {"held", "calling"} => call[c].age = 0
        /\ call[c].pc = "held" => call[c].age + 1 <= Slack
        /\ call[c].pc = "calling" => call[c].age <= Timeout
    BY DEF Inv, Ages
  <2>2. ~Urgent(c)
    BY <1>2
  <2> QED
    BY <1>4, <2>1, <2>2, ProviderAssumption DEF Urgent, At
<1>7. ASSUME NEW p \in Services
      PROVE  /\ lease'[p] \in [DOMAIN lease'[p] -> Nat] /\ DOMAIN lease'[p] \subseteq DOMAIN lease[p]
             /\ \A u \in DOMAIN lease[p] : lease[p][u] > 1 =>
                  u \in DOMAIN lease'[p] /\ lease'[p][u] = lease[p][u] - 1
  <2>1. lease'[p] = [t \in {u \in DOMAIN lease[p] : lease[p][u] > 1} |-> lease[p][t] - 1]
    BY DEF Tick
  <2>2. lease[p] \in [DOMAIN lease[p] -> Nat]
    BY DEF Inv, Leases
  <2> QED
    BY <2>1, <2>2
<1>8. Leases'
  <2>1. lease' = [p \in Services |-> lease'[p]]
    BY DEF Tick
  <2>2. ASSUME NEW p \in Services
        PROVE  IsFiniteSet(DOMAIN lease'[p]) /\ Cardinality(DOMAIN lease'[p]) <= Limit
    <3>1. IsFiniteSet(DOMAIN lease[p]) /\ Cardinality(DOMAIN lease[p]) <= Limit
      BY DEF Inv, Leases
    <3>2. IsFiniteSet(DOMAIN lease'[p]) /\ Cardinality(DOMAIN lease'[p]) <= Cardinality(DOMAIN lease[p])
      BY <1>7, <3>1, FS_Subset
    <3>3. Cardinality(DOMAIN lease'[p]) \in Nat /\ Cardinality(DOMAIN lease[p]) \in Nat /\ Limit \in Nat
      BY <3>1, <3>2, FS_CardinalityType, ProviderAssumption
    <3> QED
      BY <3>1, <3>2, <3>3
  <2> QED
    BY <1>7, <2>1, <2>2 DEF Leases
<1>9. Covered'
  <2> SUFFICES ASSUME NEW c \in Calls, (c \notin Guarded)', call'[c].pc \in {"held", "calling"},
                      Service(c)' \in Services
               PROVE  Leased(c)'
    BY DEF Covered
  <2> DEFINE p == Service(c)
             t == <<c, call[c].token>>
  <2>1. Service(c)' = p /\ p \in Services /\ call[c].pc \in {"held", "calling"} /\ c \notin Guarded
    BY <1>1, <1>4 DEF Service, Guarded
  <2>2. Leased(c) /\ t \in DOMAIN lease[p] /\ lease[p][t] \in Nat
    BY <2>1 DEF Inv, Covered, Leased, Leases
  <2>3. ~Urgent(c) /\ call[c].age \in Nat
        /\ (call[c].pc = "held" => call[c].age + 1 <= Slack)
        /\ (call[c].pc = "calling" => call[c].age <= Timeout)
    BY <1>2 DEF Inv, Ages
  <2>4. /\ call[c].pc = "held" => lease[p][t] >= Timeout + Slack - call[c].age /\ call[c].age + 1 < Slack
        /\ call[c].pc = "calling" => lease[p][t] >= Timeout + 1 - call[c].age /\ call[c].age < Timeout
    BY <2>2, <2>3, ProviderAssumption DEF Leased, Urgent, At
  <2>5. lease[p][t] > 1
    BY <2>1, <2>2, <2>3, <2>4, ProviderAssumption
  <2>6. t \in DOMAIN lease'[p] /\ lease'[p][t] = lease[p][t] - 1
    BY <1>7, <2>1, <2>2, <2>5
  <2>7. call'[c].age = call[c].age + 1 /\ call'[c].pc = call[c].pc /\ call'[c].token = call[c].token
    BY <1>4, <2>1
  <2> QED
    BY <2>1, <2>2, <2>3, <2>4, <2>6, <2>7, ProviderAssumption DEF Leased
<1> QED
  BY <1>1, <1>5, <1>6, <1>8, <1>9 DEF Inv

\* A process that dies takes its calls with it and leaves their leases.
LEMMA CrashInv ==
  ASSUME Inv, Crash
  PROVE  Inv'
<1>1. plan' = plan /\ plan \in Plans /\ lease' = lease
  BY DEF Crash, worldVars, Inv
<1>2. call' = [c \in Calls |-> IF ProcessOf(c) = Happened.on THEN Idle ELSE call[c]]
  BY DEF Crash
<1>3. Formed(Idle) /\ Idle.pc = "idle" /\ Idle.age = 0 /\ Idle.next \in After
  BY DEF Idle, Formed, After
<1>4. \A c \in Calls : call'[c] = Idle \/ call'[c] = call[c]
  BY <1>2
<1>5. \A c \in Calls : call'[c].pc \in {"held", "calling"} => call'[c] = call[c]
  BY <1>3, <1>4
<1>6. Shape'
  BY <1>2, <1>3, <1>4 DEF Inv, Shape, Formed
<1>7. Ages'
  BY <1>3, <1>4, ProviderAssumption DEF Inv, Ages
<1>8. Covered'
  BY <1>1, <1>5 DEF Inv, Covered, Leased, Service, Guarded
<1> QED
  BY <1>1, <1>6, <1>7, <1>8 DEF Inv, Leases

\* The first state.
LEMMA InitInv == Init => Inv
<1> SUFFICES ASSUME Init
             PROVE  Inv
  OBVIOUS
<1>1. Formed(Idle) /\ Idle.pc = "idle" /\ Idle.age = 0 /\ Idle.next \in After
  BY DEF Idle, Formed, After
<1>2. call = [c \in Calls |-> Idle] /\ plan \in Plans
  BY DEF Init
<1>3. Shape /\ Covered
  BY <1>1, <1>2 DEF Shape, Covered, Formed
<1>4. Ages
  BY <1>1, <1>2, ProviderAssumption DEF Ages
<1>5. Leases
  <2>1. lease = [p \in Services |-> NoLease]
    BY DEF Init
  <2>2. DOMAIN NoLease = {} /\ NoLease \in [DOMAIN NoLease -> Nat]
    BY DEF NoLease
  <2>3. IsFiniteSet({}) /\ Cardinality({}) = 0
    BY FS_EmptySet
  <2> HIDE DEF NoLease
  <2> QED
    BY <2>1, <2>2, <2>3, ProviderAssumption DEF Leases
<1> QED
  BY <1>2, <1>3, <1>4, <1>5 DEF Inv

\* The steps, by what they do to the slots.
LEMMA StepKinds ==
  ASSUME Inv, NEW c \in Calls, Step(c) \/ Begin(c)
  PROVE  Quiet(c) \/ Acquire(c) \/ Start(c) \/ Release(c)
<1>1. CASE Acquire(c) \/ Start(c) \/ Release(c)
  BY <1>1
<1>2. CASE ~(Acquire(c) \/ Start(c) \/ Release(c))
  BY <1>2, QuietSteps DEF Step
<1> QED
  BY <1>1, <1>2

\* Every step keeps the invariant.
LEMMA NextInv ==
  ASSUME Inv, [Next]_vars
  PROVE  Inv'
<1>1. CASE UNCHANGED vars
  BY <1>1 DEF vars, Inv, Shape, Ages, Leases, Covered, Leased, Service, Guarded
<1>2. CASE \E c \in Calls : Step(c) \/ Begin(c)
  BY <1>2, StepKinds, QuietInv, AcquireInv, StartInv, ReleaseInv
<1>3. CASE Tick
  BY <1>3, TickInv
<1>4. CASE Change \/ Outage
  <2>1. UNCHANGED <<plan, call, lease>>
    BY <1>4 DEF Change, Outage
  <2> QED
    BY <2>1 DEF Inv, Shape, Ages, Leases, Covered, Leased, Service, Guarded
<1>5. CASE Crash
  BY <1>5, CrashInv
<1> QED
  BY <1>1, <1>2, <1>3, <1>4, <1>5 DEF Next

\* Whoever asks a provider has a lease of it that outlives the call, and a provider never has
\* more leases than its limit: a crash, an outage of Redis or a late release cannot break this
\* (LLMService._acquire_provider_slot, _release_provider_slot).
THEOREM LeasesHold == Spec => []Inv
<1>1. Init => Inv
  BY InitInv
<1>2. Inv /\ [Next]_vars => Inv'
  BY NextInv
<1> QED
  BY <1>1, <1>2, PTL DEF Spec

-----------------------------------------------------------------------------
(* The refinement.                                                          *)

\* A step after which no other call is at work than before it only ends calls.
Ending ==
  /\ plan' = plan
  /\ \A d \in Calls : call'[d].pc = "calling" /\ d \notin Guarded
                      => call[d].pc = "calling" /\ call'[d].todo = call[d].todo
LEMMA EndingEnds ==
  ASSUME Ending
  PROVE  Permits!End
<1> DEFINE gone == {d \in Calls : call'[d].pc # "calling"}
<1>1. gone \in SUBSET Calls
  OBVIOUS
<1>2. ASSUME NEW p \in Services
      PROVE  Running(p)' = Running(p) \ gone
  BY DEF Running, At, Service, Ending, Guarded
<1>3. [p \in Services |-> Running(p)]' = [p \in Services |-> [q \in Services |-> Running(q)][p] \ gone]
  BY <1>2
<1> QED
  BY <1>1, <1>3 DEF Permits!End

\* A call that starts finds room.
LEMMA StartStarts ==
  ASSUME Inv, NEW c \in Calls, Start(c)
  PROVE  Permits!Next
<1>1. call = [d \in Calls |-> call[d]] /\ plan' = plan /\ Formed(call[c])
  BY DEF Inv, Shape, Start, worldVars, Formed
<1>2. call'[c].pc = "calling" /\ call'[c].todo = call[c].todo
      /\ \A d \in Calls \ {c} : call'[d] = call[d]
  BY <1>1 DEF Start, Formed
<1>3. CASE c \in Guarded \/ Service(c) \notin Services
  <2>1. ASSUME NEW p \in Services
        PROVE  Running(p)' = Running(p)
    BY <1>1, <1>2, <1>3 DEF Running, At, Service, Guarded, Start
  <2>2. [p \in Services |-> Running(p)]' = [p \in Services |-> [q \in Services |-> Running(q)][p] \ {}]
    BY <2>1
  <2>3. {} \in SUBSET Calls
    OBVIOUS
  <2> QED
    BY <2>2, <2>3 DEF Permits!Next, Permits!End
<1>4. CASE c \notin Guarded /\ Service(c) \in Services
  <2>0. PICK p \in Services : p = Service(c)
    BY <1>4
  <2> DEFINE R == [q \in Services |-> Running(q)]
  <2>1. Cardinality(Running(p)) < Limit
    BY <1>4, <2>0, RoomForOne DEF Start
  <2>2. Running(p)' = Running(p) \cup {c}
    BY <1>1, <1>2, <1>4, <2>0 DEF Running, At, Service, Guarded
  <2>3. \A q \in Services \ {p} : Running(q)' = Running(q)
    BY <1>1, <1>2, <2>0 DEF Running, At, Service, Guarded, Start
  <2>4. ASSUME NEW f, NEW g, NEW a \in Services, NEW x, f = [q \in Services |-> f[q]],
               g = [q \in Services |-> g[q]], g[a] = x, \A q \in Services \ {a} : g[q] = f[q]
        PROVE  g = [f EXCEPT ![a] = x]
    BY <2>4
  <2>5. R' = [R EXCEPT ![p] = R[p] \cup {c}]
    <3>1. R = [q \in Services |-> R[q]] /\ R' = [q \in Services |-> R'[q]]
      OBVIOUS
    <3>2. R'[p] = R[p] \cup {c} /\ \A q \in Services \ {p} : R'[q] = R[q]
      BY <1>4, <2>2, <2>3
    <3> HIDE DEF R
    <3> QED
      BY <2>4, <3>1, <3>2
  <2>6. Permits!Cardinality(R[p]) < Limit
    <3>1. \A S : Permits!Cardinality(S) = Cardinality(S)
      BY DEF Permits!Cardinality, Cardinality
    <3> QED
      BY <1>4, <2>1, <3>1
  <2>7. Permits!Start(p, c)
    BY <2>5, <2>6 DEF Permits!Start
  <2> QED
    BY <1>4, <2>7 DEF Permits!Next
<1> QED
  BY <1>3, <1>4

\* No step starts a call beyond the limit.
LEMMA StepRefines ==
  ASSUME Inv, [Next]_vars
  PROVE  [Permits!Next]_([p \in Services |-> Running(p)])
<1>1. CASE \E c \in Calls : Start(c)
  BY <1>1, StartStarts
<1>2. CASE ~\E c \in Calls : Start(c)
  <2>1. Ending
    <3>1. CASE UNCHANGED vars \/ Change \/ Outage
      BY <3>1 DEF vars, Change, Outage, Ending
    <3>2. CASE Tick
      <4>1. plan' = plan /\ call' = [c \in Calls |->
              IF call[c].pc \in {"held", "calling"} THEN [call[c] EXCEPT !.age = @ + 1] ELSE call[c]]
        BY <3>2 DEF Tick
      <4>2. \A c \in Calls : Formed(call[c])
        BY DEF Inv, Shape, Formed
      <4> QED
        BY <4>1, <4>2 DEF Ending, Formed
    <3>3. CASE Crash
      BY <3>3 DEF Crash, Ending, worldVars, Idle
    <3>4. CASE \E c \in Calls : Step(c) \/ Begin(c)
      <4>1. PICK c \in Calls : Quiet(c) \/ Acquire(c) \/ Release(c)
        BY <1>2, <3>4, StepKinds
      <4>2. call = [d \in Calls |-> call[d]] /\ Formed(call[c])
        BY DEF Inv, Shape, Formed
      <4>3. CASE Quiet(c)
        BY <4>2, <4>3 DEF Quiet, Ending
      <4>4. CASE Acquire(c)
        <5>1. plan' = plan
          BY <4>4 DEF Acquire, worldVars
        <5>2. \A d \in Calls \ {c} : call'[d] = call[d]
          BY <4>2, <4>4 DEF Acquire, Go
        <5>3. c \in Guarded \/ call'[c].pc \in {"held", "select"}
          BY <4>2, <4>4 DEF Acquire, Formed
        <5> QED
          BY <5>1, <5>2, <5>3 DEF Ending
      <4>5. CASE Release(c)
        <5>1. plan' = plan
          BY <4>5 DEF Release, worldVars
        <5>2. \A d \in Calls \ {c} : call'[d] = call[d]
          BY <4>2, <4>5 DEF Release
        <5>3. call'[c].pc \in {"idle", "select"}
          BY <4>2, <4>5 DEF Release, Formed, Idle
        <5> QED
          BY <5>1, <5>2, <5>3 DEF Ending
      <4> QED
        BY <4>1, <4>3, <4>4, <4>5
    <3> QED
      BY <3>1, <3>2, <3>3, <3>4 DEF Next
  <2> QED
    BY <2>1, EndingEnds DEF Permits!Next
<1> QED
  BY <1>1, <1>2

\* The detailed calls, with breakers, leases, outages of Redis and processes that die, keep
\* the promise of llm_provider_concurrency_limits: no more than Limit calls are under way at
\* one provider ("The lease must outlive the bounded provider call, including cleanup.",
\* llm_service.py).
THEOREM LimitsKept == Spec => SlotsHold
<1>1. Init => Permits!Init
  <2> SUFFICES ASSUME Init
               PROVE  [p \in Services |-> Running(p)] = [p \in Services |-> {}]
    BY DEF Permits!Init
  <2>1. \A c \in Calls : call[c].pc = "idle"
    BY DEF Init, Idle
  <2> QED
    BY <2>1 DEF Running, At
<1>2. Inv /\ [Next]_vars => [Permits!Next]_([p \in Services |-> Running(p)])
  BY StepRefines
<1> QED
  BY <1>1, <1>2, LeasesHold, PTL DEF Spec, SlotsHold, Permits!Spec
=============================================================================
