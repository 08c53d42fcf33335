-------------------------- MODULE ClaimLedgerProofs --------------------------
(***************************************************************************)
(* Proofs about the claim ledger, for any events, contents, profiles,      *)
(* writers and bounds: the ledger names one answer, what is stored is      *)
(* accounted for, and what waited for a provider or a person changes only  *)
(* what it was decided about.                                              *)
(***************************************************************************)
EXTENDS ClaimLedger, FiniteSetTheorems, TLAPS

-----------------------------------------------------------------------------
(* The inductive invariant.                                                *)

\* Of a claim: whatever is activated in it wins, and its winner is activated
\* there and says what the claim says.
Coherent(k) ==
  LET c == claim[k] IN
  /\ \A e \in Events : rev[e].claim = k /\ rev[e].st = "activated" => c.win = e
  /\ c.win # None =>
       rev[c.win].claim = k /\ rev[c.win].st = "activated" /\ c.value = rev[c.win].value
  /\ c.mem \in {None, c.win}
  /\ c.st \in {"none", "archived"} => c.win = None
  /\ c.st = "active" => c.win # None

\* Of an event: it has no revision before it is stored, it is stored once,
\* and its revision is in a claim of its profile.
Stored(e) ==
  /\ Ev[e].kind = "field" => mem[e] = "none"
  /\ rev[e] # NoRev => mem[e] # "none" \/ (Ev[e].kind = "field" /\ work[e].pc # "idle")
  /\ rev[e].claim # NoKey => rev[e].claim[1] = Ev[e].owner
  /\ Registered(e) /\ mem[e] \in {"live", "pending", "archived"} => rev[e].claim # NoKey
  /\ sig[e].current => mem[e] # "none"
\* Of whoever is busy with it: the worker until it stores, the operator while
\* the candidate waits; the target exists and is another memory of the profile.
Waits(e) ==
  /\ work[e].pc = "read" => mem[e] = "none" /\ Ev[e].kind = "memory"
  /\ cand[e] = "pending" => mem[e] = "none" /\ Ev[e].kind = "memory" /\ work[e].pc \in {"done", "review"}
  /\ work[e].target # None =>
       mem[work[e].target] # "none" /\ Ev[work[e].target].owner = Ev[e].owner /\ work[e].target # e
  /\ work[e].pc = "review" => work[e].target # None
\* Of a conflict: both memories are or were there, and the user is asked.
Posed(c) ==
  /\ conf[c].st # "none" => mem[c[1]] # "none" /\ mem[c[2]] # "none"
  /\ Open(c) /\ conf[c].path = "user_session" => conf[c].clar # "none"
\* Of an answer that a route has loaded.
Loaded ==
  req # NoReq => /\ mem[req.c[1]] # "none" /\ mem[req.c[2]] # "none"
                 /\ req.route = "mcp" => SelfScoped(req.c)

EventInv == \A e \in Events : Stored(e) /\ Waits(e)
LedgerInv ==
  TypeOK /\ (\A k \in Keys : Coherent(k)) /\ EventInv /\ (\A c \in Pairs : Posed(c)) /\ Loaded

-----------------------------------------------------------------------------
(* Lemmas about events, keys and rows.                                     *)

LEMMA Facts ==
  /\ None \notin Events /\ NoKey \notin Keys /\ NoRev.claim = NoKey /\ NoRev.st = "none"
  /\ \A e \in Events : /\ Ev[e].owner \in Profiles /\ Ev[e].says \in Contents /\ Ev[e].obs \in Nat
                       /\ Ev[e].kind \in {"memory", "field"}
                       /\ <<Ev[e].owner, Ev[e].says>> \in Keys /\ <<Ev[e].owner, FieldKey>> \in Keys
  /\ NoRev \in Revision /\ NoClaim \in Claim /\ NoWork \in Work /\ NoConflict \in Conflict
<1>1. None \notin Events
  BY LedgerAssumption DEF None
<1>2. NoKey \notin Keys
  BY DEF NoKey, Keys
<1>3. NoRev.claim = NoKey /\ NoRev.st = "none" /\ NoRev \in Revision
  BY DEF NoRev, Revision
<1>4. NoClaim \in Claim
  BY DEF NoClaim, Claim
<1>5. NoWork \in Work
  BY <1>4 DEF NoWork, Work
<1>6. NoConflict \in Conflict
  BY DEF NoConflict, Conflict
<1>7. ASSUME NEW e \in Events
      PROVE  /\ Ev[e].owner \in Profiles /\ Ev[e].says \in Contents /\ Ev[e].obs \in Nat
             /\ Ev[e].kind \in {"memory", "field"}
             /\ <<Ev[e].owner, Ev[e].says>> \in Keys /\ <<Ev[e].owner, FieldKey>> \in Keys
  <2>1. Ev[e] \in EventType
    BY LedgerAssumption
  <2>2. Ev[e].owner \in Profiles /\ Ev[e].says \in Contents /\ Ev[e].obs \in Nat /\ Ev[e].kind \in {"memory", "field"}
    BY <2>1 DEF EventType
  <2> QED
    BY <2>2 DEF Keys
<1> QED
  BY <1>1, <1>2, <1>3, <1>4, <1>5, <1>6, <1>7

\* The properties of the ledger, in terms of the invariant.
LEMMA CoherentIs ==
  ASSUME TypeOK, \A k \in Keys : Coherent(k)
  PROVE  LedgerCoherent
<1> SUFFICES ASSUME NEW k \in Keys
             PROVE  LET on == {e \in Events : rev[e].claim = k /\ rev[e].st = "activated"} IN
                    /\ \A e \in on : claim[k].win = e
                    /\ claim[k].win # None => on = {claim[k].win} /\ claim[k].value = rev[claim[k].win].value
                    /\ claim[k].mem \in {None, claim[k].win}
                    /\ claim[k].st \in {"none", "archived"} => on = {}
                    /\ claim[k].st = "active" => on # {}
  BY DEF LedgerCoherent
<1>1. claim[k].win \in Events \cup {None}
  BY DEF TypeOK, Claim
<1> QED
  BY <1>1, Facts DEF Coherent

\* What somebody else writes leaves a worker where it is.
LEMMA TouchedIs ==
  ASSUME TypeOK, NEW M
  PROVE  /\ Touched(M) \in [Events -> Work]
         /\ \A f \in Events : /\ Touched(M)[f].pc = work[f].pc /\ Touched(M)[f].target = work[f].target
                              /\ Touched(M)[f].seen = work[f].seen
  BY DEF TypeOK, Touched, Work

LEMMA FinishedIs ==
  ASSUME TypeOK, NEW M, NEW e \in Events
  PROVE  /\ Finished(e, M) \in [Events -> Work]
         /\ Finished(e, M)[e].pc = "done" /\ Finished(e, M)[e].target = None
         /\ \A f \in Events \ {e} : /\ Finished(e, M)[f].pc = work[f].pc
                                    /\ Finished(e, M)[f].target = work[f].target
<1>1. [NoWork EXCEPT !.pc = "done"] \in Work /\ [NoWork EXCEPT !.pc = "done"].pc = "done"
      /\ [NoWork EXCEPT !.pc = "done"].target = None
  BY Facts DEF NoWork, Work
<1> QED
  BY <1>1, TouchedIs DEF Finished

\* A revision enters a claim: as its winner, or beside the winner it has.
Entering(k, e, said, st, c) ==
  /\ rev' = Entered(k, e, said, st) /\ claim' = [claim EXCEPT ![k] = c]
  /\ c.mem \in {None, c.win}
  /\ \/ st = "activated" /\ c.win = e /\ c.value = said /\ c.st = "active"
     \/ /\ st # "activated" /\ c.win = claim[k].win
        /\ c.win # None => c.value = claim[k].value
        /\ c.st \in {"none", "archived"} => claim[k].st \in {"none", "archived"}
        /\ c.st = "active" => claim[k].st = "active"

LEMMA Enters ==
  ASSUME TypeOK, \A k \in Keys : Coherent(k), NEW e \in Events, rev[e] = NoRev,
         NEW k \in Keys, NEW said \in Contents, NEW st \in {"activated", "asserted", "disputed"},
         NEW c \in Claim, Entering(k, e, said, st, c)
  PROVE  /\ \A j \in Keys : Coherent(j)'
         /\ rev' \in [Events -> Revision] /\ claim' \in [Keys -> Claim]
         /\ rev'[e].claim = k
         /\ \A f \in Events \ {e} : /\ rev'[f].claim = rev[f].claim
                                    /\ rev[f] = NoRev => rev'[f] = NoRev
<1> USE DEF Entering
<1>1. rev \in [Events -> Revision] /\ claim \in [Keys -> Claim]
  BY DEF TypeOK
<1>2. [claim |-> k, value |-> said, st |-> st] \in Revision
  BY DEF Revision
<1>3. ASSUME NEW f \in Events
      PROVE  /\ [rev[f] EXCEPT !.st = "superseded"] \in Revision
             /\ [rev[f] EXCEPT !.st = "superseded"].claim = rev[f].claim
             /\ [rev[f] EXCEPT !.st = "superseded"].value = rev[f].value
             /\ [rev[f] EXCEPT !.st = "superseded"].st = "superseded"
  <2>1. rev[f] \in Revision
    BY <1>1
  <2> QED
    BY <2>1 DEF Revision
<1>4. rev' \in [Events -> Revision] /\ rev'[e].claim = k /\ rev'[e].value = said /\ rev'[e].st = st
  BY <1>1, <1>2, <1>3 DEF Entered
<1>5. claim' \in [Keys -> Claim] /\ claim'[k] = c /\ \A j \in Keys \ {k} : claim'[j] = claim[j]
  BY <1>1
<1>6. ASSUME NEW f \in Events \ {e}
      PROVE  /\ rev'[f].claim = rev[f].claim /\ rev'[f].value = rev[f].value
             /\ rev'[f].st = IF st = "activated" /\ f = claim[k].win THEN "superseded" ELSE rev[f].st
             /\ ~(st = "activated" /\ f = claim[k].win) => rev'[f] = rev[f]
  BY <1>1, <1>3 DEF Entered
<1>7. claim[k].win # None => claim[k].win \in Events
  BY <1>1 DEF Claim
<1>8. claim[k].win # e /\ ~(\E f \in Events : f = claim[k].win /\ rev[f] = NoRev)
  BY Facts DEF Coherent
<1>9. ASSUME NEW j \in Keys, j # k
      PROVE  Coherent(j)'
  <2>1. claim'[j] = claim[j] /\ Coherent(j)
    BY <1>5, <1>9
  <2>2. \A f \in Events : rev[f].claim = j => f # e /\ f # claim[k].win
    BY <1>9, Facts DEF Coherent
  <2>3. \A f \in Events : (rev'[f].claim = j \/ rev[f].claim = j) => rev'[f] = rev[f]
    BY <1>4, <1>6, <1>9, <2>2
  <2>4. claim[j].win # None => claim[j].win \in Events
    BY <1>1 DEF Claim
  <2> QED
    BY <2>1, <2>3, <2>4 DEF Coherent
<1>10. Coherent(k)'
  <2>1. CASE st = "activated"
    BY <2>1, <1>4, <1>5, <1>6, Facts DEF Coherent
  <2>2. CASE st # "activated"
    <3>1. \A f \in Events \ {e} : rev'[f] = rev[f]
      BY <2>2, <1>6
    <3> QED
      BY <2>2, <3>1, <1>4, <1>5, <1>7, <1>8, Facts DEF Coherent
  <2> QED
    BY <2>1, <2>2
<1>11. \A f \in Events \ {e} : rev[f] = NoRev => rev'[f] = NoRev
  BY <1>6, <1>8
<1> QED
  BY <1>4, <1>5, <1>6, <1>9, <1>10, <1>11

LEMMA WonIs ==
  ASSUME TypeOK, NEW k \in Keys, NEW e \in Events, NEW said \in Contents \cup {NoText}
  PROVE  /\ Won(k, e, said) \in Claim /\ Won(k, e, said).st = "active"
         /\ Won(k, e, said).win = e /\ Won(k, e, said).value = said
         /\ Won(k, e, said).mem \in {None, e}
<1>1. claim[k].obs \in Nat /\ Ev[e].obs \in Nat
  BY Facts DEF TypeOK, Claim
<1> QED
  BY <1>1 DEF Won, Claim

\* An event that is neither stored nor decided by a step stays as it was.
LEMMA EventStays ==
  ASSUME EventInv, TypeOK, NEW f \in Events,
         \A g \in Events : mem[g] # "none" => mem'[g] # "none",
         \/ mem'[f] = mem[f]
         \/ /\ mem[f] \in {"live", "pending", "archived"}
            /\ mem'[f] \in {"live", "pending", "archived"},
         rev'[f].claim = rev[f].claim, rev[f] = NoRev => rev'[f] = NoRev,
         sig'[f].current => sig[f].current \/ mem[f] # "none",
         work'[f].pc = work[f].pc, work'[f].target = work[f].target, cand'[f] = cand[f]
  PROVE  Stored(f)' /\ Waits(f)'
<1>1. Stored(f) /\ Waits(f)
  BY DEF EventInv
<1>2. work[f].target # None => work[f].target \in Events
  BY DEF TypeOK, Work
<1>3. Stored(f)'
  BY <1>1 DEF Stored, Registered
<1>4. Waits(f)'
  BY <1>1, <1>2 DEF Waits
<1> QED
  BY <1>3, <1>4

\* What is known of a conflict or of a loaded answer stays known while the
\* rows do.
LEMMA PosedStays ==
  ASSUME TypeOK, NEW c \in Pairs, Posed(c),
         \A g \in Events : mem[g] # "none" => mem'[g] # "none", conf'[c] = conf[c]
  PROVE  Posed(c)'
<1>1. c[1] \in Events /\ c[2] \in Events
  BY DEF Pairs, Memories
<1> QED
  BY <1>1 DEF Posed, Open

LEMMA LoadedStays ==
  ASSUME TypeOK, Loaded, \A g \in Events : mem[g] # "none" => mem'[g] # "none",
         req' \in {req, NoReq}
  PROVE  Loaded'
<1>1. req # NoReq => req.c[1] \in Events /\ req.c[2] \in Events
  BY DEF TypeOK, Request, Pairs, Memories
<1> QED
  BY <1>1 DEF Loaded, SelfScoped

\* record_memory, whoever calls it: the ledger stays coherent and the event is
\* in a claim of its profile; a successor joins the claim of the memory it
\* replaces and wins it.
LEMMA Records ==
  ASSUME LedgerInv, NEW e \in Events, rev[e] = NoRev, NEW said \in Contents, NEW live \in BOOLEAN,
         NEW pred \in Events \cup {None}, ~LedgerRefuses(pred),
         pred # None => Ev[pred].owner = Ev[e].owner,
         rev' = RecordMemory(e, said, live, pred).rev,
         claim' = RecordMemory(e, said, live, pred).claim
  PROVE  /\ \A j \in Keys : Coherent(j)'
         /\ rev' \in [Events -> Revision] /\ claim' \in [Keys -> Claim]
         /\ rev'[e].claim \in Keys /\ rev'[e].claim[1] = Ev[e].owner
         /\ rev'[e].claim = ClaimOf(e, said, pred)
         /\ \A f \in Events \ {e} : /\ rev'[f].claim = rev[f].claim
                                    /\ rev[f] = NoRev => rev'[f] = NoRev
         /\ live /\ pred # None => claim'[rev[pred].claim].win = e
<1>1. TypeOK /\ (\A j \in Keys : Coherent(j)) /\ EventInv
  BY DEF LedgerInv
<1>2. PICK k \in Keys : k = ClaimOf(e, said, pred) /\ k[1] = Ev[e].owner
  <2>1. CASE pred = None
    <3>1. Ev[e].owner \in Profiles
      BY Facts
    <3>2. <<Ev[e].owner, said>> \in Keys /\ <<Ev[e].owner, said>>[1] = Ev[e].owner
      BY <3>1 DEF Keys
    <3> QED
      BY <2>1, <3>2 DEF ClaimOf
  <2>2. CASE pred # None
    <3>1. rev[pred].claim # NoKey /\ pred \in Events
      BY <2>2 DEF LedgerRefuses
    <3>2. rev[pred] \in Revision /\ Stored(pred)
      BY <1>1, <3>1 DEF TypeOK, EventInv
    <3>3. rev[pred].claim \in Keys \cup {NoKey}
      BY <3>2 DEF Revision
    <3> QED
      BY <2>2, <3>1, <3>2, <3>3 DEF Stored, ClaimOf
  <2> QED
    BY <2>1, <2>2
<1> DEFINE wins == live /\ (pred # None \/ claim[k].st = "none" \/ IncomingWins(k, e))
<1> DEFINE Goal == /\ \A j \in Keys : Coherent(j)'
                   /\ rev' \in [Events -> Revision] /\ claim' \in [Keys -> Claim] /\ rev'[e].claim = k
                   /\ \A f \in Events \ {e} : /\ rev'[f].claim = rev[f].claim
                                              /\ rev[f] = NoRev => rev'[f] = NoRev
<1>3. Coherent(k) /\ claim[k] \in Claim /\ claim = [claim EXCEPT ![k] = claim[k]]
  BY <1>1, <1>2 DEF TypeOK
<1>4. claim[k].mem \in {None, claim[k].win} /\ (claim[k].st \in {"none", "archived"} => claim[k].win = None)
  BY <1>3 DEF Coherent
<1>5. SUFFICES Goal /\ (wins => claim'[k].win = e)
  <2>1. pred # None => rev[pred].claim = k
    BY <1>2 DEF ClaimOf
  <2> QED
    BY <1>2, <2>1
<1>6. CASE wins
  <2>1. PICK c \in Claim : /\ c = Won(k, e, said) /\ c.st = "active" /\ c.win = e
                           /\ c.value = said /\ c.mem \in {None, e}
    BY <1>1, <1>2, WonIs
  <2>2. rev' = Entered(k, e, said, "activated") /\ claim' = [claim EXCEPT ![k] = c]
    BY <1>2, <1>6, <2>1 DEF RecordMemory
  <2>3. Goal
    <3>1. Entering(k, e, said, "activated", c)
      BY <1>1, <1>2, <2>1, <2>2 DEF Entering
    <3> QED
      BY <1>1, <3>1, Enters
  <2>4. claim'[k].win = e
    BY <1>1, <1>2, <2>1, <2>2 DEF TypeOK
  <2> QED
    BY <2>3, <2>4
<1>7. CASE ~wins /\ claim[k].st = "none"
  <2>1. PICK c \in Claim : /\ c = [NoClaim EXCEPT !.st = "disputed", !.src = e, !.obs = Ev[e].obs]
                           /\ c.win = None /\ c.mem = None /\ c.st = "disputed"
    <3> DEFINE c == [NoClaim EXCEPT !.st = "disputed", !.src = e, !.obs = Ev[e].obs]
    <3>1. c \in Claim /\ c.win = None /\ c.mem = None /\ c.st = "disputed"
      BY Facts DEF NoClaim, Claim, NoText
    <3> QED
      BY <3>1, Zenon
  <2>2. rev' = Entered(k, e, said, "disputed") /\ claim' = [claim EXCEPT ![k] = c]
    BY <1>2, <1>7, <2>1 DEF RecordMemory
  <2>3. Goal
    <3>1. Entering(k, e, said, "disputed", c)
      BY <1>1, <1>2, <1>4, <1>7, <2>1, <2>2 DEF Entering
    <3> QED
      BY <1>1, <3>1, Enters
  <2> QED
    BY <1>7, <2>3
<1>8. CASE ~wins /\ claim[k].st # "none" /\ live /\ claim[k].value \notin {NoText, said}
  <2>1. PICK c \in Claim : /\ c = [claim[k] EXCEPT !.st = "disputed"] /\ c.win = claim[k].win
                           /\ c.mem = claim[k].mem /\ c.value = claim[k].value /\ c.st = "disputed"
    <3> DEFINE c == [claim[k] EXCEPT !.st = "disputed"]
    <3>1. /\ c \in Claim /\ c.win = claim[k].win
          /\ c.mem = claim[k].mem /\ c.value = claim[k].value /\ c.st = "disputed"
      BY <1>3 DEF Claim
    <3> QED
      BY <3>1, Zenon
  <2>2. rev' = Entered(k, e, said, "disputed") /\ claim' = [claim EXCEPT ![k] = c]
    BY <1>2, <1>8, <2>1 DEF RecordMemory
  <2>3. Goal
    <3>1. Entering(k, e, said, "disputed", c)
      BY <1>1, <1>2, <1>4, <2>1, <2>2 DEF Entering
    <3> QED
      BY <1>1, <3>1, Enters
  <2> QED
    BY <1>8, <2>3
<1>9. CASE ~wins /\ claim[k].st # "none" /\ ~(live /\ claim[k].value \notin {NoText, said})
  <2>1. PICK c \in Claim : c = claim[k]
    BY <1>3
  <2>2. PICK st \in {"asserted", "disputed"} : rev' = Entered(k, e, said, st)
    BY <1>2, <1>9 DEF RecordMemory
  <2>3. claim' = [claim EXCEPT ![k] = c]
    BY <1>2, <1>3, <1>9, <2>1 DEF RecordMemory
  <2>4. Goal
    <3>1. Entering(k, e, said, st, c)
      BY <1>1, <1>2, <1>3, <1>4, <2>1, <2>2, <2>3 DEF Entering
    <3> QED
      BY <1>1, <3>1, <2>2, Enters
  <2> QED
    BY <1>9, <2>4
<1> QED
  BY <1>6, <1>7, <1>8, <1>9

\* apply_conflict_selection: of each claim it touches at most one revision is
\* activated, and that one wins.
LEMMA Selects ==
  ASSUME LedgerInv, NEW c \in Pairs, NEW sel,
         rev' = SelectedLedger(c, sel).rev, claim' = SelectedLedger(c, sel).claim
  PROVE  /\ \A j \in Keys : Coherent(j)'
         /\ rev' \in [Events -> Revision] /\ claim' \in [Keys -> Claim]
         /\ \A f \in Events : /\ rev'[f].claim = rev[f].claim
                              /\ rev[f] = NoRev => rev'[f] = NoRev
                              /\ \/ rev[f].claim = NoKey
                                 \/ rev[f].claim \notin {rev[c[1]].claim, rev[c[2]].claim}
                                 => rev'[f] = rev[f]
<1> DEFINE ks == {rev[m].claim : m \in {c[1], c[2]}} \ {NoKey}
<1> DEFINE chosen(k) == {f \in Kept(c, sel) : rev[f].claim = k}
<1> DEFINE status(f) == IF f \notin Kept(c, sel) THEN "rejected"
                        ELSE IF Cardinality(chosen(rev[f].claim)) > 1 THEN "disputed" ELSE "activated"
<1>1. /\ TypeOK /\ (\A j \in Keys : Coherent(j)) /\ rev \in [Events -> Revision] /\ claim \in [Keys -> Claim]
      /\ c[1] \in Events /\ c[2] \in Events
  BY DEF LedgerInv, TypeOK, Pairs, Memories
<1>2. Kept(c, sel) \subseteq {c[1], c[2]}
  BY DEF Kept
<1>3. /\ rev' = [f \in Events |-> IF rev[f].claim \notin ks THEN rev[f] ELSE [rev[f] EXCEPT !.st = status(f)]]
      /\ claim' = [k \in Keys |->
           IF k \notin ks THEN claim[k]
           ELSE IF Cardinality(chosen(k)) > 1
           THEN [claim[k] EXCEPT !.st = "disputed", !.value = Several, !.mem = None, !.win = None]
           ELSE IF chosen(k) = {}
           THEN [claim[k] EXCEPT !.st = "archived", !.value = NoText, !.mem = None, !.win = None]
           ELSE LET w == CHOOSE f \in chosen(k) : TRUE IN Won(k, w, rev[w].value)]
  BY DEF SelectedLedger
<1>4. ASSUME NEW f \in Events
      PROVE  /\ rev'[f] \in Revision /\ rev'[f].claim = rev[f].claim /\ rev'[f].value = rev[f].value
             /\ rev[f].claim \notin ks => rev'[f] = rev[f]
             /\ rev[f].claim \in ks => rev'[f].st = status(f)
  <2>1. rev[f] \in Revision /\ status(f) \in {"rejected", "disputed", "activated"}
    BY <1>1
  <2>2. rev'[f] = IF rev[f].claim \notin ks THEN rev[f] ELSE [rev[f] EXCEPT !.st = status(f)]
    BY <1>3
  <2> HIDE DEF status, ks
  <2> QED
    BY <2>1, <2>2 DEF Revision
<1>5. NoKey \notin ks
  OBVIOUS
<1>6. ASSUME NEW k \in Keys, k \notin ks
      PROVE  claim'[k] = claim[k] /\ Coherent(k)'
  <2>1. claim'[k] = claim[k] /\ Coherent(k)
    BY <1>1, <1>3, <1>6
  <2>2. claim[k].win # None => claim[k].win \in Events
    BY <1>1 DEF Claim
  <2> HIDE DEF ks, status
  <2> QED
    BY <1>4, <1>6, <2>1, <2>2 DEF Coherent
<1>7. ASSUME NEW k \in Keys, k \in ks
      PROVE  claim'[k] \in Claim /\ Coherent(k)'
  <2>1. IsFiniteSet(chosen(k)) /\ chosen(k) \subseteq Events
    <3>1. IsFiniteSet({c[1], c[2]})
      <4>1. IsFiniteSet({c[1]}) /\ {c[1], c[2]} = {c[1]} \cup {c[2]}
        BY FS_Singleton
      <4> QED
        BY <4>1, FS_AddElement
    <3>2. chosen(k) \subseteq {c[1], c[2]}
      BY <1>2
    <3> QED
      BY <1>1, <3>1, <3>2, FS_Subset
  <2>2. claim[k] \in Claim
    BY <1>1
  <2>3. CASE Cardinality(chosen(k)) > 1
    <3>1. claim'[k] = [claim[k] EXCEPT !.st = "disputed", !.value = Several, !.mem = None, !.win = None]
      BY <1>3, <1>7, <2>3
    <3>2. claim'[k] \in Claim /\ claim'[k].st = "disputed" /\ claim'[k].mem = None /\ claim'[k].win = None
      BY <2>2, <3>1 DEF Claim
    <3>3. \A f \in Events : rev'[f].claim = k => rev'[f].st # "activated"
      BY <1>4, <1>7, <2>3
    <3> QED
      BY <3>2, <3>3 DEF Coherent
  <2>4. CASE ~(Cardinality(chosen(k)) > 1) /\ chosen(k) = {}
    <3>1. claim'[k] = [claim[k] EXCEPT !.st = "archived", !.value = NoText, !.mem = None, !.win = None]
      BY <1>3, <1>7, <2>4
    <3>2. claim'[k] \in Claim /\ claim'[k].st = "archived" /\ claim'[k].mem = None /\ claim'[k].win = None
      BY <2>2, <3>1 DEF Claim
    <3>3. \A f \in Events : rev'[f].claim = k => rev'[f].st # "activated"
      BY <1>4, <1>7, <2>4
    <3> QED
      BY <3>2, <3>3 DEF Coherent
  <2>5. CASE ~(Cardinality(chosen(k)) > 1) /\ chosen(k) # {}
    <3> DEFINE w == CHOOSE f \in chosen(k) : TRUE
    <3>1. w \in chosen(k) /\ w \in Events /\ rev[w].claim = k
      BY <2>1, <2>5
    <3>2. claim'[k] = Won(k, w, rev[w].value)
      BY <1>3, <1>7, <2>5
    <3> HIDE DEF w
    <3>3. \A f \in chosen(k) : f = w
      <4>1. Cardinality(chosen(k)) = 1
        <5> HIDE DEF chosen
        <5>1. Cardinality(chosen(k)) \in Nat /\ Cardinality(chosen(k)) # 0
          BY <2>1, <2>5, FS_CardinalityType, FS_EmptySet
        <5> QED
          BY <5>1, <2>5
      <4>2. \E x : chosen(k) = {x}
        <5> HIDE DEF chosen
        <5> QED
          BY <4>1, <2>1, FS_Singleton
      <4> QED
        BY <4>2, <3>1
    <3>4. rev[w].value \in Contents \cup {NoText} /\ rev'[w].value = rev[w].value
      BY <1>1, <1>4, <3>1 DEF Revision
    <3>5. /\ claim'[k] \in Claim /\ claim'[k].st = "active" /\ claim'[k].win = w
          /\ claim'[k].value = rev[w].value /\ claim'[k].mem \in {None, w}
      BY <1>1, <3>1, <3>2, <3>4, WonIs
    <3>6. rev'[w].claim = k /\ rev'[w].st = "activated"
      BY <1>4, <1>7, <2>5, <3>1
    <3>7. \A f \in Events : rev'[f].claim = k /\ rev'[f].st = "activated" => f = w
      BY <1>4, <1>7, <3>3
    <3> HIDE DEF ks, status, chosen
    <3> QED
      BY <3>1, <3>4, <3>5, <3>6, <3>7, Facts DEF Coherent
  <2> QED
    BY <2>3, <2>4, <2>5
<1>8. rev' \in [Events -> Revision]
  BY <1>3, <1>4
<1>9. claim' \in [Keys -> Claim]
  <2>1. \A k \in Keys : claim'[k] \in Claim
    BY <1>1, <1>6, <1>7
  <2>2. claim' = [k \in Keys |-> claim'[k]]
    BY <1>3
  <2> HIDE DEF ks, status, chosen
  <2> QED
    BY <2>1, <2>2
<1>10. ASSUME NEW f \in Events
       PROVE  /\ rev[f] = NoRev => rev'[f] = NoRev
              /\ \/ rev[f].claim = NoKey
                 \/ rev[f].claim \notin {rev[c[1]].claim, rev[c[2]].claim}
                 => rev'[f] = rev[f]
  <2>1. rev[f] = NoRev => rev[f].claim \notin ks
    BY Facts
  <2>2. rev[f].claim = NoKey \/ rev[f].claim \notin {rev[c[1]].claim, rev[c[2]].claim} =>
          rev[f].claim \notin ks
    OBVIOUS
  <2> HIDE DEF ks, status, chosen
  <2> QED
    BY <1>4, <2>1, <2>2
<1> HIDE DEF ks, status, chosen
<1> QED
  BY <1>4, <1>6, <1>7, <1>8, <1>9, <1>10

\* _hard_delete_memory_and_reconcile_claims: what is left activated is the
\* winner the claim had, or nothing.
LEMMA Reconciles ==
  ASSUME LedgerInv, NEW m \in Events, rev' = [rev EXCEPT ![m] = NoRev], claim' = Reconciled(m)
  PROVE  (\A j \in Keys : Coherent(j)') /\ claim' \in [Keys -> Claim]
<1>1. /\ TypeOK /\ (\A j \in Keys : Coherent(j)) /\ rev \in [Events -> Revision] /\ claim \in [Keys -> Claim]
  BY DEF LedgerInv, TypeOK
<1>2. rev'[m] = NoRev /\ \A f \in Events \ {m} : rev'[f] = rev[f]
  BY <1>1
<1>3. \A j \in Keys : claim[j].win # None => claim[j].win \in Events
  BY <1>1 DEF Claim
<1>4. ASSUME NEW j \in Keys, rev[m].claim # j, claim'[j] = claim[j]
      PROVE  Coherent(j)'
  BY <1>1, <1>2, <1>3, <1>4, Facts DEF Coherent
<1>5. CASE rev[m].claim = NoKey
  <2>1. claim' = claim
    BY <1>5 DEF Reconciled
  <2> QED
    BY <1>1, <1>4, <1>5, <2>1, Facts
<1>6. CASE rev[m].claim # NoKey
  <2>1. PICK k \in Keys : k = rev[m].claim
    BY <1>1, <1>6 DEF Revision
  <2> DEFINE left == {f \in Events \ {m} : rev[f].claim = k}
  <2> DEFINE on == {f \in left : rev[f].st = "activated"}
  <2> DEFINE c == IF left = {} THEN NoClaim
                  ELSE IF Cardinality(on) = 1
                  THEN LET w == CHOOSE f \in on : TRUE IN Won(k, w, rev[w].value)
                  ELSE [claim[k] EXCEPT !.st = "archived", !.value = NoText, !.mem = None, !.win = None]
  <2>2. claim' = [claim EXCEPT ![k] = c]
    BY <1>6, <2>1 DEF Reconciled
  <2>3. Coherent(k) /\ claim[k] \in Claim
    BY <1>1
  <2>4. \A f \in on : f = claim[k].win
    BY <2>3 DEF Coherent
  <2>5. SUFFICES c \in Claim /\ Coherent(k)'
    <3> HIDE DEF c, on, left
    <3>1. \A j \in Keys : j # k => claim'[j] = claim[j]
      BY <1>1, <2>2
    <3>2. \A j \in Keys : j # k => Coherent(j)'
      BY <1>4, <2>1, <3>1
    <3>3. claim' \in [Keys -> Claim]
      BY <1>1, <2>2, <2>5
    <3> QED
      BY <2>5, <3>2, <3>3
  <2>6. claim'[k] = c
    <3> HIDE DEF c, on, left
    <3> QED
      BY <1>1, <2>2
  <2>7. \A f \in Events : rev'[f].claim = k => f \in left /\ rev'[f] = rev[f]
    BY <1>2, Facts
  <2>8. CASE left = {}
    <3>1. c = NoClaim
      BY <2>8
    <3> HIDE DEF c, on
    <3> QED
      BY <2>6, <2>7, <2>8, <3>1, Facts DEF NoClaim, Coherent
  <2>9. CASE left # {} /\ Cardinality(on) = 1
    <3>1. PICK w : on = {w}
      <4>1. IsFiniteSet(on)
        <5>1. on \subseteq Events
          OBVIOUS
        <5> HIDE DEF on
        <5> QED
          BY <5>1, LedgerAssumption, FS_Subset
      <4> HIDE DEF on
      <4> QED
        BY <2>9, <4>1, FS_Singleton
    <3>2. (CHOOSE f \in on : TRUE) = w
      BY <3>1
    <3>3. c = Won(k, w, rev[w].value)
      BY <2>9, <3>2
    <3>4. w \in Events \ {m} /\ rev[w].claim = k /\ rev[w].st = "activated"
      BY <3>1
    <3>5. rev[w].value \in Contents \cup {NoText}
      BY <1>1, <3>4 DEF Revision
    <3>6. c \in Claim /\ c.st = "active" /\ c.win = w /\ c.value = rev[w].value /\ c.mem \in {None, w}
      <4> HIDE DEF c, on, left
      <4> QED
        BY <1>1, <3>3, <3>4, <3>5, WonIs
    <3>7. \A f \in Events : rev'[f].claim = k /\ rev'[f].st = "activated" => f = w
      BY <2>7, <3>1
    <3> HIDE DEF c, on, left
    <3> QED
      BY <1>2, <2>6, <3>4, <3>6, <3>7, Facts DEF Coherent
  <2>10. CASE left # {} /\ Cardinality(on) # 1
    <3>1. c = [claim[k] EXCEPT !.st = "archived", !.value = NoText, !.mem = None, !.win = None]
      BY <2>10
    <3>2. c \in Claim /\ c.st = "archived" /\ c.win = None /\ c.mem = None
      <4> HIDE DEF c, on, left
      <4> QED
        BY <2>3, <3>1 DEF Claim
    <3>3. on = {}
      <4>1. SUFFICES ASSUME NEW f \in on
                     PROVE  FALSE
        OBVIOUS
      <4>2. on = {f}
        BY <2>4
      <4> HIDE DEF c, on, left
      <4> QED
        BY <2>10, <4>2, FS_Singleton
    <3>4. \A f \in Events : rev'[f].claim = k => rev'[f].st # "activated"
      BY <2>7, <3>3
    <3> HIDE DEF c, on, left
    <3> QED
      BY <2>6, <3>2, <3>4 DEF Coherent
  <2> QED
    BY <2>8, <2>9, <2>10
<1> QED
  BY <1>5, <1>6

LEMMA CoherentStays ==
  ASSUME \A k \in Keys : Coherent(k), rev' = rev, claim' = claim
  PROVE  \A k \in Keys : Coherent(k)'
  BY DEF Coherent

-----------------------------------------------------------------------------
(* The steps.                                                              *)

\* The steps that only move a question.
LEMMA QuestionMoves ==
  ASSUME LedgerInv, NEW c \in Pairs,
         conf' \in [Pairs -> Conflict], \A d \in Pairs \ {c} : conf'[d] = conf[d],
         conf'[c].st # "none" => mem[c[1]] # "none" /\ mem[c[2]] # "none",
         conf'[c].st \in {"pending", "clarification_queued"} /\ conf'[c].path = "user_session" =>
           conf'[c].clar # "none",
         UNCHANGED <<mem, text, cand, rev, claim, sig, work, req>>, manual' \in 0 .. MaxManual
  PROVE  LedgerInv'
<1>1. TypeOK /\ (\A k \in Keys : Coherent(k)) /\ EventInv /\ (\A d \in Pairs : Posed(d)) /\ Loaded
  BY DEF LedgerInv
<1>2. TypeOK'
  BY <1>1 DEF TypeOK
<1>4. EventInv'
  <2>1. ASSUME NEW f \in Events
        PROVE  Stored(f)' /\ Waits(f)'
    BY <1>1, EventStays
  <2> QED
    BY <2>1 DEF EventInv
<1>5. ASSUME NEW d \in Pairs
      PROVE  Posed(d)'
  <2>1. CASE d = c
    BY <2>1 DEF Posed, Open
  <2>2. CASE d # c
    BY <1>1, <2>2, PosedStays
  <2> QED
    BY <2>1, <2>2
<1>6. Loaded'
  BY <1>1, LoadedStays
<1>7. \A k \in Keys : Coherent(k)'
  BY <1>1, CoherentStays
<1> QED
  BY <1>2, <1>4, <1>5, <1>6, <1>7 DEF LedgerInv

\* The steps that only move whoever is busy with an event, and its candidate.
LEMMA WorkMoves ==
  ASSUME LedgerInv, NEW e \in Events, work' \in [Events -> Work],
         \A f \in Events \ {e} : work'[f].pc = work[f].pc /\ work'[f].target = work[f].target,
         cand' \in [Events -> CandidateStates], \A f \in Events \ {e} : cand'[f] = cand[f],
         mem[e] = "none", Ev[e].kind = "memory",
         cand'[e] = "pending" => work'[e].pc \in {"done", "review"},
         work'[e].target # None =>
           /\ mem[work'[e].target] # "none" /\ Ev[work'[e].target].owner = Ev[e].owner
           /\ work'[e].target # e,
         work'[e].pc = "review" => work'[e].target # None,
         UNCHANGED <<mem, text, rev, claim, sig, conf, req, manual>>
  PROVE  LedgerInv'
<1>1. TypeOK /\ (\A k \in Keys : Coherent(k)) /\ EventInv /\ (\A d \in Pairs : Posed(d)) /\ Loaded
  BY DEF LedgerInv
<1>2. TypeOK'
  BY <1>1 DEF TypeOK
<1>4. EventInv'
  <2>1. ASSUME NEW f \in Events, f # e
        PROVE  Stored(f)' /\ Waits(f)'
    BY <1>1, <2>1, EventStays
  <2>2. Stored(e)'
    BY <1>1 DEF EventInv, Stored, Registered
  <2>3. Waits(e)'
    BY <1>1 DEF EventInv, Waits
  <2> QED
    BY <2>1, <2>2, <2>3 DEF EventInv
<1>5. ASSUME NEW d \in Pairs
      PROVE  Posed(d)'
  BY <1>1, PosedStays
<1>6. Loaded'
  BY <1>1, LoadedStays
<1>7. \A k \in Keys : Coherent(k)'
  BY <1>1, CoherentStays
<1> QED
  BY <1>2, <1>4, <1>5, <1>6, <1>7 DEF LedgerInv

\* The steps that store the memory of an event.
LEMMA Stores ==
  ASSUME LedgerInv, NEW e \in Events, mem[e] = "none", Ev[e].kind = "memory",
         mem' \in [Events -> MemoryStates], mem'[e] \in {"live", "pending"},
         \A f \in Events \ {e} : \/ mem'[f] = mem[f]
                                 \/ /\ mem[f] \in {"live", "pending", "archived"}
                                    /\ mem'[f] \in {"live", "pending", "archived"},
         text' \in [Events -> Contents],
         cand' \in [Events -> CandidateStates], cand'[e] # "pending",
         \A f \in Events \ {e} : cand'[f] = cand[f],
         rev' \in [Events -> Revision], claim' \in [Keys -> Claim], \A k \in Keys : Coherent(k)',
         Registered(e) => rev'[e].claim # NoKey,
         rev'[e].claim # NoKey => rev'[e].claim[1] = Ev[e].owner,
         \A f \in Events \ {e} : rev'[f].claim = rev[f].claim /\ (rev[f] = NoRev => rev'[f] = NoRev),
         sig' \in [Events -> Signal], \A f \in Events \ {e} : sig'[f].current => sig[f].current,
         conf' \in [Pairs -> Conflict], \A c \in Pairs : Posed(c)' \/ conf'[c] = conf[c],
         work' \in [Events -> Work], work'[e].pc = "done", work'[e].target = None,
         \A f \in Events \ {e} : work'[f].pc = work[f].pc /\ work'[f].target = work[f].target,
         UNCHANGED <<req, manual>>
  PROVE  LedgerInv'
<1>1. TypeOK /\ EventInv /\ (\A d \in Pairs : Posed(d)) /\ Loaded
  BY DEF LedgerInv
<1>2. TypeOK'
  BY <1>1 DEF TypeOK
<1>3. \A g \in Events : mem[g] # "none" => mem'[g] # "none"
  OBVIOUS
<1>4. EventInv'
  <2>1. ASSUME NEW f \in Events, f # e
        PROVE  Stored(f)' /\ Waits(f)'
    BY <1>1, <1>3, <2>1, EventStays
  <2>2. Stored(e)'
    BY <1>1 DEF EventInv, Stored, Registered
  <2>3. Waits(e)'
    BY <1>1 DEF EventInv, Waits
  <2> QED
    BY <2>1, <2>2, <2>3 DEF EventInv
<1>5. ASSUME NEW d \in Pairs
      PROVE  Posed(d)'
  BY <1>1, <1>3, PosedStays
<1>6. Loaded'
  BY <1>1, <1>3, LoadedStays
<1> QED
  BY <1>2, <1>4, <1>5, <1>6 DEF LedgerInv

\* A loaded or locked answer: only the two memories of the conflict change
\* state, and neither is gone.
LEMMA Settles ==
  ASSUME LedgerInv, NEW c \in Pairs, NEW sel \in Answers, NEW loaded, NEW route,
         mem[c[1]] # "none", mem[c[2]] # "none", ~MissingMemory(c),
         Settled(c, sel, loaded, route), req' \in {req, NoReq}
  PROVE  LedgerInv'
<1>1. TypeOK /\ EventInv /\ (\A d \in Pairs : Posed(d)) /\ Loaded
  BY DEF LedgerInv
<1>2. c[1] \in Events /\ c[2] \in Events
  BY DEF Pairs, Memories
<1>3. \A m \in {c[1], c[2]} : mem[m] \in {"live", "pending", "archived"}
  BY <1>1, <1>2 DEF MissingMemory, TypeOK, MemoryStates
<1>4. /\ mem' \in [Events -> MemoryStates]
      /\ \A f \in Events : \/ mem'[f] = mem[f]
                           \/ /\ mem[f] \in {"live", "pending", "archived"}
                              /\ mem'[f] \in {"live", "pending", "archived"}
  <2>1. mem' = Selected(c, sel, loaded)
    BY DEF Settled
  <2> QED
    BY <1>1, <1>3, <2>1 DEF Selected, TypeOK, MemoryStates
<1>5. \A g \in Events : mem[g] # "none" => mem'[g] # "none"
  BY <1>4
<1>6. /\ \A j \in Keys : Coherent(j)'
      /\ rev' \in [Events -> Revision] /\ claim' \in [Keys -> Claim]
      /\ \A f \in Events : rev'[f].claim = rev[f].claim /\ (rev[f] = NoRev => rev'[f] = NoRev)
  BY Selects DEF Settled
<1>7. /\ conf' \in [Pairs -> Conflict] /\ conf'[c].st \in {"ignored", "resolved"}
      /\ \A d \in Pairs \ {c} : conf'[d] = conf[d]
  <2> DEFINE row == [st |-> IF sel = "neither" THEN "ignored" ELSE "resolved",
                     path |-> IF route = "tenant" THEN "tenant_review" ELSE conf[c].path,
                     clar |-> IF route = "tenant" /\ conf[c].clar \notin {"pending", "triggered", "lapsed"}
                              THEN conf[c].clar ELSE "resolved"]
  <2>1. conf' = [conf EXCEPT ![c] = row]
    BY DEF Settled
  <2>2. conf[c] \in Conflict /\ conf \in [Pairs -> Conflict]
    BY <1>1 DEF TypeOK
  <2>3. row \in Conflict /\ row.st \in {"ignored", "resolved"}
    BY <2>2 DEF Conflict
  <2> HIDE DEF row
  <2> QED
    BY <2>1, <2>2, <2>3
<1>8. /\ sig' \in [Events -> Signal]
      /\ \A f \in Events : sig'[f].current => sig[f].current \/ mem[f] # "none"
  <2>1. sig \in [Events -> Signal]
    BY <1>1 DEF TypeOK
  <2>2. CASE route # "tenant" \/ sel = "both"
    BY <2>1, <2>2 DEF Settled
  <2>3. CASE ~(route # "tenant" \/ sel = "both")
    <3>1. sig' = [f \in Events |-> IF f \in {c[1], c[2]} /\ sig[f].value # NoText
                                   THEN [sig[f] EXCEPT !.current = f \in Kept(c, sel)]
                                   ELSE sig[f]]
      BY <2>3 DEF Settled
    <3>2. ASSUME NEW f \in Events
          PROVE  [sig[f] EXCEPT !.current = f \in Kept(c, sel)] \in Signal
      <4>1. \A b \in BOOLEAN : [sig[f] EXCEPT !.current = b] \in Signal
        BY <2>1 DEF Signal
      <4>2. (f \in Kept(c, sel)) \in BOOLEAN
        OBVIOUS
      <4> QED
        BY <4>1, <4>2, Zenon
    <3> QED
      BY <2>1, <3>1, <3>2, <1>3
  <2> QED
    BY <2>2, <2>3
<1>9. work' = Touched({c[1], c[2]}) /\ UNCHANGED <<text, cand, manual>>
  BY DEF Settled
<1>10. /\ work' \in [Events -> Work]
       /\ \A f \in Events : work'[f].pc = work[f].pc /\ work'[f].target = work[f].target
  BY <1>1, <1>9, TouchedIs
<1>11. TypeOK'
  BY <1>1, <1>4, <1>6, <1>7, <1>8, <1>9, <1>10 DEF TypeOK
<1>12. EventInv'
  <2>1. ASSUME NEW f \in Events
        PROVE  Stored(f)' /\ Waits(f)'
    BY <1>1, <1>4, <1>5, <1>6, <1>8, <1>9, <1>10, EventStays
  <2> QED
    BY <2>1 DEF EventInv
<1>13. ASSUME NEW d \in Pairs
       PROVE  Posed(d)'
  <2>1. CASE d = c
    BY <1>2, <1>5, <1>7, <2>1 DEF Posed, Open
  <2>2. CASE d # c
    BY <1>1, <1>5, <1>7, <2>2, PosedStays
  <2> QED
    BY <2>1, <2>2
<1>14. Loaded'
  BY <1>1, <1>5, LoadedStays
<1> QED
  BY <1>6, <1>11, <1>12, <1>13, <1>14 DEF LedgerInv

LEMMA ReadCandidatesStep ==
  ASSUME LedgerInv, NEW e \in Events, ReadCandidates(e)
  PROVE  LedgerInv'
<1>1. TypeOK /\ EventInv /\ work[e].pc = "idle" /\ mem[e] = "none" /\ Ev[e].kind = "memory"
  BY DEF LedgerInv, ReadCandidates, Arrives
<1>2. PICK t \in Nominated(e) \cup {None} :
        work' = [work EXCEPT ![e] = [NoWork EXCEPT !.pc = "read", !.target = t]]
  BY DEF ReadCandidates
<1>3. t # None => t \in Events \ {e} /\ mem[t] # "none" /\ Ev[t].owner = Ev[e].owner
  BY DEF Nominated
<1>4. PICK w \in Work : /\ w = [NoWork EXCEPT !.pc = "read", !.target = t]
                        /\ w.pc = "read" /\ w.target = t
  <2> DEFINE w == [NoWork EXCEPT !.pc = "read", !.target = t]
  <2>1. w \in Work /\ w.pc = "read" /\ w.target = t
    BY <1>3, Facts DEF NoWork, Work
  <2> QED
    BY <2>1, Zenon
<1>5. work' \in [Events -> Work] /\ work'[e] = w /\ \A f \in Events \ {e} : work'[f] = work[f]
  BY <1>1, <1>2, <1>4 DEF TypeOK
<1>6. cand[e] # "pending" /\ cand \in [Events -> CandidateStates]
  BY <1>1 DEF EventInv, Waits, TypeOK
<1>7. UNCHANGED <<mem, text, cand, rev, claim, sig, conf, req, manual>>
  BY DEF ReadCandidates
<1>8. /\ work'[e].pc = "read" /\ work'[e].target = t
      /\ \A f \in Events \ {e} : work'[f].pc = work[f].pc /\ work'[f].target = work[f].target
  BY <1>4, <1>5
<1>9. work'[e].target # None =>
        /\ mem[work'[e].target] # "none" /\ Ev[work'[e].target].owner = Ev[e].owner
        /\ work'[e].target # e
  BY <1>3, <1>8
<1> QED
  BY <1>1, <1>5, <1>6, <1>7, <1>8, <1>9, WorkMoves

\* The transaction that fails, and the decision to store nothing.
LEMMA NothingStored ==
  ASSUME LedgerInv, NEW e \in Events, work[e].pc = "read",
         \/ RolledBack(e)
         \/ /\ cand' = cand \/ cand' = Buffered(e)
            /\ work' = Finished(e, {})
            /\ UNCHANGED <<mem, text, rev, claim, sig, conf, req, manual>>
  PROVE  LedgerInv'
<1>1. TypeOK /\ EventInv /\ mem[e] = "none" /\ Ev[e].kind = "memory" /\ cand[e] # "pending"
      /\ cand \in [Events -> CandidateStates]
  BY DEF LedgerInv, EventInv, Waits, TypeOK
<1>2. CASE RolledBack(e)
  <2>1. /\ work' \in [Events -> Work] /\ work'[e] = NoWork /\ \A f \in Events \ {e} : work'[f] = work[f]
        /\ UNCHANGED <<mem, text, cand, rev, claim, sig, conf, req, manual>>
    BY <1>1, <1>2, Facts DEF RolledBack, TypeOK
  <2>2. NoWork.pc = "idle" /\ NoWork.target = None
    BY DEF NoWork
  <2> QED
    BY <1>1, <2>1, <2>2, WorkMoves
<1>3. CASE /\ cand' = cand \/ cand' = Buffered(e)
           /\ work' = Finished(e, {})
           /\ UNCHANGED <<mem, text, rev, claim, sig, conf, req, manual>>
  <2>1. /\ work' \in [Events -> Work] /\ work'[e].pc = "done" /\ work'[e].target = None
        /\ \A f \in Events \ {e} : work'[f].pc = work[f].pc /\ work'[f].target = work[f].target
    BY <1>1, <1>3, FinishedIs
  <2>2. cand' \in [Events -> CandidateStates] /\ \A f \in Events \ {e} : cand'[f] = cand[f]
    BY <1>1, <1>3 DEF Buffered, CandidateStates
  <2> QED
    BY <1>1, <1>3, <2>1, <2>2, WorkMoves
<1> QED
  BY <1>2, <1>3

LEMMA NotStoredYet ==
  ASSUME LedgerInv, NEW e \in Events, mem[e] = "none", Ev[e].kind = "memory"
  PROVE  rev[e] = NoRev
  BY DEF LedgerInv, EventInv, Stored

LEMMA AutoRows ==
  ASSUME NEW d \in DOMAIN AutoResolved
  PROVE  /\ AutoResolved[d] \in Conflict
         /\ ~(/\ AutoResolved[d].st \in {"pending", "clarification_queued"}
              /\ AutoResolved[d].path = "user_session" /\ AutoResolved[d].clar = "none")
<1>1. d \in {"ignored", "user", "tenant", "left"}
  BY DEF AutoResolved
<1> QED
  BY <1>1 DEF AutoResolved, Conflict

LEMMA AutoFields ==
  /\ AutoResolved.user = AutoResolved["user"] /\ AutoResolved.tenant = AutoResolved["tenant"]
  /\ "user" \in DOMAIN AutoResolved /\ "tenant" \in DOMAIN AutoResolved
  BY DEF AutoResolved

\* What the resolver stores: the memory, its claim, its signal and the
\* conflicts with other profiles.
LEMMA StoreMemoryStep ==
  ASSUME LedgerInv, NEW e \in Events, work[e].pc = "read", NEW said \in Contents,
         NEW pred \in {None, work[e].target}, NEW M \in {{}, {work[e].target}},
         StoreMemory(e, said, pred, M)
  PROVE  LedgerInv'
<1> DEFINE undone == (Registered(e) /\ LedgerRefuses(pred)) \/ \E t \in M : mem[t] = "deleted"
<1>1. TypeOK /\ EventInv /\ mem[e] = "none" /\ Ev[e].kind = "memory" /\ cand[e] # "pending"
      /\ (\A k \in Keys : Coherent(k)) /\ (\A c \in Pairs : Posed(c))
  BY DEF LedgerInv, EventInv, Waits, TypeOK
<1>2. work[e].target # None => /\ work[e].target \in Events \ {e} /\ mem[work[e].target] # "none"
                               /\ Ev[work[e].target].owner = Ev[e].owner
  BY <1>1 DEF EventInv, Waits, TypeOK, Work
<1>3. CASE undone
  BY <1>3, NothingStored DEF StoreMemory
<1>4. CASE ~undone
  <2> DEFINE L == IF LedgerRefuses(pred) THEN [claim |-> claim, rev |-> rev]
                  ELSE RecordMemory(e, said, TRUE, pred)
  <2>1. /\ mem' = [f \in Events |-> IF f = e THEN "live" ELSE IF f \in M THEN "archived" ELSE mem[f]]
        /\ text' = [text EXCEPT ![e] = said]
        /\ claim' = L.claim /\ rev' = L.rev
        /\ RecordSharedContext(e, said)
        /\ work' = Finished(e, M)
        /\ UNCHANGED <<cand, req, manual>>
    BY <1>4 DEF StoreMemory
  <2>2. rev[e] = NoRev
    BY <1>1, NotStoredYet
  <2>3. /\ rev' \in [Events -> Revision] /\ claim' \in [Keys -> Claim] /\ \A k \in Keys : Coherent(k)'
        /\ Registered(e) => rev'[e].claim # NoKey
        /\ rev'[e].claim # NoKey => rev'[e].claim[1] = Ev[e].owner
        /\ \A f \in Events \ {e} : rev'[f].claim = rev[f].claim /\ (rev[f] = NoRev => rev'[f] = NoRev)
    <3>1. CASE LedgerRefuses(pred)
      <4>1. rev' = rev /\ claim' = claim /\ ~Registered(e)
        BY <1>4, <2>1, <3>1
      <4>2. \A k \in Keys : Coherent(k)'
        BY <1>1, <4>1, CoherentStays
      <4> QED
        BY <1>1, <2>2, <4>1, <4>2, Facts DEF TypeOK
    <3>2. CASE ~LedgerRefuses(pred)
      <4>1. /\ rev' = RecordMemory(e, said, TRUE, pred).rev
            /\ claim' = RecordMemory(e, said, TRUE, pred).claim
        BY <2>1, <3>2
      <4> HIDE DEF L
      <4>2. pred \in Events \cup {None} /\ (pred # None => Ev[pred].owner = Ev[e].owner)
        BY <1>2
      <4>3. /\ rev' \in [Events -> Revision] /\ claim' \in [Keys -> Claim] /\ \A k \in Keys : Coherent(k)'
            /\ rev'[e].claim \in Keys /\ rev'[e].claim[1] = Ev[e].owner
            /\ \A f \in Events \ {e} : rev'[f].claim = rev[f].claim /\ (rev[f] = NoRev => rev'[f] = NoRev)
        BY <2>2, <3>2, <4>1, <4>2, Records
      <4> QED
        BY <4>3, Facts
    <3> QED
      BY <3>1, <3>2
  <2> HIDE DEF L
  <2>4. \A t \in M : t # None => mem[t] \in {"live", "pending", "archived"}
    BY <1>1, <1>2, <1>4 DEF TypeOK, MemoryStates
  <2>5. /\ mem' \in [Events -> MemoryStates] /\ mem'[e] = "live"
        /\ \A f \in Events \ {e} : \/ mem'[f] = mem[f]
                                   \/ /\ mem[f] \in {"live", "pending", "archived"}
                                      /\ mem'[f] \in {"live", "pending", "archived"}
    BY <1>1, <2>1, <2>4, Facts DEF TypeOK, MemoryStates
  <2>6. text' \in [Events -> Contents] /\ cand' \in [Events -> CandidateStates]
    BY <1>1, <2>1 DEF TypeOK
  <2>7. sig' \in [Events -> Signal] /\ \A f \in Events \ {e} : sig'[f].current => sig[f].current
    <3>1. [value |-> said, current |-> TRUE] \in Signal
      BY DEF Signal
    <3>2. sig' = sig \/ sig' = [sig EXCEPT ![e] = [value |-> said, current |-> TRUE]]
      BY <2>1 DEF RecordSharedContext
    <3> QED
      BY <1>1, <3>1, <3>2 DEF TypeOK
  <2>8. PICK g \in AutoOutcomes(SharedConflicts(e, said)) :
          conf' = [c \in Pairs |-> IF c[2] = e /\ c[1] \in DOMAIN g THEN AutoResolved[g[c[1]]] ELSE conf[c]]
    BY <2>1 DEF RecordSharedContext
  <2>9. g \in [SharedConflicts(e, said) -> DOMAIN AutoResolved]
    BY <2>8 DEF AutoOutcomes
  <2>10. ASSUME NEW c \in Pairs
         PROVE  conf'[c] \in Conflict /\ (Posed(c)' \/ conf'[c] = conf[c])
    <3>1. CASE c[2] = e /\ c[1] \in DOMAIN g
      <4>1. c[1] \in SharedConflicts(e, said) /\ g[c[1]] \in DOMAIN AutoResolved
        BY <2>9, <3>1
      <4>2. c[1] \in Events /\ c[1] # e /\ mem[c[1]] # "none"
        BY <1>1, <3>1, <4>1 DEF SharedConflicts, Pairs, Memories, EventInv, Stored
      <4>3. conf'[c] = AutoResolved[g[c[1]]]
        BY <2>8, <3>1
      <4>4. mem'[c[1]] # "none" /\ mem'[c[2]] # "none"
        BY <2>5, <3>1, <4>2
      <4> QED
        BY <4>1, <4>3, <4>4, AutoRows DEF Posed, Open
    <3>2. CASE ~(c[2] = e /\ c[1] \in DOMAIN g)
      BY <1>1, <2>8, <3>2 DEF TypeOK
    <3> QED
      BY <3>1, <3>2
  <2>11. conf' \in [Pairs -> Conflict]
    BY <2>8, <2>10
  <2>12. /\ work' \in [Events -> Work] /\ work'[e].pc = "done" /\ work'[e].target = None
         /\ \A f \in Events \ {e} : work'[f].pc = work[f].pc /\ work'[f].target = work[f].target
    BY <1>1, <2>1, FinishedIs
  <2>13. cand'[e] # "pending" /\ (\A f \in Events \ {e} : cand'[f] = cand[f]) /\ UNCHANGED <<req, manual>>
    BY <1>1, <2>1
  <2> HIDE DEF undone
  <2> QED
    BY <1>1, <2>3, <2>5, <2>6, <2>7, <2>10, <2>11, <2>12, <2>13, Stores
<1> QED
  BY <1>3, <1>4

LEMMA StoreClarificationStep ==
  ASSUME LedgerInv, NEW e \in Events, work[e].pc = "read", NEW d \in {"user", "tenant"},
         StoreClarification(e, work[e].target, AutoResolved[d])
  PROVE  LedgerInv'
<1>1. TypeOK /\ EventInv /\ mem[e] = "none" /\ Ev[e].kind = "memory" /\ cand[e] # "pending"
      /\ (\A c \in Pairs : Posed(c))
  BY DEF LedgerInv, EventInv, Waits, TypeOK
<1>2. PICK t \in Events \cup {None} : t = work[e].target /\ (t # None => t # e /\ mem[t] # "none")
  BY <1>1 DEF EventInv, Waits, TypeOK, Work
<1>3. CASE mem[t] = "deleted"
  BY <1>2, <1>3, NothingStored DEF StoreClarification
<1>4. CASE mem[t] # "deleted"
  <2>1. /\ mem' = [mem EXCEPT ![e] = "pending"]
        /\ claim' = RecordMemory(e, Ev[e].says, FALSE, None).claim
        /\ rev' = RecordMemory(e, Ev[e].says, FALSE, None).rev
        /\ conf' = [conf EXCEPT ![<<t, e>>] = AutoResolved[d]]
        /\ work' = Finished(e, {})
        /\ UNCHANGED <<text, cand, sig, req, manual>>
    BY <1>2, <1>4 DEF StoreClarification
  <2>2. rev[e] = NoRev /\ Ev[e].says \in Contents /\ ~LedgerRefuses(None)
    BY <1>1, NotStoredYet, Facts DEF LedgerRefuses
  <2>3. /\ rev' \in [Events -> Revision] /\ claim' \in [Keys -> Claim] /\ \A k \in Keys : Coherent(k)'
        /\ rev'[e].claim \in Keys /\ rev'[e].claim[1] = Ev[e].owner
        /\ \A f \in Events \ {e} : rev'[f].claim = rev[f].claim /\ (rev[f] = NoRev => rev'[f] = NoRev)
    BY <2>1, <2>2, Records
  <2>4. /\ mem' \in [Events -> MemoryStates] /\ mem'[e] = "pending"
        /\ \A f \in Events \ {e} : mem'[f] = mem[f]
    BY <1>1, <2>1 DEF TypeOK, MemoryStates
  <2>5. /\ text' \in [Events -> Contents] /\ cand' \in [Events -> CandidateStates]
        /\ sig' \in [Events -> Signal] /\ cand'[e] # "pending"
        /\ \A f \in Events : sig'[f] = sig[f] /\ cand'[f] = cand[f]
    BY <1>1, <2>1 DEF TypeOK
  <2>6. /\ work' \in [Events -> Work] /\ work'[e].pc = "done" /\ work'[e].target = None
        /\ \A f \in Events \ {e} : work'[f].pc = work[f].pc /\ work'[f].target = work[f].target
    BY <1>1, <2>1, FinishedIs
  <2>7. /\ AutoResolved[d] \in Conflict
        /\ ~(/\ AutoResolved[d].st \in {"pending", "clarification_queued"}
             /\ AutoResolved[d].path = "user_session" /\ AutoResolved[d].clar = "none")
    BY AutoRows, AutoFields
  <2>8. conf \in [Pairs -> Conflict]
    BY <1>1 DEF TypeOK
  <2>9. ASSUME NEW c \in Pairs
        PROVE  conf'[c] \in Conflict /\ (Posed(c)' \/ conf'[c] = conf[c])
    <3>1. CASE c = <<t, e>>
      <4>1. conf'[c] = AutoResolved[d]
        BY <2>1, <2>8, <3>1
      <4>2. c[1] = t /\ c[2] = e /\ t \in Events
        BY <3>1 DEF Pairs, Memories
      <4>3. mem'[c[1]] # "none" /\ mem'[c[2]] # "none"
        BY <1>2, <2>4, <4>2, Facts
      <4> QED
        BY <2>7, <4>1, <4>3 DEF Posed, Open
    <3>2. CASE c # <<t, e>>
      BY <2>1, <2>8, <3>2
    <3> QED
      BY <3>1, <3>2
  <2>10. conf' \in [Pairs -> Conflict]
    BY <2>1, <2>8, <2>9
  <2> QED
    BY <1>1, <2>1, <2>3, <2>4, <2>5, <2>6, <2>9, <2>10, Facts, Stores
<1> QED
  BY <1>3, <1>4

LEMMA CheckAndStoreStep ==
  ASSUME LedgerInv, NEW e \in Events, CheckAndStore(e)
  PROVE  LedgerInv'
<1> DEFINE t == work[e].target
<1>1. work[e].pc = "read" /\ Ev[e].says \in Contents
  BY Facts DEF CheckAndStore
<1>2. PICK o \in Outcomes(e, t) :
       \/ o \in {"NEW", "KEEP_BOTH"} /\ StoreMemory(e, Ev[e].says, None, {})
       \/ o = "UPDATE" /\ StoreMemory(e, Ev[e].says, t, {t})
       \/ o = "MERGE" /\ \E said \in Contents : StoreMemory(e, said, t, {t})
       \/ o = "CLARIFY_USER" /\ StoreClarification(e, t, AutoResolved.user)
       \/ o = "CLARIFY_TENANT" /\ StoreClarification(e, t, AutoResolved.tenant)
       \/ /\ o \in {"REJECT", "DROP", "BUFFER"}
          /\ o = "REJECT" => mem[t] # "deleted"
          /\ cand' = IF o = "BUFFER" THEN Buffered(e) ELSE cand
          /\ work' = Finished(e, {})
          /\ UNCHANGED <<mem, text, rev, claim, sig, conf, req, manual>>
       \/ o = "REJECT" /\ mem[t] = "deleted" /\ RolledBack(e)
  BY DEF CheckAndStore
<1>3. CASE StoreMemory(e, Ev[e].says, None, {})
  BY <1>1, <1>3, StoreMemoryStep
<1>4. ASSUME NEW said \in Contents, StoreMemory(e, said, t, {t})
      PROVE  LedgerInv'
  <2>1. PICK u, M : u = t /\ M = {t}
    OBVIOUS
  <2>2. StoreMemory(e, said, u, M)
    BY <1>4, <2>1
  <2> QED
    BY <1>1, <2>1, <2>2, StoreMemoryStep
<1>5. CASE \/ StoreClarification(e, t, AutoResolved.user)
           \/ StoreClarification(e, t, AutoResolved.tenant)
  BY <1>1, <1>5, StoreClarificationStep, AutoFields
<1>6. CASE \/ RolledBack(e)
           \/ /\ cand' = cand \/ cand' = Buffered(e)
              /\ work' = Finished(e, {})
              /\ UNCHANGED <<mem, text, rev, claim, sig, conf, req, manual>>
  BY <1>1, <1>6, NothingStored
<1> QED
  BY <1>1, <1>2, <1>3, <1>4, <1>5, <1>6

\* The field of a domain record enters the ledger alone.
LEMMA RecordDomainFieldStep ==
  ASSUME LedgerInv, NEW e \in Events, RecordDomainField(e)
  PROVE  LedgerInv'
<1>1. /\ TypeOK /\ EventInv /\ (\A k \in Keys : Coherent(k)) /\ (\A c \in Pairs : Posed(c)) /\ Loaded
      /\ work[e].pc = "idle" /\ mem[e] = "none" /\ Ev[e].kind = "field"
  BY DEF LedgerInv, RecordDomainField, Arrives
<1>2. PICK k \in Keys : k = <<Ev[e].owner, FieldKey>> /\ k[1] = Ev[e].owner
  BY Facts
<1>3. rev[e] = NoRev
  BY <1>1 DEF EventInv, Stored
<1>4. PICK said \in Contents : said = Ev[e].says
  BY Facts
<1>5. Coherent(k) /\ claim[k] \in Claim /\ claim = [claim EXCEPT ![k] = claim[k]]
  BY <1>1 DEF TypeOK
<1>6. claim[k].mem \in {None, claim[k].win} /\ (claim[k].st \in {"none", "archived"} => claim[k].win = None)
  BY <1>5 DEF Coherent
<1> DEFINE how == IF claim[k].st = "none" THEN "activated"
                  ELSE IF claim[k].value = Ev[e].says THEN "asserted"
                  ELSE IF claim[k].win = None \/ Ev[claim[k].win].writer = Ev[e].writer \/ IncomingWins(k, e)
                  THEN "activated" ELSE "disputed"
<1>7. PICK st \in {"activated", "asserted", "disputed"} : st = how
  OBVIOUS
<1>8. /\ rev' = Entered(k, e, said, st)
      /\ claim' = CASE st = "activated" -> [claim EXCEPT ![k] = Won(k, e, said)]
                    [] st = "disputed"  -> [claim EXCEPT ![k].st = "disputed"]
                    [] OTHER            -> claim
      /\ work' = [work EXCEPT ![e].pc = "done"]
      /\ UNCHANGED <<mem, text, cand, sig, conf, req, manual>>
  BY <1>2, <1>4, <1>7 DEF RecordDomainField
<1> HIDE DEF how
<1>9. PICK c \in Claim : Entering(k, e, said, st, c)
  <2>1. CASE st = "activated"
    <3>1. PICK c \in Claim : /\ c = Won(k, e, said) /\ c.st = "active" /\ c.win = e
                             /\ c.value = said /\ c.mem \in {None, e}
      BY <1>1, WonIs
    <3>2. claim' = [claim EXCEPT ![k] = c]
      BY <1>8, <2>1, <3>1
    <3>3. Entering(k, e, said, st, c)
      BY <1>8, <2>1, <3>1, <3>2 DEF Entering
    <3> QED
      BY <3>3
  <2>2. CASE st = "disputed"
    <3>1. PICK c \in Claim : /\ c = [claim[k] EXCEPT !.st = "disputed"] /\ c.win = claim[k].win
                             /\ c.mem = claim[k].mem /\ c.value = claim[k].value /\ c.st = "disputed"
      <4> DEFINE c == [claim[k] EXCEPT !.st = "disputed"]
      <4>1. /\ c \in Claim /\ c.win = claim[k].win
            /\ c.mem = claim[k].mem /\ c.value = claim[k].value /\ c.st = "disputed"
        BY <1>5 DEF Claim
      <4> QED
        BY <4>1, Zenon
    <3>2. claim' = [claim EXCEPT ![k] = c]
      BY <1>8, <2>2, <3>1
    <3>3. Entering(k, e, said, st, c)
      BY <1>6, <1>8, <2>2, <3>1, <3>2 DEF Entering
    <3> QED
      BY <3>3
  <2>3. CASE st = "asserted"
    <3>1. PICK c \in Claim : c = claim[k]
      BY <1>5
    <3>2. claim' = [claim EXCEPT ![k] = c]
      BY <1>5, <1>8, <2>3, <3>1
    <3>3. Entering(k, e, said, st, c)
      BY <1>6, <1>8, <2>3, <3>1, <3>2 DEF Entering
    <3> QED
      BY <3>3
  <2> QED
    BY <2>1, <2>2, <2>3
<1>10. /\ \A j \in Keys : Coherent(j)'
       /\ rev' \in [Events -> Revision] /\ claim' \in [Keys -> Claim] /\ rev'[e].claim = k
       /\ \A f \in Events \ {e} : rev'[f].claim = rev[f].claim /\ (rev[f] = NoRev => rev'[f] = NoRev)
  BY <1>1, <1>3, <1>9, Enters
<1>11. /\ work' \in [Events -> Work] /\ work'[e].pc = "done" /\ work'[e].target = work[e].target
       /\ \A f \in Events \ {e} : work'[f] = work[f]
  <2>1. work[e] \in Work /\ work \in [Events -> Work]
    BY <1>1 DEF TypeOK
  <2>2. /\ [work[e] EXCEPT !.pc = "done"] \in Work
        /\ [work[e] EXCEPT !.pc = "done"].pc = "done"
        /\ [work[e] EXCEPT !.pc = "done"].target = work[e].target
    BY <2>1 DEF Work
  <2> QED
    BY <1>8, <2>1, <2>2
<1>12. TypeOK'
  BY <1>1, <1>8, <1>10, <1>11 DEF TypeOK
<1>13. EventInv'
  <2>1. ASSUME NEW f \in Events, f # e
        PROVE  Stored(f)' /\ Waits(f)'
    BY <1>1, <1>8, <1>10, <1>11, <2>1, EventStays
  <2>2. Stored(e)'
    BY <1>1, <1>2, <1>8, <1>10, <1>11 DEF EventInv, Stored, Registered
  <2>3. Waits(e)'
    BY <1>1, <1>8, <1>11 DEF EventInv, Waits
  <2> QED
    BY <2>1, <2>2, <2>3 DEF EventInv
<1>14. ASSUME NEW d \in Pairs
       PROVE  Posed(d)'
  BY <1>1, <1>8, PosedStays
<1>15. Loaded'
  BY <1>1, <1>8, LoadedStays
<1> QED
  BY <1>10, <1>12, <1>13, <1>14, <1>15 DEF LedgerInv

LEMMA QuestionStep ==
  ASSUME LedgerInv, NEW c \in Pairs,
         \/ QueueExistingClarification(c) \/ AnswerTooLate(c) \/ Lapse(c)
         \/ MarkNotConflict(c) \/ PopClarification(c)
  PROVE  LedgerInv'
<1>1. TypeOK /\ Posed(c) /\ conf \in [Pairs -> Conflict] /\ conf[c] \in Conflict
  BY DEF LedgerInv, TypeOK
<1>2. CASE QueueExistingClarification(c)
  <2>1. /\ mem[c[1]] = "live" /\ mem[c[2]] = "live" /\ conf' = [conf EXCEPT ![c] = AutoResolved["user"]]
        /\ UNCHANGED <<mem, text, cand, rev, claim, sig, work, req>> /\ manual' \in 0 .. MaxManual
    BY <1>1, <1>2, AutoFields, LedgerAssumption DEF QueueExistingClarification, ByHand, TypeOK
  <2>2. /\ AutoResolved["user"] \in Conflict
        /\ ~(/\ AutoResolved["user"].st \in {"pending", "clarification_queued"}
             /\ AutoResolved["user"].path = "user_session" /\ AutoResolved["user"].clar = "none")
    BY AutoRows, AutoFields
  <2>3. /\ conf' \in [Pairs -> Conflict] /\ conf'[c] = AutoResolved["user"]
        /\ \A d \in Pairs \ {c} : conf'[d] = conf[d]
    BY <1>1, <2>1, <2>2
  <2> QED
    BY <2>1, <2>2, <2>3, QuestionMoves
<1>3. ASSUME NEW r \in {"triggered", "lapsed", "expired"}, conf' = [conf EXCEPT ![c].clar = r],
             UNCHANGED <<mem, text, cand, rev, claim, sig, work, req, manual>>
      PROVE  LedgerInv'
  <2>1. /\ [conf[c] EXCEPT !.clar = r] \in Conflict /\ [conf[c] EXCEPT !.clar = r].clar = r
        /\ [conf[c] EXCEPT !.clar = r].st = conf[c].st
    BY <1>1 DEF Conflict
  <2>2. /\ conf' \in [Pairs -> Conflict] /\ conf'[c].clar = r /\ conf'[c].st = conf[c].st
        /\ \A d \in Pairs \ {c} : conf'[d] = conf[d]
    BY <1>1, <1>3, <2>1
  <2>3. manual' \in 0 .. MaxManual /\ (conf'[c].st # "none" => mem[c[1]] # "none" /\ mem[c[2]] # "none")
    BY <1>1, <1>3, <2>2 DEF TypeOK, Posed
  <2> QED
    BY <1>3, <2>2, <2>3, QuestionMoves
<1>4. CASE MarkNotConflict(c)
  <2>1. /\ conf[c].st # "none" /\ conf' = [conf EXCEPT ![c].st = "ignored"]
        /\ UNCHANGED <<mem, text, cand, rev, claim, sig, work, req>> /\ manual' \in 0 .. MaxManual
    BY <1>1, <1>4, LedgerAssumption DEF MarkNotConflict, ByHand, TypeOK
  <2>2. [conf[c] EXCEPT !.st = "ignored"] \in Conflict /\ [conf[c] EXCEPT !.st = "ignored"].st = "ignored"
    BY <1>1 DEF Conflict
  <2>3. /\ conf' \in [Pairs -> Conflict] /\ conf'[c].st = "ignored"
        /\ \A d \in Pairs \ {c} : conf'[d] = conf[d]
    BY <1>1, <2>1, <2>2
  <2>4. mem[c[1]] # "none" /\ mem[c[2]] # "none"
    BY <1>1, <2>1 DEF Posed
  <2> QED
    BY <2>1, <2>3, <2>4, QuestionMoves
<1>5. CASE AnswerTooLate(c) \/ Lapse(c) \/ PopClarification(c)
  BY <1>3, <1>5 DEF AnswerTooLate, Lapse, PopClarification
<1> QED
  BY <1>2, <1>4, <1>5

LEMMA LoadAnswerStep ==
  ASSUME LedgerInv, NEW c \in Pairs, NEW route \in Routes, NEW sel \in Answers, LoadAnswer(route, c, sel)
  PROVE  LedgerInv'
<1>1. /\ TypeOK /\ EventInv /\ (\A k \in Keys : Coherent(k)) /\ (\A d \in Pairs : Posed(d)) /\ Posed(c)
      /\ MayAnswer(route, c, sel) /\ UNCHANGED <<mem, text, cand, rev, claim, sig, conf, work, manual>>
  BY DEF LedgerInv, LoadAnswer
<1>2. conf[c].st # "none" /\ (route = "mcp" => SelfScoped(c))
  BY <1>1 DEF MayAnswer, Open, Routes
<1>3. mem[c[1]] # "none" /\ mem[c[2]] # "none" /\ c[1] \in Events /\ c[2] \in Events
  BY <1>1, <1>2 DEF Posed, Pairs, Memories
<1>4. /\ req' = [route |-> route, c |-> c, sel |-> sel, archived |-> {m \in {c[1], c[2]} : IsArchived(m)}]
      /\ {m \in {c[1], c[2]} : IsArchived(m)} \in SUBSET Events
  BY <1>3 DEF LoadAnswer
<1>5. req' \in Request /\ req'.route = route /\ req'.c = c
  BY <1>4 DEF Request
<1>6. TypeOK'
  BY <1>1, <1>5 DEF TypeOK
<1>7. EventInv'
  <2>1. ASSUME NEW f \in Events
        PROVE  Stored(f)' /\ Waits(f)'
    BY <1>1, EventStays
  <2> QED
    BY <2>1 DEF EventInv
<1>8. ASSUME NEW d \in Pairs
      PROVE  Posed(d)'
  BY <1>1, PosedStays
<1>9. Loaded'
  BY <1>1, <1>2, <1>3, <1>5 DEF Loaded, SelfScoped
<1>10. \A k \in Keys : Coherent(k)'
  BY <1>1, CoherentStays
<1> QED
  BY <1>6, <1>7, <1>8, <1>9, <1>10 DEF LedgerInv

LEMMA AnswerStep ==
  ASSUME LedgerInv, NEW c \in Pairs, NEW sel \in Answers, AnswerClarification(c, sel)
  PROVE  LedgerInv'
<1>1. conf[c].st # "none" /\ Posed(c)
  BY DEF LedgerInv, AnswerClarification, Open
<1>2. mem[c[1]] # "none" /\ mem[c[2]] # "none"
  BY <1>1 DEF Posed
<1>3. PICK loaded : Settled(c, sel, loaded, "chat")
  BY DEF AnswerClarification
<1>4. ~MissingMemory(c) /\ req' = req
  BY DEF AnswerClarification
<1> QED
  BY <1>2, <1>3, <1>4, Settles

LEMMA WriteAnswerStep ==
  ASSUME LedgerInv, WriteAnswer
  PROVE  LedgerInv'
<1>1. /\ TypeOK /\ EventInv /\ (\A k \in Keys : Coherent(k)) /\ (\A d \in Pairs : Posed(d)) /\ Loaded
      /\ req # NoReq /\ req' = NoReq
  BY DEF LedgerInv, WriteAnswer
<1>2. req \in Request
  BY <1>1 DEF TypeOK
<1>3. PICK c \in Pairs, sel \in Answers, loaded \in SUBSET Events, route \in Routes :
        c = req.c /\ sel = req.sel /\ loaded = req.archived /\ route = req.route
  BY <1>2 DEF Request
<1>4. mem[c[1]] # "none" /\ mem[c[2]] # "none"
  BY <1>1, <1>3 DEF Loaded
<1>5. CASE MissingMemory(c)
  <2>1. UNCHANGED <<mem, text, cand, rev, claim, sig, conf, work, manual>>
    BY <1>3, <1>5 DEF WriteAnswer
  <2>2. TypeOK'
    BY <1>1, <2>1 DEF TypeOK
  <2>3. EventInv'
    <3>1. ASSUME NEW f \in Events
          PROVE  Stored(f)' /\ Waits(f)'
      BY <1>1, <2>1, EventStays
    <3> QED
      BY <3>1 DEF EventInv
  <2>4. ASSUME NEW d \in Pairs
        PROVE  Posed(d)'
    BY <1>1, <2>1, PosedStays
  <2>5. Loaded' /\ \A k \in Keys : Coherent(k)'
    BY <1>1, <2>1, LoadedStays, CoherentStays
  <2> QED
    BY <2>2, <2>3, <2>4, <2>5 DEF LedgerInv
<1>6. CASE ~MissingMemory(c)
  <2>1. Settled(c, sel, loaded, route)
    BY <1>3, <1>6 DEF WriteAnswer
  <2> QED
    BY <1>1, <1>4, <1>6, <2>1, Settles
<1> QED
  BY <1>5, <1>6

\* An edit or an archival by hand leaves the ledger alone.
LEMMA HandStep ==
  ASSUME LedgerInv, NEW m \in Events, SetArchived(m) \/ \E x \in Contents : EditMemory(m, x)
  PROVE  LedgerInv'
<1>1. TypeOK /\ EventInv /\ (\A k \in Keys : Coherent(k)) /\ (\A d \in Pairs : Posed(d)) /\ Loaded
  BY DEF LedgerInv
<1>2. /\ mem' \in [Events -> MemoryStates]
      /\ \A f \in Events : \/ mem'[f] = mem[f]
                           \/ /\ mem[f] \in {"live", "pending", "archived"}
                              /\ mem'[f] \in {"live", "pending", "archived"}
  BY <1>1 DEF SetArchived, EditMemory, TypeOK, MemoryStates
<1>3. /\ text' \in [Events -> Contents] /\ manual' \in 0 .. MaxManual /\ work' = Touched({m})
      /\ UNCHANGED <<cand, rev, claim, sig, conf, req>>
  BY <1>1, LedgerAssumption DEF SetArchived, EditMemory, ByHand, TypeOK
<1>4. /\ work' \in [Events -> Work]
      /\ \A f \in Events : work'[f].pc = work[f].pc /\ work'[f].target = work[f].target
  BY <1>1, <1>3, TouchedIs
<1>5. TypeOK'
  BY <1>1, <1>2, <1>3, <1>4 DEF TypeOK
<1>6. \A g \in Events : mem[g] # "none" => mem'[g] # "none"
  BY <1>2
<1>7. EventInv'
  <2>1. ASSUME NEW f \in Events
        PROVE  Stored(f)' /\ Waits(f)'
    BY <1>1, <1>2, <1>3, <1>4, <1>6, EventStays
  <2> QED
    BY <2>1 DEF EventInv
<1>8. ASSUME NEW d \in Pairs
      PROVE  Posed(d)'
  BY <1>1, <1>3, <1>6, PosedStays
<1>9. Loaded' /\ \A k \in Keys : Coherent(k)'
  BY <1>1, <1>3, <1>6, LoadedStays, CoherentStays
<1> QED
  BY <1>5, <1>7, <1>8, <1>9 DEF LedgerInv

LEMMA HardDeleteStep ==
  ASSUME LedgerInv, NEW m \in Events, HardDelete(m)
  PROVE  LedgerInv'
<1>1. /\ TypeOK /\ EventInv /\ (\A k \in Keys : Coherent(k)) /\ (\A d \in Pairs : Posed(d)) /\ Loaded
      /\ mem[m] \in {"live", "archived", "pending"}
  BY DEF LedgerInv, HardDelete
<1>2. /\ rev' = [rev EXCEPT ![m] = NoRev] /\ claim' = Reconciled(m)
      /\ mem' = [mem EXCEPT ![m] = "deleted"]
      /\ sig' = [sig EXCEPT ![m] = [value |-> NoText, current |-> FALSE]]
      /\ work' = Touched({m}) /\ UNCHANGED <<text, cand, conf, req>>
  BY DEF HardDelete
<1>3. (\A j \in Keys : Coherent(j)') /\ claim' \in [Keys -> Claim]
  BY <1>2, Reconciles
<1>4. /\ rev' \in [Events -> Revision] /\ rev'[m] = NoRev /\ \A f \in Events \ {m} : rev'[f] = rev[f]
  BY <1>1, <1>2, Facts DEF TypeOK
<1>5. /\ mem' \in [Events -> MemoryStates] /\ mem'[m] = "deleted" /\ \A f \in Events \ {m} : mem'[f] = mem[f]
  BY <1>1, <1>2 DEF TypeOK, MemoryStates
<1>6. /\ sig' \in [Events -> Signal] /\ \A f \in Events \ {m} : sig'[f] = sig[f]
  <2>1. [value |-> NoText, current |-> FALSE] \in Signal
    BY DEF Signal
  <2> QED
    BY <1>1, <1>2, <2>1 DEF TypeOK
<1>7. manual' \in 0 .. MaxManual
  BY <1>1, LedgerAssumption DEF HardDelete, ByHand, TypeOK
<1>8. /\ work' \in [Events -> Work]
      /\ \A f \in Events : work'[f].pc = work[f].pc /\ work'[f].target = work[f].target
  BY <1>1, <1>2, TouchedIs
<1>9. TypeOK'
  BY <1>1, <1>2, <1>3, <1>4, <1>5, <1>6, <1>7, <1>8 DEF TypeOK
<1>10. \A g \in Events : mem[g] # "none" => mem'[g] # "none"
  BY <1>5
<1>11. EventInv'
  <2>1. ASSUME NEW f \in Events, f # m
        PROVE  Stored(f)' /\ Waits(f)'
    BY <1>1, <1>2, <1>4, <1>5, <1>6, <1>8, <1>10, <2>1, EventStays
  <2>2. Stored(m)'
    BY <1>1, <1>4, <1>5, Facts DEF EventInv, Stored, Registered
  <2>3. Waits(m)'
    <3>1. Waits(m) /\ work[m].target \in Events \cup {None}
      BY <1>1 DEF EventInv, TypeOK, Work
    <3> QED
      BY <1>1, <1>2, <1>8, <1>10, <3>1 DEF Waits
  <2> QED
    BY <2>1, <2>2, <2>3 DEF EventInv
<1>12. ASSUME NEW d \in Pairs
       PROVE  Posed(d)'
  BY <1>1, <1>2, <1>10, PosedStays
<1>13. Loaded'
  BY <1>1, <1>2, <1>10, LoadedStays
<1> QED
  BY <1>3, <1>9, <1>11, <1>12, <1>13 DEF LedgerInv

\* What holds of a target that load_preview admits.
LEMMA CurrentTargetIs ==
  ASSUME LedgerInv, NEW e \in Events, NEW t \in Events, CurrentTarget(e, t)
  PROVE  /\ mem[t] = "live" /\ Ev[t].owner = Ev[e].owner /\ rev[t].claim \in Keys
         /\ rev[t].claim # NoKey /\ claim[rev[t].claim] \in Claim
         /\ claim[rev[t].claim].win = t /\ claim[rev[t].claim].value = text[t]
<1>1. /\ mem[t] = "live" /\ Ev[t].owner = Ev[e].owner /\ rev[t].claim # NoKey
      /\ claim[rev[t].claim].win = t /\ claim[rev[t].claim].value = text[t]
  BY DEF CurrentTarget
<1>2. rev[t] \in Revision /\ claim \in [Keys -> Claim]
  BY DEF LedgerInv, TypeOK
<1>3. rev[t].claim \in Keys \cup {NoKey}
  BY <1>2 DEF Revision
<1> QED
  BY <1>1, <1>2, <1>3

LEMMA PendingIs ==
  ASSUME LedgerInv, NEW e \in Events, PendingCorrection(e)
  PROVE  /\ mem[e] = "none" /\ Ev[e].kind = "memory" /\ rev[e] = NoRev
         /\ work[e].pc = "review" => work[e].target \in Events \ {e}
<1>1. Waits(e) /\ mem[e] = "none" /\ Ev[e].kind = "memory"
  BY DEF LedgerInv, EventInv, Waits, PendingCorrection
<1>2. work[e].target \in Events \cup {None}
  BY DEF LedgerInv, TypeOK, Work
<1>3. rev[e] = NoRev
  BY <1>1, NotStoredYet
<1> QED
  BY <1>1, <1>2, <1>3 DEF Waits

LEMMA CorrectionPreviewStep ==
  ASSUME LedgerInv, NEW e \in Events, NEW t \in Events, CorrectionPreview(e, t)
  PROVE  LedgerInv'
<1>1. /\ PendingCorrection(e) /\ t # e /\ CurrentTarget(e, t) /\ TypeOK
      /\ UNCHANGED <<mem, text, cand, rev, claim, sig, conf, req, manual>>
  BY DEF CorrectionPreview, LedgerInv
<1>2. mem[e] = "none" /\ Ev[e].kind = "memory"
  BY <1>1, PendingIs
<1>3. mem[t] = "live" /\ Ev[t].owner = Ev[e].owner /\ claim[rev[t].claim] \in Claim
  BY <1>1, CurrentTargetIs
<1>4. PICK s \in Claim : s = claim[rev[t].claim]
  BY <1>3
<1>5. PICK w \in Work : w = [pc |-> "review", target |-> t, stale |-> FALSE, seen |-> s] /\ w.pc = "review" /\ w.target = t
  <2>1. [pc |-> "review", target |-> t, stale |-> FALSE, seen |-> s] \in Work
    BY DEF Work
  <2> QED
    BY <2>1
<1>6. work' = [work EXCEPT ![e] = w]
  BY <1>4, <1>5 DEF CorrectionPreview
<1>7. work' \in [Events -> Work] /\ work'[e] = w /\ \A f \in Events \ {e} : work'[f] = work[f]
  BY <1>1, <1>6 DEF TypeOK
<1>8. /\ work'[e].pc = "review" /\ work'[e].target = t
      /\ \A f \in Events \ {e} : work'[f].pc = work[f].pc /\ work'[f].target = work[f].target
  BY <1>5, <1>7
<1>9. work'[e].target # None =>
        /\ mem[work'[e].target] # "none" /\ Ev[work'[e].target].owner = Ev[e].owner
        /\ work'[e].target # e
  BY <1>1, <1>3, <1>8
<1>10. cand' \in [Events -> CandidateStates] /\ \A f \in Events : cand'[f] = cand[f]
  BY <1>1 DEF TypeOK
<1>11. t # None
  BY Facts
<1> QED
  BY <1>1, <1>2, <1>7, <1>8, <1>9, <1>10, <1>11, WorkMoves

LEMMA CorrectionDeclineStep ==
  ASSUME LedgerInv, NEW e \in Events, CorrectionDecline(e)
  PROVE  LedgerInv'
<1>1. /\ TypeOK /\ mem[e] = "none" /\ Ev[e].kind = "memory"
      /\ UNCHANGED <<mem, text, rev, claim, sig, conf, req, manual>>
  BY PendingIs DEF CorrectionDecline, LedgerInv
<1>2. [NoWork EXCEPT !.pc = "done"] \in Work /\ [NoWork EXCEPT !.pc = "done"].pc = "done"
      /\ [NoWork EXCEPT !.pc = "done"].target = None
  BY Facts DEF NoWork, Work
<1>3. /\ work' \in [Events -> Work] /\ work'[e].pc = "done" /\ work'[e].target = None
      /\ \A f \in Events \ {e} : work'[f].pc = work[f].pc /\ work'[f].target = work[f].target
  BY <1>1, <1>2 DEF CorrectionDecline, TypeOK
<1>4. cand' \in [Events -> CandidateStates] /\ cand'[e] = "dismissed" /\ \A f \in Events \ {e} : cand'[f] = cand[f]
  BY <1>1 DEF CorrectionDecline, TypeOK, CandidateStates
<1> QED
  BY <1>1, <1>3, <1>4, WorkMoves

\* decide: the target is as it was shown, and the successor takes its place.
LEMMA CorrectionApplyDoes ==
  ASSUME LedgerInv, NEW e \in Events, CorrectionApply(e)
  PROVE  /\ LedgerInv'
         /\ LET t == work[e].target  k == rev[t].claim IN
            /\ mem[t] = "live" /\ text[t] = work[e].seen.value /\ claim[k].win = t
            /\ claim'[k].win = e /\ mem'[t] = "archived"
<1>1. /\ TypeOK /\ (\A c \in Pairs : Posed(c)) /\ PendingCorrection(e) /\ work[e].pc = "review"
      /\ StillAsShown(e, work[e].target)
  BY DEF CorrectionApply, LedgerInv
<1>2. PICK t \in Events \ {e} : t = work[e].target
  BY <1>1, PendingIs
<1>3. mem[e] = "none" /\ Ev[e].kind = "memory" /\ rev[e] = NoRev
  BY <1>1, PendingIs
<1>4. CurrentTarget(e, t) /\ claim[rev[t].claim] = work[e].seen
  BY <1>1, <1>2 DEF StillAsShown
<1>5. /\ mem[t] = "live" /\ Ev[t].owner = Ev[e].owner /\ rev[t].claim \in Keys
      /\ rev[t].claim # NoKey /\ claim[rev[t].claim] \in Claim
      /\ claim[rev[t].claim].win = t /\ claim[rev[t].claim].value = text[t]
  BY <1>4, CurrentTargetIs
<1>6. /\ mem' = [mem EXCEPT ![e] = "live", ![t] = "archived"]
      /\ rev' = RecordMemory(e, Ev[e].says, TRUE, t).rev
      /\ claim' = RecordMemory(e, Ev[e].says, TRUE, t).claim
      /\ cand' = [cand EXCEPT ![e] = "promoted"]
      /\ work' = Finished(e, {t})
      /\ UNCHANGED <<text, sig, conf, req, manual>>
  BY <1>2 DEF CorrectionApply, Finished
<1>7. Ev[e].says \in Contents /\ ~LedgerRefuses(t) /\ t # None
  BY <1>5, Facts DEF LedgerRefuses
<1>8. /\ rev' \in [Events -> Revision] /\ claim' \in [Keys -> Claim] /\ \A k \in Keys : Coherent(k)'
      /\ rev'[e].claim \in Keys /\ rev'[e].claim[1] = Ev[e].owner
      /\ \A f \in Events \ {e} : rev'[f].claim = rev[f].claim /\ (rev[f] = NoRev => rev'[f] = NoRev)
      /\ claim'[rev[t].claim].win = e
  <2>1. PICK live \in BOOLEAN : live = TRUE
    OBVIOUS
  <2>2. PICK said \in Contents : said = Ev[e].says
    BY <1>7
  <2>3. /\ rev' = RecordMemory(e, said, live, t).rev
        /\ claim' = RecordMemory(e, said, live, t).claim
    BY <1>6, <2>1, <2>2
  <2>4. t \in Events \cup {None}
    OBVIOUS
  <2> QED
    BY <1>3, <1>5, <1>7, <2>1, <2>3, <2>4, Records
<1>9. /\ mem' \in [Events -> MemoryStates] /\ mem'[e] = "live" /\ mem'[t] = "archived"
      /\ \A f \in Events \ {e} : \/ mem'[f] = mem[f]
                                 \/ /\ mem[f] \in {"live", "pending", "archived"}
                                    /\ mem'[f] \in {"live", "pending", "archived"}
  BY <1>1, <1>2, <1>5, <1>6 DEF TypeOK, MemoryStates
<1>10. /\ cand' \in [Events -> CandidateStates] /\ cand'[e] = "promoted"
       /\ \A f \in Events \ {e} : cand'[f] = cand[f]
  BY <1>1, <1>6 DEF TypeOK, CandidateStates
<1>11. /\ work' \in [Events -> Work] /\ work'[e].pc = "done" /\ work'[e].target = None
       /\ \A f \in Events \ {e} : work'[f].pc = work[f].pc /\ work'[f].target = work[f].target
  BY <1>1, <1>6, FinishedIs
<1>12. /\ text' \in [Events -> Contents] /\ sig' \in [Events -> Signal] /\ conf' \in [Pairs -> Conflict]
       /\ (\A f \in Events : sig'[f] = sig[f]) /\ \A c \in Pairs : conf'[c] = conf[c]
  BY <1>1, <1>6 DEF TypeOK
<1>13. LedgerInv'
  BY <1>3, <1>6, <1>8, <1>9, <1>10, <1>11, <1>12, Facts, Stores
<1> QED
  BY <1>2, <1>4, <1>5, <1>8, <1>9, <1>13

LEMMA LedgerStarts == Init => LedgerInv
<1> SUFFICES ASSUME Init
             PROVE  LedgerInv
  OBVIOUS
<1>1. PICK L \in SUBSET Legacy : mem = [e \in Events |-> IF e \in L THEN "live" ELSE "none"]
  BY DEF Init
<1>2. /\ rev = [e \in Events |-> NoRev] /\ claim = [k \in Keys |-> NoClaim]
      /\ sig = [e \in Events |-> [value |-> NoText, current |-> FALSE]]
      /\ conf = [c \in Pairs |-> NoConflict] /\ work = [e \in Events |-> NoWork]
      /\ cand = [e \in Events |-> "none"] /\ text = [e \in Events |-> Ev[e].says]
      /\ req = NoReq /\ manual = 0
  BY DEF Init
<1>3. [value |-> NoText, current |-> FALSE] \in Signal
  BY DEF Signal
<1>4. TypeOK
  <2>1. mem \in [Events -> MemoryStates] /\ text \in [Events -> Contents]
        /\ cand \in [Events -> CandidateStates]
    BY <1>1, <1>2, Facts DEF MemoryStates, CandidateStates
  <2>2. rev \in [Events -> Revision] /\ claim \in [Keys -> Claim] /\ work \in [Events -> Work]
        /\ conf \in [Pairs -> Conflict]
    BY <1>2, Facts
  <2>3. sig \in [Events -> Signal]
    BY <1>2, <1>3
  <2>4. manual \in 0 .. MaxManual
    BY <1>2, LedgerAssumption
  <2> QED
    BY <1>2, <2>1, <2>2, <2>3, <2>4 DEF TypeOK
<1>5. \A k \in Keys : Coherent(k)
  BY <1>2, Facts DEF NoClaim, Coherent
<1>6. ASSUME NEW e \in Events
      PROVE  Stored(e) /\ Waits(e)
  <2>1. mem[e] # "none" => Ev[e].kind = "memory" /\ ~Registered(e)
    BY <1>1, LedgerAssumption DEF Registered
  <2>2. Stored(e)
    BY <1>2, <2>1, Facts DEF Stored
  <2>3. Waits(e)
    BY <1>2 DEF Waits, NoWork
  <2> QED
    BY <2>2, <2>3
<1>7. \A c \in Pairs : Posed(c)
  BY <1>2 DEF Posed, Open, NoConflict
<1> QED
  BY <1>2, <1>4, <1>5, <1>6, <1>7 DEF LedgerInv, EventInv, Loaded

LEMMA LedgerSteps ==
  ASSUME LedgerInv, [Next]_vars
  PROVE  LedgerInv'
<1>1. ASSUME UNCHANGED vars
      PROVE  LedgerInv'
  <2>1. UNCHANGED <<mem, text, cand, rev, claim, sig, conf, work, req, manual>>
    BY <1>1 DEF vars
  <2>2. TypeOK' /\ EventInv' /\ (\A k \in Keys : Coherent(k)') /\ (\A c \in Pairs : Posed(c)') /\ Loaded'
    <3>1. TypeOK /\ EventInv /\ (\A k \in Keys : Coherent(k)) /\ (\A c \in Pairs : Posed(c)) /\ Loaded
      BY DEF LedgerInv
    <3>2. TypeOK'
      BY <2>1, <3>1 DEF TypeOK
    <3>3. ASSUME NEW f \in Events
          PROVE  Stored(f)' /\ Waits(f)'
      BY <2>1, <3>1, EventStays
    <3>4. ASSUME NEW c \in Pairs
          PROVE  Posed(c)'
      BY <2>1, <3>1, PosedStays
    <3>5. Loaded' /\ \A k \in Keys : Coherent(k)'
      BY <2>1, <3>1, LoadedStays, CoherentStays
    <3> QED
      BY <3>2, <3>3, <3>4, <3>5 DEF EventInv
  <2> QED
    BY <2>2 DEF LedgerInv
<1>2. ASSUME Next
      PROVE  LedgerInv'
  BY <1>2, ReadCandidatesStep, CheckAndStoreStep, RecordDomainFieldStep, QuestionStep, LoadAnswerStep,
     AnswerStep, WriteAnswerStep, HandStep, HardDeleteStep, CorrectionPreviewStep,
     CorrectionApplyDoes, CorrectionDeclineStep DEF Next
<1> QED
  BY <1>1, <1>2

-----------------------------------------------------------------------------
(* The theorems.                                                           *)

\* The inductive invariant of the ledger: every claim and its revisions agree,
\* an event is stored once, and whoever waits still has its target.
THEOREM LedgerInvariant == Spec => []LedgerInv
  BY LedgerStarts, LedgerSteps, PTL DEF Spec

\* The rows keep their types.
THEOREM LedgerTypes == Spec => []TypeOK
<1>1. LedgerInv => TypeOK
  BY DEF LedgerInv
<1> QED
  BY <1>1, LedgerInvariant, PTL

\* The ledger names one answer, whatever record_memory, the field writer, a
\* selection, a correction and a deletion wrote.
THEOREM Coherence == Spec => []LedgerCoherent
<1>1. LedgerInv => LedgerCoherent
  BY CoherentIs DEF LedgerInv
<1> QED
  BY <1>1, LedgerInvariant, PTL

\* A registered memory has its revision, a conflict of the user's its question.
THEOREM AllAccounted == Spec => []Accounted
<1>1. LedgerInv => RegisteredInLedger
  BY DEF LedgerInv, EventInv, Stored, RegisteredInLedger
<1>2. LedgerInv => UserConflictHasQuestion
  BY DEF LedgerInv, Posed, UserConflictHasQuestion
<1>3. LedgerInv => Accounted
  BY <1>1, <1>2 DEF Accounted
<1> QED
  BY <1>3, LedgerInvariant, PTL

-----------------------------------------------------------------------------
(* What a step changes.                                                    *)

\* A decision to replace nothing is what is left of a stale comparison.
LEMMA StaleIsBuffered ==
  ASSUME NEW e \in Events, Ev[e].verified, work[e].target # None,
         work[e].stale \/ mem[work[e].target] # "live", NEW o \in Outcomes(e, work[e].target)
  PROVE  o = "BUFFER"
  BY DEF Outcomes, StoredOnlyIfPlain

\* A step of the worker stores its own event live, and none with a stale
\* comparison; it never revives another memory.
LEMMA CheckAndStoreDoes ==
  ASSUME LedgerInv, NEW e \in Events, CheckAndStore(e), NEW f \in Events,
         mem[f] = "none", mem'[f] = "live"
  PROVE  f = e /\ (Ev[e].verified => \/ work[e].target = None
                                     \/ mem[work[e].target] = "live" /\ ~work[e].stale)
<1> DEFINE t == work[e].target
<1>1. PICK o \in Outcomes(e, t) :
       \/ o \in {"NEW", "KEEP_BOTH"} /\ StoreMemory(e, Ev[e].says, None, {})
       \/ o = "UPDATE" /\ StoreMemory(e, Ev[e].says, t, {t})
       \/ o = "MERGE" /\ \E said \in Contents : StoreMemory(e, said, t, {t})
       \/ o = "CLARIFY_USER" /\ StoreClarification(e, t, AutoResolved.user)
       \/ o = "CLARIFY_TENANT" /\ StoreClarification(e, t, AutoResolved.tenant)
       \/ /\ o \in {"REJECT", "DROP", "BUFFER"}
          /\ o = "REJECT" => mem[t] # "deleted"
          /\ cand' = IF o = "BUFFER" THEN Buffered(e) ELSE cand
          /\ work' = Finished(e, {})
          /\ UNCHANGED <<mem, text, rev, claim, sig, conf, req, manual>>
       \/ o = "REJECT" /\ mem[t] = "deleted" /\ RolledBack(e)
  BY DEF CheckAndStore
<1>2. ASSUME NEW said, NEW pred, NEW M, StoreMemory(e, said, pred, M)
      PROVE  mem' = mem \/
             mem' = [g \in Events |-> IF g = e THEN "live" ELSE IF g \in M THEN "archived" ELSE mem[g]]
  BY <1>2 DEF StoreMemory, RolledBack
<1>3. ASSUME NEW row, StoreClarification(e, t, row)
      PROVE  mem' = mem \/ mem' = [mem EXCEPT ![e] = "pending"]
  BY <1>3 DEF StoreClarification, RolledBack
<1>4. mem \in [Events -> MemoryStates] /\ mem' # mem
  BY DEF LedgerInv, TypeOK
<1>5. CASE o \in {"NEW", "KEEP_BOTH", "UPDATE", "MERGE"}
  <2>1. PICK M : mem' = [g \in Events |-> IF g = e THEN "live" ELSE IF g \in M THEN "archived" ELSE mem[g]]
    BY <1>1, <1>2, <1>4, <1>5
  <2>2. f = e
    BY <2>1
  <2> QED
    BY <1>5, <2>2, StaleIsBuffered
<1>6. CASE o \in {"CLARIFY_USER", "CLARIFY_TENANT"}
  <2>1. mem' = [mem EXCEPT ![e] = "pending"]
    BY <1>1, <1>3, <1>4, <1>6
  <2> QED
    BY <1>4, <2>1
<1>7. CASE o \in {"REJECT", "DROP", "BUFFER"}
  BY <1>1, <1>4, <1>7 DEF RolledBack
<1> QED
  BY <1>1, <1>5, <1>6, <1>7

\* An answer changes the two memories it was asked about, which exist.
LEMMA SettledDoes ==
  ASSUME LedgerInv, NEW c \in Pairs, NEW sel, NEW loaded, NEW route,
         mem[c[1]] # "none", mem[c[2]] # "none", Settled(c, sel, loaded, route)
  PROVE  \A m \in Events : /\ mem[m] = "none" => mem'[m] = "none"
                           /\ m \notin {c[1], c[2]} => mem'[m] = mem[m]
<1>1. mem' = Selected(c, sel, loaded)
  BY DEF Settled
<1> QED
  BY <1>1 DEF Selected

LEMMA OpenIsPosed ==
  ASSUME LedgerInv, NEW c \in Pairs, Open(c)
  PROVE  mem[c[1]] # "none" /\ mem[c[2]] # "none"
  BY DEF LedgerInv, Posed, Open

LEMMA LoadedIs ==
  ASSUME LedgerInv, req # NoReq
  PROVE  /\ req \in Request /\ req.c \in Pairs /\ mem[req.c[1]] # "none" /\ mem[req.c[2]] # "none"
         /\ req.c[1] \in Events /\ req.c[2] \in Events
         /\ req.route = "mcp" => Ev[req.c[1]].owner = Ev[req.c[2]].owner
<1>1. req \in Request /\ Loaded
  BY DEF LedgerInv, TypeOK
<1>2. req.c \in Pairs
  BY <1>1 DEF Request
<1> QED
  BY <1>1, <1>2 DEF Loaded, SelfScoped, Pairs, Memories

LEMMA VerifiedStep ==
  ASSUME LedgerInv, Next, NEW e \in Events, mem[e] = "none", mem'[e] = "live", Ev[e].verified
  PROVE  work[e].target = None \/ (mem[work[e].target] = "live" /\ ~work[e].stale)
<1>1. mem' # mem
  OBVIOUS
<1>2. ASSUME NEW f \in Events, ReadCandidates(f) \/ RecordDomainField(f) \/ CorrectionDecline(f)
      PROVE  FALSE
  BY <1>1, <1>2 DEF ReadCandidates, RecordDomainField, CorrectionDecline
<1>3. ASSUME NEW f \in Events, CheckAndStore(f)
      PROVE  work[e].target = None \/ (mem[work[e].target] = "live" /\ ~work[e].stale)
  BY <1>3, CheckAndStoreDoes
<1>4. ASSUME NEW c \in Pairs,
             \/ QueueExistingClarification(c) \/ AnswerTooLate(c) \/ Lapse(c)
             \/ MarkNotConflict(c) \/ PopClarification(c)
             \/ \E route \in Routes, sel \in Answers : LoadAnswer(route, c, sel)
      PROVE  FALSE
  BY <1>1, <1>4 DEF QueueExistingClarification, AnswerTooLate, Lapse, MarkNotConflict, PopClarification,
                    LoadAnswer
<1>5. ASSUME NEW c \in Pairs, NEW sel \in Answers, AnswerClarification(c, sel)
      PROVE  FALSE
  <2>1. PICK loaded : Settled(c, sel, loaded, "chat")
    BY <1>5 DEF AnswerClarification
  <2>2. Open(c)
    BY <1>5 DEF AnswerClarification
  <2> QED
    BY <2>1, <2>2, OpenIsPosed, SettledDoes
<1>6. ASSUME WriteAnswer
      PROVE  FALSE
  <2>1. req # NoReq
    BY <1>6 DEF WriteAnswer
  <2>2. PICK c \in Pairs, sel \in Answers, loaded \in SUBSET Events, route \in Routes :
          c = req.c /\ sel = req.sel /\ loaded = req.archived /\ route = req.route
    BY <2>1, LoadedIs DEF Request
  <2>3. Settled(c, sel, loaded, route)
    BY <1>1, <1>6, <2>2 DEF WriteAnswer
  <2> QED
    BY <2>1, <2>2, <2>3, LoadedIs, SettledDoes
<1>7. ASSUME NEW m \in Events, SetArchived(m) \/ HardDelete(m) \/ \E x \in Contents : EditMemory(m, x)
      PROVE  FALSE
  BY <1>7 DEF SetArchived, HardDelete, EditMemory, LedgerInv, TypeOK
<1>8. ASSUME NEW f \in Events, NEW u \in Events, CorrectionPreview(f, u)
      PROVE  FALSE
  BY <1>1, <1>8 DEF CorrectionPreview
<1>9. ASSUME NEW f \in Events, CorrectionApply(f)
      PROVE  FALSE
  <2>1. ~Ev[f].verified /\ mem' = [mem EXCEPT ![f] = "live", ![work[f].target] = "archived"]
    BY <1>9 DEF CorrectionApply, PendingCorrection
  <2> QED
    BY <2>1 DEF LedgerInv, TypeOK
<1> QED
  BY <1>2, <1>3, <1>4, <1>5, <1>6, <1>7, <1>8, <1>9 DEF Next

\* Only the route that loaded an answer writes it.
LEMMA OnlyWriteAnswers ==
  ASSUME Next, req # NoReq, req' = NoReq
  PROVE  WriteAnswer
<1>1. req' # req
  OBVIOUS
<1>2. ASSUME NEW e \in Events, CheckAndStore(e)
      PROVE  FALSE
  BY <1>1, <1>2 DEF CheckAndStore, StoreMemory, StoreClarification, RolledBack
<1>3. ASSUME NEW e \in Events, NEW t \in Events,
             \/ ReadCandidates(e) \/ RecordDomainField(e) \/ CorrectionPreview(e, t)
             \/ CorrectionApply(e) \/ CorrectionDecline(e)
             \/ SetArchived(e) \/ HardDelete(e) \/ \E x \in Contents : EditMemory(e, x)
      PROVE  FALSE
  BY <1>1, <1>3 DEF ReadCandidates, RecordDomainField, CorrectionPreview, CorrectionApply,
                    CorrectionDecline, SetArchived, HardDelete, EditMemory
<1>4. ASSUME NEW c \in Pairs,
             \/ QueueExistingClarification(c) \/ AnswerTooLate(c) \/ Lapse(c)
             \/ MarkNotConflict(c) \/ PopClarification(c)
             \/ \E sel \in Answers : AnswerClarification(c, sel)
             \/ \E route \in Routes, sel \in Answers : LoadAnswer(route, c, sel)
      PROVE  FALSE
  BY <1>1, <1>4 DEF QueueExistingClarification, AnswerTooLate, Lapse, MarkNotConflict,
                    PopClarification, AnswerClarification, LoadAnswer
<1> QED
  BY <1>2, <1>3, <1>4 DEF Next

LEMMA McpStep ==
  ASSUME LedgerInv, Next, req # NoReq, req.route = "mcp", req' = NoReq,
         NEW m \in Events, Ev[m].owner # Ev[req.c[1]].owner
  PROVE  mem'[m] = mem[m] /\ rev'[m] = rev[m]
<1>1. WriteAnswer
  BY OnlyWriteAnswers
<1>2. PICK c \in Pairs, sel \in Answers, loaded \in SUBSET Events, route \in Routes :
        c = req.c /\ sel = req.sel /\ loaded = req.archived /\ route = req.route
  BY LoadedIs DEF Request
<1>3. CASE MissingMemory(c)
  BY <1>1, <1>2, <1>3 DEF WriteAnswer
<1>4. CASE ~MissingMemory(c)
  <2>1. Settled(c, sel, loaded, route)
    BY <1>1, <1>2, <1>4 DEF WriteAnswer
  <2>2. /\ c[1] \in Events /\ c[2] \in Events /\ mem[c[1]] # "none" /\ mem[c[2]] # "none"
        /\ Ev[c[1]].owner = Ev[c[2]].owner /\ Ev[m].owner # Ev[c[1]].owner
    BY <1>2, LoadedIs
  <2>3. mem'[m] = mem[m]
    BY <2>1, <2>2, SettledDoes
  <2>4. rev' = SelectedLedger(c, sel).rev /\ claim' = SelectedLedger(c, sel).claim
    BY <2>1 DEF Settled
  <2>5. rev[m].claim = NoKey \/ rev[m].claim \notin {rev[c[1]].claim, rev[c[2]].claim}
    <3>1. Stored(m) /\ Stored(c[1]) /\ Stored(c[2])
      BY <2>2 DEF LedgerInv, EventInv
    <3> QED
      BY <2>2, <3>1 DEF Stored
  <2>6. rev'[m] = rev[m]
    BY <2>4, <2>5, Selects
  <2> QED
    BY <2>3, <2>6
<1> QED
  BY <1>3, <1>4

\* Only an operator's decision promotes a correction.
LEMMA PromotedStep ==
  ASSUME LedgerInv, Next, NEW e \in Events, cand[e] = "pending", cand'[e] = "promoted"
  PROVE  CorrectionApply(e)
<1>1. cand \in [Events -> CandidateStates] /\ cand' # cand
  BY DEF LedgerInv, TypeOK
<1>2. ASSUME NEW f \in Events, CheckAndStore(f)
      PROVE  cand' = cand \/ cand' = [cand EXCEPT ![f] = "pending"]
  BY <1>2 DEF CheckAndStore, StoreMemory, StoreClarification, RolledBack, Buffered
<1>3. ASSUME NEW f \in Events, CorrectionApply(f) \/ CorrectionDecline(f)
      PROVE  CorrectionApply(e)
  <2>1. CASE CorrectionApply(f)
    <3>1. cand' = [cand EXCEPT ![f] = "promoted"]
      BY <2>1 DEF CorrectionApply
    <3>2. f = e
      BY <1>1, <3>1
    <3> QED
      BY <2>1, <3>2
  <2>2. CASE CorrectionDecline(f)
    BY <1>1, <2>2 DEF CorrectionDecline
  <2> QED
    BY <1>3, <2>1, <2>2
<1>4. \/ \E f \in Events : CheckAndStore(f) \/ CorrectionApply(f) \/ CorrectionDecline(f)
      \/ cand' = cand
  BY DEF Next, ReadCandidates,
         RecordDomainField, QueueExistingClarification, AnswerTooLate, Lapse, MarkNotConflict,
         PopClarification, AnswerClarification, Settled, LoadAnswer, WriteAnswer, SetArchived, HardDelete,
         EditMemory, CorrectionPreview
<1> QED
  BY <1>1, <1>2, <1>3, <1>4

\* What waited for a provider, a person or an operator changes only what it was
\* decided about: check_and_store compares its target again, the public MCP
\* answers for its own profile, and an applied correction replaces exactly what
\* the operator was shown.
THEOREM AsDecided == Spec => ChangesAsDecided
<1>1. LedgerInv /\ [Next]_vars =>
        [\A e \in Events : mem[e] = "none" /\ mem'[e] = "live" /\ Ev[e].verified =>
           LET t == work[e].target IN
           t = None \/ (mem[t] = "live" /\ ~work[e].stale)]_vars
  BY VerifiedStep
<1>2. LedgerInv /\ [Next]_vars =>
        [req # NoReq /\ req.route = "mcp" /\ req' = NoReq =>
           \A m \in Events : Ev[m].owner # Ev[req.c[1]].owner =>
             mem'[m] = mem[m] /\ rev'[m] = rev[m]]_vars
  BY McpStep
<1>3. LedgerInv /\ [Next]_vars =>
        [\A e \in Events : cand[e] = "pending" /\ cand'[e] = "promoted" =>
           LET t == work[e].target  k == rev[t].claim IN
           /\ mem[t] = "live" /\ text[t] = work[e].seen.value /\ claim[k].win = t
           /\ claim'[k].win = e /\ mem'[t] = "archived"]_vars
  BY PromotedStep, CorrectionApplyDoes
<1>4. Spec => VerifiedReplacesOnlyCurrent
  BY <1>1, LedgerInvariant, PTL DEF Spec, VerifiedReplacesOnlyCurrent
<1>5. Spec => McpAnswersSelfOnly
  BY <1>2, LedgerInvariant, PTL DEF Spec, McpAnswersSelfOnly
<1>6. Spec => CorrectionReplacesWhatWasShown
  BY <1>3, LedgerInvariant, PTL DEF Spec, CorrectionReplacesWhatWasShown
<1> QED
  BY <1>4, <1>5, <1>6 DEF ChangesAsDecided
=============================================================================
