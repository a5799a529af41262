--------------------------- MODULE JobTrackerProofs ---------------------------
(***************************************************************************)
(* Proofs that no acknowledged block is compacted again, that jobs share   *)
(* no block, that the lists agree with the map of jobs, that the bucket    *)
(* holds what the memory holds, and that the whole implements              *)
(* CompactionClaims, for any blocks, group keys, workers and faults.       *)
(***************************************************************************)
EXTENDS JobTrackerPlanProofs, ListProofs

----------------------------------------------------------------------------
(* The lists *)

Fits(s, S) == s \in Seq(Ids) /\ Range(s) = S /\ IsInjective(s)
Oldest(s, F) == \A m, n \in DOMAIN s : m < n /\ s[m] \in F => s[n] \in F
Waiting(l) == {id \in Ids : Pending(id) /\ LaneForJob(id) = l}
Running == {id \in Ids : Leased(id)}

\* The lists agree with the map, in memory and, so that a restart finds them so,
\* in the bucket.
Lists ==
    /\ pending = [l \in Lanes |-> pending[l]]
    /\ \A l \in Lanes : Fits(pending[l], Waiting(l))
    /\ Fits(active, Running)
    /\ fresh \subseteq Running /\ diskFresh \subseteq Running
    /\ Oldest(active, fresh)

LEMMA ListsMean == Lists => ListsMatchJobs /\ OldestLeaseFirst
  BY DEF Lists, Fits, Oldest, Waiting, Running, ListsMatchJobs, OldestLeaseFirst

LEMMA FitsKeep ==
    ASSUME NEW s, NEW S, Fits(s, S), NEW gone
    PROVE  Fits(Keep(s, Ids \ gone), S \ gone)
<1>1. S \subseteq Ids
  BY DEF Fits, Range
<1>2. /\ Keep(s, Ids \ gone) \in Seq(Ids)
      /\ Range(Keep(s, Ids \ gone)) = S \cap (Ids \ gone)
      /\ IsInjective(Keep(s, Ids \ gone))
  BY KeepSet DEF Fits
<1> QED
  BY <1>1, <1>2, Zenon DEF Fits

\* What is taken out of a list leaves the others in their order, and what is
\* put at its end is the youngest.
LEMMA OldestKeep ==
    ASSUME NEW s \in Seq(Ids), NEW F, Oldest(s, F), NEW gone
    PROVE  Oldest(Keep(s, Ids \ gone), F \ gone)
<1> DEFINE r == Keep(s, Ids \ gone)
<1>1. PICK g : Kept(r, s, Ids \ gone, g)
  BY KeepIs
<1> HIDE DEF r
<1>2. ASSUME NEW m \in DOMAIN r, NEW n \in DOMAIN r, m < n, r[m] \in F \ gone
      PROVE  r[n] \in F \ gone
  <2>1. /\ g[m] \in DOMAIN s /\ g[n] \in DOMAIN s /\ g[m] < g[n]
        /\ r[m] = s[g[m]] /\ r[n] = s[g[n]] /\ r[n] \notin gone
    BY <1>1, <1>2 DEF Kept
  <2> QED
    BY <1>2, <2>1 DEF Oldest
<1> QED
  BY <1>2, Zenon DEF Oldest, r
LEMMA OldestAppend ==
    ASSUME NEW s \in Seq(Ids), NEW F, Oldest(s, F), NEW id \in Ids, id \notin Range(s)
    PROVE  Oldest(Append(s, id), F \cup {id})
<1> DEFINE r == Append(s, id)
<1>1. /\ DOMAIN s = 1..Len(s) /\ Len(s) \in Nat /\ DOMAIN r = 1..(Len(s) + 1)
      /\ r[Len(s) + 1] = id
      /\ \A i \in DOMAIN r : i \in Nat /\ (i = Len(s) + 1 \/ (i \in DOMAIN s /\ r[i] = s[i]))
      /\ \A i \in DOMAIN s : i < Len(s) + 1
  OBVIOUS
<1> HIDE DEF r
<1>2. \A i \in DOMAIN s : s[i] # id
  BY DEF Range
<1>3. ASSUME NEW m \in DOMAIN r, NEW n \in DOMAIN r, m < n, r[m] \in F \cup {id}
      PROVE  r[n] \in F \cup {id}
  <2>1. CASE n = Len(s) + 1
    BY <1>1, <2>1
  <2>2. CASE n # Len(s) + 1
    <3>1. n \in DOMAIN s /\ r[n] = s[n]
      BY <1>1, <2>2
    <3>2. m # Len(s) + 1
      BY <1>1, <1>3, <3>1
    <3>3. m \in DOMAIN s /\ r[m] = s[m] /\ s[m] \in F
      BY <1>1, <1>2, <1>3, <3>2
    <3> QED
      BY <1>3, <3>1, <3>3 DEF Oldest
  <2> QED
    BY <2>1, <2>2
<1> QED
  BY <1>3 DEF Oldest, r

LEMMA LeaseLists ==
    ASSUME Core, Lists, NEW w \in Workers, NEW l \in Lanes, Lease(w, l)
    PROVE  Lists'
<1>1. PICK id \in Ids :
        /\ id = Head(pending[l])
        /\ jobs' = [jobs EXCEPT ![id] = MarkLeased(jobs[id])]
        /\ fresh' = fresh \cup {id} /\ diskFresh' = diskFresh \cup {id}
        /\ active' = Append(active, id)
  BY Zenon DEF Lease
<1>2. pending[l] # <<>> /\ pending' = [pending EXCEPT ![l] = Tail(@)]
  BY DEF Lease
<1>3. jobs \in [Ids -> Job] /\ MarkLeased(jobs[id]).status = "leased"
  BY JobOps DEF Core, CoreTypes
<1>4. jobs'[id].status = "leased" /\ \A i \in Ids : i # id => jobs'[i] = jobs[i]
  BY <1>1, <1>3
<1>5. /\ pending[l] \in Seq(Ids) /\ Range(pending[l]) = Waiting(l) /\ IsInjective(pending[l])
      /\ active \in Seq(Ids) /\ Range(active) = Running /\ IsInjective(active)
  BY DEF Lists, Fits
<1>6. /\ id \in Waiting(l) /\ Fits(Tail(pending[l]), Waiting(l) \ {id})
  BY <1>1, <1>2, <1>5, TailSet DEF Fits
<1>7. id \notin Running /\ LaneForJob(id) = l /\ Pending(id)
  BY <1>6 DEF Running, Waiting, Leased, Pending
<1>8. Running' = Running \cup {id}
  BY <1>4 DEF Running, Leased
<1>9. Waiting(l)' = Waiting(l) \ {id} /\ \A k \in Lanes : k # l => Waiting(k)' = Waiting(k)
  BY <1>4, <1>7 DEF Waiting, Pending
<1>10. pending' = [k \in Lanes |-> pending'[k]] /\ \A k \in Lanes : Fits(pending'[k], Waiting(k)')
  BY <1>2, <1>6, <1>9, Zenon DEF Lists
<1>11. Fits(active', Running')
  BY <1>1, <1>5, <1>7, <1>8, AppendSet DEF Fits
<1>12. Oldest(active', fresh')
  BY <1>1, <1>5, <1>7, OldestAppend DEF Lists
<1> QED
  BY <1>1, <1>8, <1>10, <1>11, <1>12 DEF Lists

\* A renewed lease is the youngest.
LEMMA RenewLists ==
    ASSUME Lists, NEW id \in Ids, Leased(id), RenewLease(id),
           jobs' = jobs, pending' = pending, diskFresh' = diskFresh
    PROVE  Lists'
<1> DEFINE rest == Keep(active, Ids \ {id})
<1>1. fresh' = fresh \cup {id} /\ active' = Append(rest, id)
  BY DEF RenewLease
<1>2. /\ active \in Seq(Ids) /\ Fits(rest, Running \ {id})
      /\ Oldest(rest, fresh \ {id})
  BY FitsKeep, OldestKeep, Zenon DEF Lists, Fits
<1> HIDE DEF rest
<1>3. id \in Running /\ Running' = Running /\ \A l : Waiting(l)' = Waiting(l)
  BY DEF Running, Waiting, Leased, Pending
<1>4. rest \in Seq(Ids) /\ Range(rest) = Running \ {id} /\ IsInjective(rest) /\ id \notin Range(rest)
  BY <1>2 DEF Fits
<1>5. Fits(active', Running')
  <2>1. (Running \ {id}) \cup {id} = Running
    BY <1>3
  <2>2. /\ Append(rest, id) \in Seq(Ids) /\ IsInjective(Append(rest, id))
        /\ Range(Append(rest, id)) = Range(rest) \cup {id}
    BY <1>4, AppendSet, Zenon
  <2> QED
    BY <1>1, <1>3, <1>4, <2>1, <2>2 DEF Fits
<1>6. Oldest(active', fresh')
  <2>1. Oldest(Append(rest, id), (fresh \ {id}) \cup {id})
    BY <1>2, <1>4, OldestAppend
  <2>2. (fresh \ {id}) \cup {id} = fresh \cup {id}
    OBVIOUS
  <2> QED
    BY <1>1, <2>1, <2>2, Zenon
<1> QED
  BY <1>1, <1>3, <1>5, <1>6 DEF Lists

\* A job that is leased leaves the active list, and what its lease was.
LEMMA DropLists ==
    ASSUME Lists, NEW gone, active' = Keep(active, Ids \ gone), fresh' = fresh \ gone,
           diskFresh' = diskFresh \ gone, Running' = Running \ gone
    PROVE  /\ Fits(active', Running') /\ Oldest(active', fresh')
           /\ fresh' \subseteq Running' /\ diskFresh' \subseteq Running'
<1>1. active \in Seq(Ids) /\ Fits(active, Running) /\ Oldest(active, fresh)
  BY DEF Lists, Fits
<1>2. Fits(active', Running') /\ Oldest(active', fresh')
  BY <1>1, FitsKeep, OldestKeep, Zenon
<1> QED
  BY <1>2 DEF Lists

LEMMA RemoveLists ==
    ASSUME Core, Lists, NEW id \in Ids, NEW epoch, NEW complete, RemoveJob(id, epoch, complete)
    PROVE  Lists'
<1>1. /\ jobs' = [jobs EXCEPT ![id] = NoJob] /\ Unlink(id)
      /\ fresh' = fresh \ {id} /\ diskFresh' = diskFresh \ {id}
  BY DEF RemoveJob
<1>2. jobs \in [Ids -> Job]
  BY DEF Core, CoreTypes
<1>3. jobs'[id].status = "none" /\ \A i \in Ids : i # id => jobs'[i] = jobs[i]
  BY <1>1, <1>2, NoJobFacts
<1>4. Running' = Running \ {id} /\ \A l \in Lanes : Waiting(l)' = Waiting(l) \ {id}
  BY <1>3 DEF Running, Waiting, Leased, Pending
<1>5. CASE Leased(id)
  <2>1. active' = Keep(active, Ids \ {id}) /\ pending' = pending
    BY <1>1, <1>5 DEF Unlink
  <2>2. \A l \in Lanes : Waiting(l)' = Waiting(l)
    BY <1>3, <1>5 DEF Waiting, Leased, Pending
  <2> QED
    BY <1>1, <1>4, <2>1, <2>2, DropLists, Zenon DEF Lists
<1>6. CASE ~Leased(id)
  <2> DEFINE k == LaneForJob(id)
  <2>1. active' = active /\ pending' = [pending EXCEPT ![k] = Keep(@, Ids \ {id})]
    BY <1>1, <1>6 DEF Unlink
  <2>2. k \in Lanes /\ \A l \in Lanes : l # k => Waiting(l)' = Waiting(l)
    BY <1>3 DEF LaneForJob, Lanes, Waiting, Pending
  <2>3. Running' = Running
    BY <1>3, <1>6 DEF Running, Leased
  <2>4. Fits(Keep(pending[k], Ids \ {id}), Waiting(k) \ {id})
    BY <2>2, FitsKeep, Zenon DEF Lists
  <2> HIDE DEF k
  <2>5. pending' = [l \in Lanes |-> pending'[l]] /\ \A l \in Lanes : Fits(pending'[l], Waiting(l)')
    BY <1>4, <2>1, <2>2, <2>4 DEF Lists
  <2>6. fresh' = fresh /\ diskFresh' = diskFresh
    BY <1>1, <1>6 DEF Lists, Running
  <2> QED
    BY <2>1, <2>3, <2>5, <2>6 DEF Lists
<1> QED
  BY <1>5, <1>6

LEMMA CancelLists ==
    ASSUME Core, Lists, NEW id \in Ids, NEW epoch, NEW interrupted \in BOOLEAN,
           CancelLease(id, epoch, interrupted)
    PROVE  Lists'
<1>1. /\ active' = Keep(active, Ids \ {id}) /\ fresh' = fresh \ {id} /\ diskFresh' = diskFresh \ {id}
      /\ Leased(id)
  BY DEF CancelLease
<1>2. jobs \in [Ids -> Job] /\ jobs[id] \in Job
  BY DEF Core, CoreTypes
<1>3. CASE interrupted \/ canRetry(id)
  <2> DEFINE c == ClearLease(jobs[id])
             jj == IF interrupted THEN DecrementLeaseCount(c) ELSE c
             k == LaneForJob(id)
  <2>1. jobs' = [jobs EXCEPT ![id] = jj] /\ pending' = [pending EXCEPT ![k] = <<id>> \o @]
    BY <1>3 DEF CancelLease
  <2>2. jj.status = "available"
    BY <1>2, JobOps
  <2> HIDE DEF jj
  <2>3. jobs'[id].status = "available" /\ \A i \in Ids : i # id => jobs'[i] = jobs[i]
    BY <1>2, <2>1, <2>2
  <2>4. Running' = Running \ {id}
    BY <2>3 DEF Running, Leased
  <2>5. /\ k \in Lanes /\ Waiting(k)' = {id} \cup Waiting(k) /\ id \notin Waiting(k)
        /\ \A l \in Lanes : l # k => Waiting(l)' = Waiting(l)
    BY <1>1, <2>3 DEF LaneForJob, Lanes, Waiting, Pending, Leased
  <2>6. Fits(<<id>> \o pending[k], {id} \cup Waiting(k))
    <3>1. pending[k] \in Seq(Ids) /\ Range(pending[k]) = Waiting(k) /\ IsInjective(pending[k])
      BY <2>5 DEF Lists, Fits
    <3> HIDE DEF k
    <3> QED
      BY <2>5, <3>1, PushSet DEF Fits
  <2> HIDE DEF k
  <2>7. pending' = [l \in Lanes |-> pending'[l]] /\ \A l \in Lanes : Fits(pending'[l], Waiting(l)')
    BY <2>1, <2>5, <2>6, Zenon DEF Lists
  <2> QED
    BY <1>1, <2>4, <2>7, DropLists, Zenon DEF Lists
<1>4. CASE ~(interrupted \/ canRetry(id))
  <2>1. jobs' = [jobs EXCEPT ![id] = NoJob] /\ pending' = pending
    BY <1>4 DEF CancelLease
  <2>2. jobs'[id].status = "none" /\ \A i \in Ids : i # id => jobs'[i] = jobs[i]
    BY <1>2, <2>1, NoJobFacts
  <2>3. Running' = Running \ {id} /\ \A l \in Lanes : Waiting(l)' = Waiting(l)
    BY <1>1, <2>2 DEF Running, Waiting, Leased, Pending
  <2> QED
    BY <1>1, <2>1, <2>3, DropLists, Zenon DEF Lists
<1> QED
  BY <1>3, <1>4

LEMMA OfferLists ==
    ASSUME Core, Lists, NEW offer \in Seq(Offered), NEW epoch, OfferCompactionJobs(offer, epoch),
           \A k, n \in DOMAIN offer : k # n => offer[k].id # offer[n].id
    PROVE  Lists'
<1> DEFINE accepted == {n \in DOMAIN offer : Acceptable(offer[n])}
           ids == {offer[n].id : n \in accepted}
           A == {offer[n] : n \in accepted}
           s == Keep(offer, A)
           t == [n \in 1..Len(s) |-> s[n].id]
           new == [id \in ids |-> LET n == CHOOSE k \in accepted : offer[k].id = id
                                  IN  NewTrackedJob(offer[n].blocks, n)]
<1>1. /\ jobs' = [id \in Ids |-> IF id \in ids THEN new[id]
                                 ELSE IF id = planJobId \/ Pending(id) THEN NoJob ELSE jobs[id]]
      /\ pending' = [l \in Lanes |-> IF l = "plan" THEN <<>> ELSE t]
      /\ active' = Keep(active, JobIds) /\ fresh' = fresh \ {planJobId}
      /\ diskFresh' = diskFresh \ {planJobId}
  BY DEF OfferCompactionJobs
<1>2. \A id \in ids : new[id].status = "available"
  BY DEF NewTrackedJob
<1>3. \A id \in ids : id \in JobIds /\ id \in Ids /\ id # planJobId /\ ~Leased(id)
  <2> SUFFICES ASSUME NEW id \in ids PROVE id \in JobIds /\ ~Leased(id)
    BY NoJobFacts
  <2>1. PICK n \in accepted : offer[n].id = id
    OBVIOUS
  <2>2. offer[n] \in Offered /\ ~Leased(offer[n].id)
    BY <2>1 DEF Acceptable
  <2> QED
    BY <2>1, <2>2 DEF Offered
<1>4. IsInjective(offer)
  BY DEF IsInjective
<1>5. A \subseteq Range(offer)
  BY DEF Range
<1>6. s \in Seq(Offered) /\ Range(s) = A /\ IsInjective(s)
  BY <1>4, <1>5, KeepSet
<1>7. \A x, y \in A : x # y => x.id # y.id
  OBVIOUS
<1>8. ids = {x.id : x \in A}
  OBVIOUS
<1> HIDE DEF s, ids, A, accepted, new
<1>9. Fits(t, ids)
  <2>1. DOMAIN s = 1..Len(s) /\ Len(s) \in Nat /\ \A n \in 1..Len(s) : s[n] \in A
    BY <1>6 DEF Range
  <2>2. \A n \in 1..Len(s) : t[n] = s[n].id /\ t[n] \in ids /\ t[n] \in Ids
    BY <1>3, <1>8, <2>1
  <2>3. t \in Seq(Ids) /\ DOMAIN t = 1..Len(s)
    BY <2>1, <2>2
  <2>4. Range(t) = ids
    <3>1. ASSUME NEW id \in ids PROVE \E n \in DOMAIN t : t[n] = id
      <4>1. PICK x \in A : x.id = id
        BY <1>8
      <4>2. PICK n \in DOMAIN s : s[n] = x
        BY <1>6 DEF Range
      <4> QED
        BY <2>1, <2>2, <2>3, <4>1, <4>2
    <3> QED
      BY <2>2, <2>3, <3>1 DEF Range
  <2>5. IsInjective(t)
    <3>1. ASSUME NEW m \in 1..Len(s), NEW n \in 1..Len(s), t[m] = t[n] PROVE m = n
      <4>1. s[m] = s[n]
        BY <1>7, <2>1, <2>2, <3>1
      <4> QED
        BY <1>6, <2>1, <4>1 DEF IsInjective
    <3> QED
      BY <2>3, <3>1 DEF IsInjective
  <2> QED
    BY <2>3, <2>4, <2>5 DEF Fits
<1>10. \A id \in Ids : /\ id \in ids => jobs'[id].status = "available"
                       /\ id \notin ids /\ (id = planJobId \/ Pending(id)) => jobs'[id].status = "none"
                       /\ id \notin ids /\ id # planJobId /\ ~Pending(id) => jobs'[id] = jobs[id]
  BY <1>1, <1>2, NoJobFacts
<1>11. Running' = Running \ {planJobId}
  BY <1>3, <1>10 DEF Running, Leased, Pending
<1>12. Waiting("compaction")' = ids /\ Waiting("plan")' = {}
  <2>1. \A id \in Ids : Pending(id)' <=> id \in ids
    BY <1>3, <1>10 DEF Pending
  <2> QED
    BY <1>3, <2>1 DEF Waiting, LaneForJob
<1>13. Fits(<<>>, {})
  BY DEF Fits, Range, IsInjective
<1>14. pending' = [l \in Lanes |-> pending'[l]] /\ \A l \in Lanes : Fits(pending'[l], Waiting(l)')
  BY <1>1, <1>9, <1>12, <1>13, Zenon DEF Lanes
<1>15. Ids \ {planJobId} = JobIds
  BY NoJobFacts DEF Ids
<1> QED
  BY <1>1, <1>11, <1>14, <1>15, DropLists, Zenon DEF Lists

LEMMA MaintenanceLists ==
    ASSUME Core, Lists, NEW expire \in BOOLEAN, NEW plan \in BOOLEAN, Maintenance(expire, plan)
    PROVE  Lists'
<1> DEFINE expired == IF expire THEN Expired \cap Ids ELSE {}
           revived == {id \in expired : canRetry(id)}
           added == IF plan /\ jobs[planJobId].status = "none" THEN {planJobId} ELSE {}
           new(id) == IF id \in added THEN NewTrackedJob({}, 0) ELSE ClearLease(jobs[id])
           R(l) == {id \in revived : LaneForJob(id) = l}
           front(l) == Reversed(Keep(active, R(l)))
           first(l) == IF l = "plan" /\ added # {} THEN <<planJobId>> ELSE <<>>
<1>1. /\ jobs' = [id \in Ids |-> IF id \in revived \cup added THEN new(id)
                                 ELSE IF id \in expired THEN NoJob ELSE jobs[id]]
      /\ pending' = [l \in Lanes |-> first(l) \o front(l) \o pending[l]]
      /\ active' = Keep(active, Ids \ expired)
      /\ fresh' = fresh /\ diskFresh' = diskFresh \ expired
  BY DEF Maintenance
<1>2. jobs \in [Ids -> Job]
  BY DEF Core, CoreTypes
<1>3. \A id \in expired : id \in Running /\ id \notin fresh
  <2>1. ASSUME NEW id \in Expired PROVE id \in Range(active) /\ id \notin fresh
    <3>1. PICK n \in DOMAIN active : id = active[n] /\ \A m \in 1..n : active[m] \notin fresh
      BY DEF Expired
    <3>2. n \in 1..n
      BY DEF Lists, Fits
    <3> QED
      BY <3>1, <3>2 DEF Range
  <2> QED
    BY <2>1 DEF Lists, Fits
<1>4. revived \subseteq expired
  OBVIOUS
<1>5. added \subseteq {planJobId} /\ \A id \in added : jobs[id].status = "none" /\ id \in Ids
  BY NoJobFacts
<1>6. \A id \in revived \cup added : id \in Ids => new(id).status = "available"
  BY <1>2, JobOps DEF NewTrackedJob
<1> HIDE DEF expired, revived, added, new
<1>7. \A id \in Ids : /\ id \in revived \cup added => jobs'[id].status = "available"
                      /\ id \in expired /\ id \notin revived \cup added => jobs'[id].status = "none"
                      /\ id \notin expired \cup added => jobs'[id] = jobs[id]
  BY <1>1, <1>4, <1>6, NoJobFacts
<1>8. Running' = Running \ expired
  BY <1>3, <1>4, <1>5, <1>7 DEF Running, Leased
<1>9. fresh' = fresh \ expired
  BY <1>1, <1>3
<1>10. ASSUME NEW l \in Lanes
       PROVE  Fits(first(l) \o front(l) \o pending[l], Waiting(l)')
  <2>1. Fits(front(l), R(l))
    <3>1. /\ active \in Seq(Ids) /\ Range(active) = Running /\ IsInjective(active)
          /\ R(l) \subseteq Running
      BY <1>3, <1>4 DEF Lists, Fits
    <3>2. Keep(active, R(l)) \in Seq(Ids) /\ Range(Keep(active, R(l))) = R(l) /\ IsInjective(Keep(active, R(l)))
      BY <3>1, KeepSet
    <3> QED
      BY <3>2, ReverseSet, Zenon DEF Fits
  <2>2. Fits(pending[l], Waiting(l))
    BY DEF Lists
  <2>3. PICK f : f = front(l)
    OBVIOUS
  <2>4. PICK S : S = IF l = "plan" THEN added ELSE {}
    BY Zenon
  <2>5. R(l) \subseteq Running /\ \A id \in S : id \in Ids /\ jobs[id].status = "none" /\ id = planJobId
    BY <1>3, <1>4, <1>5, <2>4
  <2>6. /\ R(l) \cap Waiting(l) = {} /\ S \cap R(l) = {} /\ S \cap Waiting(l) = {}
    BY <2>5 DEF Running, Waiting, Leased, Pending
  <2>7. Waiting(l)' = (S \cup R(l)) \cup Waiting(l)
    <3>1. ASSUME NEW id \in Ids
          PROVE  Pending(id)' <=> id \in added \/ id \in revived \/ Pending(id)
      BY <1>3, <1>4, <1>7 DEF Pending, Running, Leased
    <3>2. \A id \in added : LaneForJob(id) = "plan"
      BY <1>5 DEF LaneForJob
    <3>3. \A id \in revived \cup added : id \in Ids
      BY <1>3, <1>4, <1>5 DEF Running
    <3> QED
      BY <2>4, <3>1, <3>2, <3>3 DEF Waiting
  <2>8. f \in Seq(Ids) /\ Range(f) = R(l) /\ IsInjective(f)
    BY <2>1, <2>3 DEF Fits
  <2>9. Fits(first(l) \o f, S \cup R(l))
    <3>1. CASE l = "plan" /\ added # {}
      <4>1. first(l) = <<planJobId>> /\ S = {planJobId} /\ planJobId \in Ids
        BY <1>5, <2>4, <3>1, NoJobFacts
      <4>2. planJobId \notin Range(f)
        BY <2>6, <2>8, <4>1
      <4> QED
        BY <2>8, <4>1, <4>2, PushSet DEF Fits
    <3>2. CASE ~(l = "plan" /\ added # {})
      <4>1. first(l) = <<>> /\ S = {}
        BY <2>4, <3>2
      <4>2. <<>> \o f = f
        BY <2>8
      <4> QED
        BY <2>8, <4>1, <4>2, Zenon DEF Fits
    <3> QED
      BY <3>1, <3>2
  <2>10. PICK h : h = first(l) \o f
    BY Zenon
  <2>11. h \in Seq(Ids) /\ Range(h) = S \cup R(l) /\ IsInjective(h)
    BY <2>9, <2>10 DEF Fits
  <2>12. pending[l] \in Seq(Ids) /\ Range(pending[l]) = Waiting(l) /\ IsInjective(pending[l])
    BY <2>2 DEF Fits
  <2>13. Range(h) \cap Range(pending[l]) = {}
    BY <2>6, <2>11, <2>12
  <2>14. h \o pending[l] \in Seq(Ids) /\ Range(h \o pending[l]) = Waiting(l)' /\ IsInjective(h \o pending[l])
    BY <2>7, <2>11, <2>12, <2>13, ConcatSet
  <2> QED
    BY <2>3, <2>10, <2>14 DEF Fits
<1>11. pending' = [l \in Lanes |-> pending'[l]] /\ \A l \in Lanes : Fits(pending'[l], Waiting(l)')
  BY <1>1, <1>10, Zenon
<1> QED
  BY <1>1, <1>8, <1>9, <1>11, DropLists, Zenon DEF Lists

\* Recovered from the bucket, the lists fit again, in an order that may differ.
LEMMA RestartLists ==
    ASSUME Core, Lists, Restart
    PROVE  Lists'
<1> DEFINE waiting(l) == {id \in Ids : disk[id].status = "available" /\ LaneForJob(id) = l}
           leased == {id \in Ids : disk[id].status = "leased"}
<1>1. /\ fresh' = diskFresh /\ diskFresh' = diskFresh
      /\ active' \in Orders(leased)
      /\ \A m, n \in DOMAIN active' : m < n => (active'[m] \in diskFresh => active'[n] \in diskFresh)
  BY DEF Restart
<1>2. PICK s \in Orders(waiting("plan")), t \in Orders(waiting("compaction")) :
        pending' = [l \in Lanes |-> IF l = "plan" THEN s ELSE t]
  BY Zenon DEF Restart
<1>3. jobs' = jobs
  BY RestartCore
<1>4. ASSUME NEW id \in Ids
      PROVE  (disk[id].status = "leased" <=> Leased(id)) /\ (disk[id].status = "available" <=> Pending(id))
  <2>1. CASE id \in JobIds
    <3>1. CASE jobs[id].status # "none"
      BY <2>1, <3>1 DEF Core, DiskMatchesMemory, Leased, Pending
    <3>2. CASE jobs[id].status = "none"
      BY <2>1, <3>2, NoJobFacts DEF Core, Shape, DiskMatchesMemory, Leased, Pending
    <3> QED
      BY <3>1, <3>2
  <2>2. CASE id = planJobId
    BY <2>2 DEF Core, DiskMatchesMemory, Leased, Pending
  <2> QED
    BY <2>1, <2>2 DEF Ids
<1>5. leased = Running /\ \A l : waiting(l) = Waiting(l)
  BY <1>4 DEF Running, Waiting
<1>6. Running' = Running /\ \A l : Waiting(l)' = Waiting(l)
  BY <1>3 DEF Running, Waiting, Leased, Pending
<1>7. IsFiniteSet(Running) /\ \A l \in Lanes : IsFiniteSet(Waiting(l))
  BY ListFinite DEF Lists, Fits
<1> HIDE DEF leased, waiting
<1>8. \A S : IsFiniteSet(S) /\ S \subseteq Ids => \A x \in Orders(S) : Fits(x, S)
  <2> SUFFICES ASSUME NEW S, IsFiniteSet(S), S \subseteq Ids, NEW x \in Orders(S) PROVE Fits(x, S)
    OBVIOUS
  <2>1. x \in Seq(S) /\ Range(x) = S /\ IsInjective(x)
    BY OrdersIs
  <2>2. x \in Seq(Ids)
    BY <2>1
  <2> QED
    BY <2>1, <2>2 DEF Fits
<1>9. Running \subseteq Ids /\ \A l : Waiting(l) \subseteq Ids
  BY DEF Running, Waiting
<1>10. Fits(active', Running')
  BY <1>1, <1>5, <1>6, <1>7, <1>8, <1>9
<1>11. Fits(s, Waiting("plan")') /\ Fits(t, Waiting("compaction")')
  BY <1>5, <1>6, <1>7, <1>8, <1>9 DEF Lanes
<1>12. pending' = [l \in Lanes |-> pending'[l]] /\ \A l \in Lanes : Fits(pending'[l], Waiting(l)')
  BY <1>2, <1>11 DEF Lanes
<1> QED
  BY <1>1, <1>6, <1>10, <1>12 DEF Lists, Oldest

\* Steps that touch none of the lists.
LEMMA SameLists ==
    ASSUME Lists, UNCHANGED <<jobs, pending, active, fresh, diskFresh>>
    PROVE  Lists'
  BY DEF Lists, Running, Waiting, Leased, Pending

LEMMA ListsStep == IInv /\ Lists /\ [Next]_vars => Lists'
<1> SUFFICES ASSUME IInv, Lists, [Next]_vars PROVE Lists'
  OBVIOUS
<1>0. Core
  BY DEF IInv
<1>1. ASSUME NEW w \in Workers, NEW l \in Lanes, Lease(w, l) PROVE Lists'
  BY <1>0, <1>1, LeaseLists
<1>2. ASSUME NEW w \in Workers, Heartbeat(w) PROVE Lists'
  <2>1. UNCHANGED <<jobs, pending, diskFresh>> /\ task[w] # Idle
    BY <1>2 DEF Heartbeat
  <2>2. task[w].id \in Ids
    BY <2>1 DEF IInv, TasksOK, TaskOK, KeyOK
  <2>3. \/ Leased(task[w].id) /\ RenewLease(task[w].id)
        \/ UNCHANGED <<fresh, active>>
    BY <1>2 DEF Heartbeat
  <2> QED
    BY <2>1, <2>2, <2>3, RenewLists, SameLists
<1>3. ASSUME NEW w \in Workers,
             \/ Compact(w) \/ CompactMitigated(w) \/ CompactFails(w) \/ CompactAbandons(w)
             \/ Plan(w) \/ PlanFails(w)
      PROVE  Lists'
  <2>1. UNCHANGED <<jobs, pending, active, fresh, diskFresh>>
    BY <1>3 DEF Compact, CompactMitigated, CompactFails, CompactAbandons, Plan, PlanFails, Send, memory
  <2> QED
    BY <2>1, SameLists
<1>4. ASSUME NEW m \in net, Receive(m) PROVE Lists'
  <2>1. MessageOK(m) /\ m.id \in Ids
    BY DEF IInv, NetOK, MessageOK, KeyOK
  <2>2. ASSUME m.type \in {"COMPLETE", "ABANDON"}, RemoveJob(m.id, m.epoch, m.type = "COMPLETE") PROVE Lists'
    BY <1>0, <2>1, <2>2, RemoveLists
  <2>3. ASSUME CancelLease(m.id, m.epoch, m.type = "INTERRUPTED_REASSIGN") PROVE Lists'
    <3>1. PICK interrupted \in BOOLEAN : interrupted <=> m.type = "INTERRUPTED_REASSIGN"
      BY Zenon
    <3>2. CancelLease(m.id, m.epoch, interrupted)
      BY <2>3, <3>1
    <3> QED
      BY <1>0, <2>1, <3>2, CancelLists
  <2>4. ASSUME m.type = "PLANNED", OfferCompactionJobs(m.jobs, m.epoch) PROVE Lists'
    BY <1>0, <2>1, <2>4, OfferLists DEF MessageOK
  <2>5. CASE ~Handle(m)
    <3>1. UNCHANGED <<jobs, pending, active, fresh, diskFresh>>
      BY <1>4, <2>5 DEF Receive, memory
    <3> QED
      BY <3>1, SameLists
  <2> QED
    BY <2>2, <2>3, <2>4, <2>5 DEF Handle
<1>5. ASSUME NEW expire \in BOOLEAN, NEW plan \in BOOLEAN, Maintenance(expire, plan) PROVE Lists'
  BY <1>0, <1>5, MaintenanceLists
<1>6. CASE Restart
  BY <1>0, <1>6, RestartLists
<1>7. CASE Tick
  <2>1. UNCHANGED <<jobs, pending, active>> /\ fresh' = {} /\ diskFresh' = {}
    BY <1>7 DEF Tick
  <2> QED
    BY <2>1 DEF Lists, Oldest, Running, Waiting, Leased, Pending
<1>8. CASE Lose
  <2>1. UNCHANGED <<jobs, pending, active, fresh, diskFresh>>
    BY <1>8 DEF Lose, memory
  <2> QED
    BY <2>1, SameLists
<1>9. CASE UNCHANGED vars
  <2>1. UNCHANGED <<jobs, pending, active, fresh, diskFresh>>
    BY <1>9 DEF vars, memory
  <2> QED
    BY <2>1, SameLists
<1> QED
  BY <1>1, <1>2, <1>3, <1>4, <1>5, <1>6, <1>7, <1>8, <1>9 DEF Next

LEMMA NextStep == IInv /\ Lists /\ [Next]_vars => IInv' /\ ClaimStep
<1> SUFFICES ASSUME IInv, ListsMatchJobs, [Next]_vars PROVE IInv' /\ ClaimStep
  BY ListsMean
<1>1. ASSUME NEW w \in Workers, NEW l \in Lanes, Lease(w, l) PROVE IInv' /\ ClaimStep
  BY <1>1, LeaseStep
<1>2. ASSUME NEW w \in Workers, Heartbeat(w) PROVE IInv' /\ ClaimStep
  <2>1. SameCore /\ net' = net /\ marked' = marked
    BY <1>2 DEF Heartbeat, SameCore
  <2>2. task' = task \/ task' = [task EXCEPT ![w] = Idle]
    BY <1>2 DEF Heartbeat
  <2>3. /\ task' = [v \in Workers |-> task'[v]]
        /\ \A v \in Workers : task'[v] = task[v] \/ task'[v] = Idle
    BY <2>2 DEF IInv
  <2> QED
    BY <2>1, <2>3, WorkerStep DEF IInv
<1>3. ASSUME NEW w \in Workers,
             \/ Compact(w) \/ CompactMitigated(w) \/ CompactFails(w) \/ CompactAbandons(w)
             \/ Plan(w) \/ PlanFails(w)
      PROVE  IInv' /\ ClaimStep
  BY <1>3, WorkersStep
<1>4. ASSUME NEW m \in net, Receive(m) PROVE IInv' /\ ClaimStep
  BY <1>4, ReceiveStep
<1>5. ASSUME NEW expire \in BOOLEAN, NEW plan \in BOOLEAN, Maintenance(expire, plan) PROVE IInv' /\ ClaimStep
  <2>1. SchedulerStep
    BY <1>5, MaintenanceStep DEF IInv
  <2>2. task' = task /\ net' = net /\ marked' = marked /\ acked' = acked
    BY <1>5 DEF Maintenance
  <2>3. NetOK'
    BY <2>1, <2>2, StepMessage DEF IInv, NetOK
  <2>4. TasksOK'
    BY <2>1, <2>2, StepTasks DEF IInv, TasksOK
  <2> QED
    BY <2>1, <2>2, <2>3, <2>4 DEF IInv, SchedulerStep
<1>6. CASE Restart
  <2>1. SameCore /\ task' = task /\ net' = net /\ marked' = marked
    BY <1>6, RestartCore, Zenon DEF IInv, Restart, SameCore
  <2> QED
    BY <2>1, WorkerStep DEF IInv
<1>7. CASE Tick
  <2>1. SameCore /\ task' = task /\ net' = net /\ marked' = marked
    BY <1>7 DEF Tick, SameCore
  <2> QED
    BY <2>1, WorkerStep DEF IInv
<1>8. CASE Lose
  <2>1. SameCore /\ marked' = marked /\ net' \subseteq net
    BY <1>8 DEF Lose, SameCore, memory
  <2>2. task' = task \/ \E w \in Workers : task' = [task EXCEPT ![w] = Idle]
    BY <1>8 DEF Lose
  <2>3. /\ task' = [v \in Workers |-> task'[v]]
        /\ \A v \in Workers : task'[v] = task[v] \/ task'[v] = Idle
    BY <2>2 DEF IInv
  <2> QED
    BY <2>1, <2>3, WorkerStep DEF IInv
<1>9. CASE UNCHANGED vars
  <2>1. SameCore /\ task' = task /\ net' = net /\ marked' = marked
    BY <1>9 DEF vars, memory, SameCore
  <2> QED
    BY <2>1, WorkerStep DEF IInv
<1> QED
  BY <1>1, <1>2, <1>3, <1>4, <1>5, <1>6, <1>7, <1>8, <1>9 DEF Next

LEMMA InitStep == Init => IInv /\ Lists
<1> SUFFICES ASSUME Init PROVE IInv /\ Lists
  OBVIOUS
<1>1. /\ \A id \in Ids : jobs[id] = NoJob /\ disk[id] = NoJob
      /\ \A id \in JobIds : retained[id] = NoJob
      /\ jobs \in [Ids -> Job] /\ disk \in [Ids -> Job] /\ retained \in [JobIds -> Job]
  BY NoJobFacts DEF Init, NothingRetained
<1>2. CoreTypes /\ Shape
  BY <1>1, NoJobFacts, Zenon DEF Init, CoreTypes, Shape, Leased
<1>3. DiskMatchesMemory /\ NoRecompaction /\ JobsShareNoBlock
  BY <1>1, NoJobFacts DEF Init, DiskMatchesMemory, NoRecompaction, JobsShareNoBlock
<1>4. Lists
  <2>1. Fits(<<>>, {})
    BY DEF Fits, Range, IsInjective
  <2>2. Running = {} /\ \A l : Waiting(l) = {}
    BY <1>1, NoJobFacts DEF Running, Waiting, Leased, Pending
  <2> QED
    BY <2>1, <2>2, Zenon DEF Init, Lists, Oldest
<1> QED
  BY <1>2, <1>3, <1>4 DEF Init, IInv, Core, TasksOK, NetOK

----------------------------------------------------------------------------
(* Theorems *)

\* The lists agree with the map of incomplete jobs, so that the job that Lease
\* takes from the front is one that waits, and none is lost or leased twice
\* (Unlink, Maintenance, OfferCompactionJobs, recoverFrom).
THEOREM TrackerListsMatchJobs == Spec => []ListsMatchJobs
  BY InitStep, NextStep, ListsStep, ListsMean, PTL DEF Spec

\* The active list is in the order the leases run out, so that Maintenance may
\* stop at the first that has not: renewals move a job to the end, and a restart
\* sorts by what was written.
THEOREM TrackerOldestLeaseFirst == Spec => []OldestLeaseFirst
  BY InitStep, NextStep, ListsStep, ListsMean, PTL DEF Spec

\* A block that was marked in storage when the completion of its job was
\* acknowledged is never part of a job again: stale plans, late completions,
\* expired leases and restarts included (OfferCompactionJobs, Remove).
THEOREM TrackerNoRecompaction == Spec => []NoRecompaction
<1>1. IInv => NoRecompaction
  BY DEF IInv, Core
<1> QED
  BY <1>1, InitStep, NextStep, ListsStep, PTL DEF Spec

\* And no two jobs of the tracker share a block.
THEOREM TrackerJobsShareNoBlock == Spec => []JobsShareNoBlock
<1>1. IInv => JobsShareNoBlock
  BY DEF IInv, Core
<1> QED
  BY <1>1, InitStep, NextStep, ListsStep, PTL DEF Spec

\* A key names one job for ever: the random epoch of a new job, and the count
\* each lease adds to it, keep a late or repeated status from ending another
\* job of the same ID (NewTrackedJob, MarkLeased, Remove, CancelLease).
THEOREM TrackerKeyNamesItsJob == Spec => []KeyNamesItsJob
<1>1. IInv => KeyNamesItsJob
  BY DEF IInv, TasksOK, TaskOK, NetOK, MessageOK, KeyNamesItsJob
<1> QED
  BY <1>1, InitStep, NextStep, ListsStep, PTL DEF Spec

\* And the bucket holds what the memory holds after every operation, so a
\* restart (recoverFrom) finds it all.
THEOREM TrackerDiskMatchesMemory == Spec => []DiskMatchesMemory
<1>1. IInv => DiskMatchesMemory
  BY DEF IInv, Core
<1> QED
  BY <1>1, InitStep, NextStep, ListsStep, PTL DEF Spec
----------------------------------------------------------------------------
(* The refinement *)

claims == [id \in JobIds |-> IF disk[id].status = "leased" THEN disk[id].blocks ELSE {}]
ClaimsAreHeld == claims = [id \in JobIds |-> Held(id)]

LEMMA CoreClaims == Core => ClaimsAreHeld
<1> SUFFICES ASSUME Core PROVE ClaimsAreHeld
  OBVIOUS
<1>1. ASSUME NEW id \in JobIds
      PROVE  (IF disk[id].status = "leased" THEN disk[id].blocks ELSE {}) = Held(id)
  <2>1. CASE jobs[id].status # "none"
    BY <2>1 DEF Core, DiskMatchesMemory, Held, Leased
  <2>2. CASE jobs[id].status = "none"
    BY <2>2, NoJobFacts DEF Core, Shape, DiskMatchesMemory, Held, Leased
  <2> QED
    BY <2>1, <2>2
<1> QED
  BY <1>1 DEF claims, ClaimsAreHeld

LEMMA ClaimsInit == Init => Claims!Init
<1> SUFFICES ASSUME Init PROVE Claims!Init
  OBVIOUS
<1>1. \A id \in JobIds : disk[id].status # "leased"
  BY NoJobFacts DEF Init
<1> QED
  BY <1>1 DEF Init, Claims!Init

LEMMA ClaimsNext == ClaimsAreHeld /\ ClaimsAreHeld' /\ ClaimStep => [Claims!Next]_(Claims!cvars)
<1> SUFFICES ASSUME ClaimsAreHeld, ClaimsAreHeld', ClaimStep PROVE [Claims!Next]_(Claims!cvars)
  OBVIOUS
<1>1. /\ claims = [id \in JobIds |-> claims[id]] /\ claims' = [id \in JobIds |-> claims'[id]]
      /\ \A id \in JobIds : claims[id] = Held(id) /\ claims'[id] = Held(id)'
  BY DEF ClaimsAreHeld
<1>2. ASSUME NEW id \in JobIds, acked' = acked, Held(id) = {}, Held(id)' \subseteq Blocks \ acked,
             \A k \in JobIds : k # id => Held(k)' = Held(k) /\ Held(k) \cap Held(id)' = {}
      PROVE  Claims!Claim(id)
  <2>1. claims[id] = {} /\ claims' = [claims EXCEPT ![id] = Held(id)']
    BY <1>1, <1>2
  <2>2. Held(id)' \in SUBSET (Blocks \ (acked \cup UNION {claims[k] : k \in JobIds}))
    BY <1>1, <1>2
  <2> QED
    BY <1>2, <2>1, <2>2, Zenon DEF Claims!Claim, Claims!Free, claims
<1>3. ASSUME acked' = acked, \A id \in JobIds : Held(id)' = Held(id) \/ Held(id)' = {}
      PROVE  \E ids \in SUBSET JobIds : Claims!Release(ids)
  <2> DEFINE ids == {id \in JobIds : claims'[id] = {}}
  <2>1. claims' = [id \in JobIds |-> IF id \in ids THEN {} ELSE claims[id]]
    BY <1>1, <1>3
  <2> QED
    BY <1>3, <2>1, Zenon DEF Claims!Release, claims
<1>4. ASSUME NEW id \in JobIds, NEW bs \in SUBSET Held(id), acked' = acked \cup bs, Held(id)' = {},
             \A k \in JobIds : k # id => Held(k)' = Held(k)
      PROVE  Claims!Finish(id)
  <2>1. bs \in SUBSET claims[id] /\ claims' = [claims EXCEPT ![id] = {}]
    BY <1>1, <1>4
  <2> QED
    BY <1>4, <2>1 DEF Claims!Finish, claims
<1>5. ASSUME NEW bs \in SUBSET (Blocks \ acked), acked' = acked \cup bs,
             \A id \in JobIds : Held(id)' = Held(id), \A id \in JobIds : bs \cap Held(id) = {}
      PROVE  Claims!FinishLate
  <2>1. claims' = claims
    BY <1>1, <1>5
  <2>2. bs \in SUBSET (Blocks \ (acked \cup UNION {claims[k] : k \in JobIds}))
    BY <1>1, <1>5
  <2> QED
    BY <1>5, <2>1, <2>2 DEF Claims!FinishLate, Claims!Free, claims
<1>6. \/ \E id \in JobIds : Claims!Claim(id) \/ Claims!Finish(id)
      \/ \E ids \in SUBSET JobIds : Claims!Release(ids)
      \/ Claims!FinishLate
  BY <1>2, <1>3, <1>4, <1>5 DEF ClaimStep
<1> QED
  BY <1>6 DEF Claims!Next

\* The tracker and its workers implement CompactionClaims, the claims being
\* the leases in the bucket: leased jobs never share a block with each other
\* or with what was acknowledged, whoever crashes.
THEOREM TrackerImplementsClaims == Spec => ImplementsClaims
<1>1. IInv => ClaimsAreHeld
  BY CoreClaims DEF IInv
<1> QED
  BY <1>1, InitStep, NextStep, ListsStep, ClaimsInit, ClaimsNext, PTL DEF Spec, ImplementsClaims, Claims!Spec
===============================================================================
