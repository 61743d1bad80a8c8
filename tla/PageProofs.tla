----------------------------- MODULE PageProofs -----------------------------
(***************************************************************************)
(* However many charts, submissions and reloads there are: as long as one  *)
(* refresh ends before the next starts, the list is of the identity that   *)
(* the tab and the server agree on, and keeps the rows of charts that are  *)
(* still there.                                                            *)
(***************************************************************************)
EXTENDS MCChartsPage, FiniteSetTheorems, TLAPS

(* What a refresh has read so far.                                         *)
Read(r) == Names \ r.todo

RefreshesOK ==
  /\ refreshes \subseteq Refresh /\ IsFiniteSet(refreshes)
  /\ Cardinality(refreshes) <= MaxRefreshes
  /\ \A r \in refreshes : \A n \in Read(r) : r.got[n] \in Row \cup {NoRow}

UsedOK == used \in [{"submit", "load", "removal", "fault"} -> Nat]

PageTypes ==
  /\ TypeOK /\ RefreshesOK /\ UsedOK
  /\ me = "yes" => cookie
  /\ me # "done" => ~user

-----------------------------------------------------------------------------
(* Rows, refreshes and charts.                                             *)

LEMMA RowsAreRows ==
  ASSUME TypeOK, NEW n \in Names
  PROVE /\ Hydrated(n) \in Row /\ Fallback \in Row /\ Listed(n) \in Row \cup {NoRow}
        /\ Chart(n) # Absent => Listed(n) # NoRow
        /\ Hydrated(n).owner = IF Chart(n) = Absent THEN "anon" ELSE requestOwner
        /\ Listed(n) # NoRow => Chart(n) # Absent /\ Listed(n).owner = requestOwner
        /\ Fallback.owner = "anon"
<1>1. requestOwner \in Owners
  BY DEF TypeOK, requestOwner, Owners
<1>2. Chart(n) \in Life!View \cup {Absent}
  BY <1>1 DEF TypeOK, Chart
<1>3. Chart(n) # Absent => Shown(n) \in Row
  BY <1>1, <1>2 DEF Shown, Row, Life!View
<1>4. Remembered("Expired") \in Row /\ Remembered("Pending") \in Row
  BY DEF Remembered, Row, Life!Phases, Owners
<1>5. Shown(n).owner = requestOwner /\ Remembered("Expired").owner = "anon"
        /\ Remembered("Pending").owner = "anon"
  BY DEF Shown, Remembered
<1> QED
  BY <1>3, <1>4, <1>5, NoRowIsNotARow DEF Hydrated, Fallback, Listed

LEMMA NewRefreshOK ==
  ASSUME remembered \subseteq Names, NEW authed \in BOOLEAN
  PROVE LET r == NewRefresh(authed)
        IN /\ r \in Refresh /\ r.local = ~authed
           /\ r.todo = IF authed THEN Names ELSE remembered
           /\ \A n \in Read(r) : r.got[n] = NoRow /\ ~authed /\ n \notin remembered
BY DEF NewRefresh, Refresh, Read

(* A refresh starts, goes on or ends.                                      *)
LEMMA RefreshStarts ==
  ASSUME RefreshesOK, remembered \subseteq Names, NEW authed \in BOOLEAN, refreshCharts(authed)
  PROVE RefreshesOK'
<1> DEFINE r == NewRefresh(authed)
<1>1. r \in Refresh /\ \A n \in Read(r) : r.got[n] = NoRow
  BY NewRefreshOK
<1>2. refreshes' = refreshes \cup {r} /\ Cardinality(refreshes) < MaxRefreshes
  BY DEF refreshCharts
<1> HIDE DEF r
<1>3. IsFiniteSet(refreshes \cup {r}) /\
      Cardinality(refreshes \cup {r}) \in {Cardinality(refreshes), Cardinality(refreshes) + 1}
  BY FS_AddElement DEF RefreshesOK
<1>4. Cardinality(refreshes) \in Nat /\ MaxRefreshes \in Nat
  BY FS_CardinalityType, BoundsAssumption DEF RefreshesOK
<1>5. Cardinality(refreshes') <= MaxRefreshes
  BY <1>2, <1>3, <1>4
<1>6. \A r2 \in refreshes' : \A n \in Read(r2) : r2.got[n] \in Row \cup {NoRow}
  BY <1>1, <1>2 DEF RefreshesOK
<1> QED
  BY <1>1, <1>2, <1>3, <1>5, <1>6 DEF RefreshesOK, Read

LEMMA RefreshEnds ==
  ASSUME RefreshesOK, NEW r \in refreshes, refreshes' = refreshes \ {r}
  PROVE RefreshesOK'
<1>1. IsFiniteSet(refreshes \ {r}) /\ Cardinality(refreshes \ {r}) = Cardinality(refreshes) - 1
  BY FS_RemoveElement DEF RefreshesOK
<1>2. Cardinality(refreshes) \in Nat /\ MaxRefreshes \in Nat
  BY FS_CardinalityType, BoundsAssumption DEF RefreshesOK
<1> QED
  BY <1>1, <1>2 DEF RefreshesOK, Read

LEMMA RefreshReads ==
  ASSUME RefreshesOK, NEW r \in refreshes, NEW s \in Refresh,
         refreshes' = (refreshes \ {r}) \cup {s},
         \A n \in Read(s) : s.got[n] \in Row \cup {NoRow}
  PROVE RefreshesOK'
<1>1. IsFiniteSet(refreshes \ {r}) /\ Cardinality(refreshes \ {r}) = Cardinality(refreshes) - 1
  BY FS_RemoveElement DEF RefreshesOK
<1>2. IsFiniteSet(refreshes') /\
      Cardinality(refreshes') \in {Cardinality(refreshes \ {r}), Cardinality(refreshes \ {r}) + 1}
  BY <1>1, FS_AddElement
<1>3. Cardinality(refreshes) \in Nat /\ MaxRefreshes \in Nat
  BY FS_CardinalityType, BoundsAssumption DEF RefreshesOK
<1>4. Cardinality(refreshes') <= MaxRefreshes
  BY <1>1, <1>2, <1>3 DEF RefreshesOK
<1> QED
  BY <1>2, <1>4 DEF RefreshesOK, Read

(* A chart that exists goes on existing, whatever happens to it but that   *)
(* it vanishes.                                                            *)
Grows == \A c \in Owners \X Names : view[c] # Absent => view'[c] # Absent

Lives(c) == Life!Accept(c) \/ Life!Begin(c) \/ Life!Finish(c) \/ Life!Fail(c) \/ Life!Withdraw(c)

LEMMA ChartLives ==
  ASSUME NEW c \in Owners \X Names, Lives(c) \/ Life!Vanish(c),
         view \in [Owners \X Names -> Life!View \cup {Absent}]
  PROVE /\ view' \in [Owners \X Names -> Life!View \cup {Absent}]
        /\ Lives(c) => Grows
        /\ Life!Accept(c) => view'[c] # Absent
<1> DEFINE C == Owners \X Names
           Into(x) == view' = [view EXCEPT ![c] = x]
<1>1. ASSUME NEW x \in Life!View, view' = [view EXCEPT ![c] = x]
      PROVE /\ view' \in [C -> Life!View \cup {Absent}]
            /\ view'[c] # Absent /\ \A d \in C : view[d] # Absent => view'[d] # Absent
  <2>1. x # Absent
    BY AbsentIsNotAView
  <2> HIDE DEF C
  <2> QED
    BY <1>1, <2>1 DEF C
<1>2. CASE Life!Vanish(c)
  <2>1. view' = [view EXCEPT ![c] = Absent] /\ view[c] # Absent
    BY <1>2 DEF Life!Vanish
  <2>2. view' \in [C -> Life!View \cup {Absent}]
    BY <2>1
  <2>3. ~Lives(c)
    <3>1. view'[c] = Absent
      BY <2>1
    <3>2. ASSUME NEW x \in Life!View PROVE view' # [view EXCEPT ![c] = x]
      BY <3>1, AbsentIsNotAView
    <3>3. view[c] \in Life!View
      BY <2>1
    <3>4. Life!Accept(c) => \E x \in Life!View : view' = [view EXCEPT ![c] = x]
      BY <2>1, <3>3 DEF Life!Accept, Life!View, Life!Phases
    <3>5. Life!Begin(c) => \E x \in Life!View : view' = [view EXCEPT ![c] = x]
      BY <3>3 DEF Life!Begin, Life!View, Life!Phases
    <3>6. Life!Finish(c) => \E x \in Life!View : view' = [view EXCEPT ![c] = x]
      BY DEF Life!Finish, Life!View, Life!Phases
    <3>7. Life!Fail(c) => \E x \in Life!View : view' = [view EXCEPT ![c] = x]
      BY <3>3 DEF Life!Fail, Life!View, Life!Phases
    <3>8. Life!Withdraw(c) => \E x \in Life!View : view' = [view EXCEPT ![c] = x]
      BY <3>3 DEF Life!Withdraw, Life!View, Life!Phases
    <3> QED
      BY <3>2, <3>4, <3>5, <3>6, <3>7, <3>8 DEF Lives
  <2> QED
    BY <2>2, <2>3 DEF Lives
<1>3. CASE Lives(c)
  <2>1. view[c] \in Life!View \cup {Absent}
    OBVIOUS
  <2>2. \E x \in Life!View : view' = [view EXCEPT ![c] = x]
    <3>1. CASE Life!Accept(c)
      <4>1. CASE view[c] = Absent
        <5>1. [phase |-> "Pending", link |-> FALSE] \in Life!View
          BY DEF Life!View, Life!Phases
        <5> QED
          BY <3>1, <4>1, <5>1 DEF Life!Accept
      <4>2. CASE view[c] # Absent
        BY <2>1, <3>1, <4>2 DEF Life!Accept, Life!View
      <4> QED
        BY <4>1, <4>2
    <3>2. CASE Life!Begin(c)
      BY <2>1, <3>2 DEF Life!Begin, Life!View, Life!Phases
    <3>3. CASE Life!Finish(c)
      BY <3>3 DEF Life!Finish, Life!View, Life!Phases
    <3>4. CASE Life!Fail(c)
      BY <2>1, <3>4 DEF Life!Fail, Life!Building, Life!View, Life!Phases
    <3>5. CASE Life!Withdraw(c)
      BY <2>1, <3>5 DEF Life!Withdraw, Life!View
    <3> QED
      BY <1>3, <3>1, <3>2, <3>3, <3>4, <3>5 DEF Lives
  <2> QED
    BY <1>1, <2>2 DEF Grows
<1> QED
  BY <1>2, <1>3

-----------------------------------------------------------------------------
(* Types.                                                                  *)

(* What Use leaves in used.                                                *)
LEMMA UseCounts ==
  ASSUME UsedOK, NEW what \in {"submit", "load", "removal", "fault"}, NEW limit, Use(what, limit)
  PROVE UsedOK' /\ used'["removal"] >= used["removal"] /\ used["removal"] \in Nat
        /\ (what = "removal" => used'["removal"] > 0)
BY DEF UsedOK, Use

LEMMA PageTypesInit == Init => PageTypes
<1> SUFFICES ASSUME Init PROVE PageTypes
  OBVIOUS
<1> DEFINE r == NewRefresh(FALSE)
<1>1. remembered = {} /\ refreshes = {r}
  BY DEF Init
<1>2. r \in Refresh /\ \A n \in Read(r) : r.got[n] = NoRow
  BY <1>1, NewRefreshOK
<1> HIDE DEF r
<1>3. IsFiniteSet({r}) /\ Cardinality({r}) = 1
  BY FS_Singleton
<1>4. RefreshesOK
  BY <1>1, <1>2, <1>3, BoundsAssumption DEF RefreshesOK
<1>5. TypeOK
  BY <1>1, <1>4 DEF Init, Life!Init, TypeOK, RefreshesOK
<1> QED
  BY <1>4, <1>5 DEF Init, PageTypes, UsedOK

(* What an action that keeps the rest has to keep for itself.              *)
Identity == cookie \in BOOLEAN /\ user \in BOOLEAN /\ me \in {"asked", "yes", "no", "done"}
            /\ (user => cookie) /\ (me = "yes" => cookie) /\ (me # "done" => ~user)
Listing == rows \in [Names -> Row \cup {NoRow}] /\ listError \in BOOLEAN /\ remembered \subseteq Names
Calls == submits \subseteq Submission
Charts == view \in [Owners \X Names -> Life!View \cup {Absent}]

LEMMA PageTypesParts ==
  PageTypes <=> Identity /\ Listing /\ Calls /\ Charts /\ RefreshesOK /\ UsedOK
BY DEF PageTypes, TypeOK, Identity, Listing, Calls, Charts, RefreshesOK

LEMMA PageTypesPartsNext ==
  Identity' /\ Listing' /\ Calls' /\ Charts' /\ RefreshesOK' /\ UsedOK' => PageTypes'
BY DEF PageTypes, TypeOK, Identity, Listing, Calls, Charts, RefreshesOK

(* Steps that leave the server's charts and the submissions alone.         *)
LEMMA PageTypesTab ==
  ASSUME PageTypes, Load \/ MeRead \/ MeAnswered \/ SignOut \/ Poll \/ goCharts
  PROVE PageTypes'
<1> USE PageTypesParts, PageTypesPartsNext
<1>1. CASE Load
  <2> DEFINE r == NewRefresh(FALSE)
  <2>1. r \in Refresh /\ \A n \in Read(r) : r.got[n] = NoRow
    BY NewRefreshOK DEF Listing
  <2>2. refreshes' = {r}
    BY <1>1 DEF Load, Loaded
  <2> HIDE DEF r
  <2>3. RefreshesOK'
    <3>1. IsFiniteSet({r}) /\ Cardinality({r}) = 1
      BY FS_Singleton
    <3> QED
      BY <2>1, <2>2, <3>1, BoundsAssumption DEF RefreshesOK, Read
  <2>4. UsedOK'
    BY <1>1, UseCounts DEF Load
  <2> QED
    BY <1>1, <2>3, <2>4 DEF Load, Loaded, Identity, Listing, Calls, Charts
<1>2. CASE MeRead
  <2>1. UsedOK'
    <3>1. CASE UNCHANGED used
      BY <3>1 DEF UsedOK
    <3>2. CASE Use("fault", MaxFaults)
      BY <3>2, UseCounts
    <3> QED
      BY <1>2, <3>1, <3>2 DEF MeRead
  <2> QED
    BY <1>2, <2>1 DEF MeRead, list, Identity, Listing, Calls, Charts, RefreshesOK, Read
<1>3. CASE MeAnswered
  <2>1. Identity' /\ user' \in BOOLEAN
    BY <1>3 DEF MeAnswered, Identity
  <2>2. RefreshesOK'
    <3>1. CASE UNCHANGED refreshes
      BY <3>1 DEF RefreshesOK, Read
    <3>2. CASE refreshCharts(user')
      BY <2>1, <3>2, RefreshStarts DEF Listing
    <3> QED
      BY <1>3, <3>1, <3>2 DEF MeAnswered
  <2> QED
    BY <1>3, <2>1, <2>2 DEF MeAnswered, list, Listing, Calls, Charts, UsedOK
<1>4. CASE SignOut
  <2>1. Identity'
    BY <1>4 DEF SignOut, Identity
  <2>2. RefreshesOK'
    BY <1>4, RefreshStarts DEF SignOut, Listing
  <2>3. UsedOK'
    <3>1. CASE UNCHANGED used
      BY <3>1 DEF UsedOK
    <3>2. CASE Use("fault", MaxFaults)
      BY <3>2, UseCounts
    <3> QED
      BY <1>4, <3>1, <3>2 DEF SignOut
  <2> QED
    BY <1>4, <2>1, <2>2, <2>3 DEF SignOut, list, Listing, Calls, Charts
<1>5. CASE Poll \/ goCharts
  <2>1. RefreshesOK'
    BY <1>5, RefreshStarts DEF Poll, goCharts, Listing, Identity
  <2> QED
    BY <1>5, <2>1 DEF Poll, goCharts, session, list, Identity, Listing, Calls, Charts, UsedOK
<1> QED
  BY <1>1, <1>2, <1>3, <1>4, <1>5

LEMMA RowRead ==
  ASSUME PageTypes, NEW r \in refreshes
  PROVE /\ ReadList(r) => \E s \in Refresh :
              /\ refreshes' = (refreshes \ {r}) \cup {s} /\ s.local = r.local /\ s.todo = {}
              /\ \A n \in Names : s.got[n] = Listed(n)
        /\ \A n \in Names : ReadOne(r, n) => \E s \in Refresh, row \in {Hydrated(n), Fallback} :
              /\ refreshes' = (refreshes \ {r}) \cup {s} /\ s.local = r.local
              /\ s.todo = r.todo \ {n} /\ s.got[n] = row
              /\ \A m \in Names : m # n => s.got[m] = r.got[m]
<1>1. TypeOK /\ r \in Refresh
  BY DEF PageTypes, RefreshesOK
<1>2. CASE ReadList(r)
  <2> DEFINE got == [n \in Names |-> Listed(n)]
             s == [r EXCEPT !.todo = {}, !.got = got]
  <2>1. got \in [Names -> Row \cup {NoRow, Unread}]
    BY <1>1, RowsAreRows
  <2> HIDE DEF got
  <2>2. s \in Refresh /\ s.local = r.local /\ s.todo = {} /\ s.got = got
    BY <1>1, <2>1 DEF Refresh
  <2>3. refreshes' = (refreshes \ {r}) \cup {s}
    BY <1>2 DEF ReadList, got
  <2>4. \A n \in Names : got[n] = Listed(n)
    BY DEF got
  <2> HIDE DEF s
  <2> QED
    BY <1>2, <2>2, <2>3, <2>4 DEF ReadList, ReadOne
<1>3. ASSUME NEW n \in Names, ReadOne(r, n)
      PROVE \E s \in Refresh, row \in {Hydrated(n), Fallback} :
              /\ refreshes' = (refreshes \ {r}) \cup {s} /\ s.local = r.local
              /\ s.todo = r.todo \ {n} /\ s.got[n] = row
              /\ \A m \in Names : m # n => s.got[m] = r.got[m]
  <2>1. PICK row \in {Hydrated(n), Fallback} :
          refreshes' = (refreshes \ {r}) \cup {[r EXCEPT !.todo = @ \ {n}, !.got[n] = row]}
    BY <1>3 DEF ReadOne
  <2> DEFINE s == [r EXCEPT !.todo = @ \ {n}, !.got[n] = row]
  <2>2. row \in Row
    BY <1>1, RowsAreRows
  <2>3. /\ s \in Refresh /\ s.local = r.local /\ s.todo = r.todo \ {n} /\ s.got[n] = row
        /\ \A m \in Names : m # n => s.got[m] = r.got[m]
    BY <1>1, <2>2 DEF Refresh
  <2> HIDE DEF s
  <2> QED
    BY <2>1, <2>3 DEF s
<1>4. ReadList(r) => \E s \in Refresh :
              /\ refreshes' = (refreshes \ {r}) \cup {s} /\ s.local = r.local /\ s.todo = {}
              /\ \A n \in Names : s.got[n] = Listed(n)
  BY <1>2
<1> QED
  BY <1>3, <1>4

LEMMA PageTypesReading == PageTypes /\ Reading => PageTypes'
<1> SUFFICES ASSUME PageTypes, Reading PROVE PageTypes'
  OBVIOUS
<1> USE PageTypesParts, PageTypesPartsNext
<1>1. PICK r \in refreshes : ReadList(r) \/ \E n \in Names : ReadOne(r, n)
  BY DEF Reading
<1>2. TypeOK /\ r \in Refresh
  BY DEF PageTypes, RefreshesOK
<1>3. CASE ReadList(r)
  <2>1. PICK s \in Refresh : /\ refreshes' = (refreshes \ {r}) \cup {s}
                             /\ \A n \in Names : s.got[n] = Listed(n)
    BY <1>3, RowRead
  <2>2. \A n \in Read(s) : s.got[n] \in Row \cup {NoRow}
    BY <1>2, <2>1, RowsAreRows DEF Read
  <2>3. RefreshesOK'
    BY <2>1, <2>2, RefreshReads
  <2> QED
    BY <1>3, <2>3 DEF ReadList, session, list, Identity, Listing, Calls, Charts, UsedOK
<1>4. ASSUME NEW n \in Names, ReadOne(r, n) PROVE PageTypes'
  <2>1. PICK s \in Refresh, row \in {Hydrated(n), Fallback} :
              /\ refreshes' = (refreshes \ {r}) \cup {s}
              /\ s.todo = r.todo \ {n} /\ s.got[n] = row
              /\ \A m \in Names : m # n => s.got[m] = r.got[m]
    BY <1>4, RowRead
  <2>2. row \in Row
    BY <1>2, RowsAreRows
  <2>3. \A m \in Read(s) : s.got[m] \in Row \cup {NoRow}
    BY <2>1, <2>2 DEF Read, RefreshesOK
  <2>4. RefreshesOK'
    BY <2>1, <2>3, RefreshReads
  <2>5. UsedOK'
    <3>1. CASE UNCHANGED used
      BY <3>1 DEF UsedOK
    <3>2. CASE Use("fault", MaxFaults)
      BY <3>2, UseCounts
    <3> QED
      BY <1>4, <3>1, <3>2 DEF ReadOne
  <2> QED
    BY <1>4, <2>4, <2>5 DEF ReadOne, session, list, Identity, Listing, Calls, Charts
<1> QED
  BY <1>1, <1>3, <1>4

(* The list after an answer.                                               *)
LEMMA Merged ==
  ASSUME PageTypes, NEW r \in refreshes, Deliver(r)
  PROVE /\ rows' \in [Names -> Row \cup {NoRow}]
        /\ \A n \in Names :
             \/ rows'[n] = r.got[n] /\ ~(r.got[n] = NoRow /\ rows[n] # NoRow /\ rows[n].optimistic)
             \/ rows'[n] = rows[n] /\ rows[n] # NoRow /\ rows[n].optimistic
<1>1. r.todo = {} /\ rows' = mergeCharts(rows, r.got)
  BY DEF Deliver
<1>2. \A n \in Names : r.got[n] \in Row \cup {NoRow}
  BY <1>1 DEF PageTypes, RefreshesOK, Read
<1>3. rows \in [Names -> Row \cup {NoRow}]
  BY DEF PageTypes, TypeOK
<1> QED
  BY <1>1, <1>2, <1>3 DEF mergeCharts

LEMMA PageTypesEnds ==
  ASSUME PageTypes, NEW r \in refreshes, Deliver(r) \/ ListFails(r)
  PROVE PageTypes'
<1> USE PageTypesParts, PageTypesPartsNext
<1>1. RefreshesOK'
  BY RefreshEnds DEF Deliver, ListFails
<1>2. CASE Deliver(r)
  BY <1>1, <1>2, Merged DEF Deliver, session, Identity, Listing, Calls, Charts, UsedOK
<1>3. CASE ListFails(r)
  BY <1>1, <1>3, UseCounts DEF ListFails, session, Identity, Listing, Calls, Charts
<1> QED
  BY <1>2, <1>3

LEMMA PageTypesSubmits ==
  ASSUME PageTypes,
         \/ \E s \in submits : Generated(s) \/ Submitted(s) \/ TimerFires(s) \/ SubmitFails(s)
         \/ \E n \in Names : Submit(n)
  PROVE PageTypes'
<1> USE PageTypesParts, PageTypesPartsNext
<1>1. requestOwner \in Owners
  BY DEF requestOwner, Owners
<1>2. ASSUME NEW s \in submits, Generated(s) PROVE PageTypes'
  <2>1. s \in Submission
    BY DEF Calls
  <2>2. <<requestOwner, s.name>> \in Owners \X Names
    BY <1>1, <2>1 DEF Submission
  <2>3. Charts'
    BY <1>2, <2>2, ChartLives DEF Generated, Lives, Charts
  <2>4. Calls'
    BY <1>1, <1>2, <2>1 DEF Generated, Advance, Calls, Submission
  <2> QED
    BY <1>2, <2>3, <2>4 DEF Generated, session, list, Identity, Listing, RefreshesOK, Read, UsedOK
<1>3. ASSUME NEW s \in submits, Submitted(s) PROVE PageTypes'
  <2>1. s \in Submission
    BY DEF Calls
  <2>2. Calls'
    BY <1>3, <2>1 DEF Submitted, Advance, Calls, Submission
  <2>3. [phase |-> "Pending", link |-> FALSE, owner |-> s.owner, optimistic |-> TRUE] \in Row
    BY <2>1 DEF Submission, Row, Life!Phases
  <2>4. rows' \in [Names -> Row \cup {NoRow}]
    BY <1>3, <2>3 DEF Submitted, Listing
  <2>5. Listing'
    BY <1>3, <2>1, <2>4 DEF Submitted, Listing, Submission
  <2> QED
    BY <1>3, <2>2, <2>5 DEF Submitted, session, Identity, Charts, RefreshesOK, Read, UsedOK
<1>4. ASSUME NEW s \in submits, TimerFires(s) PROVE PageTypes'
  <2>1. RefreshesOK'
    BY <1>4, RefreshStarts DEF TimerFires, Listing, Identity
  <2> QED
    BY <1>4, <2>1 DEF TimerFires, session, list, Identity, Listing, Calls, Charts, UsedOK
<1>5. ASSUME NEW s \in submits, SubmitFails(s) PROVE PageTypes'
  BY <1>5, UseCounts DEF SubmitFails, session, list, Identity, Listing, Calls, Charts, RefreshesOK, Read
<1>6. ASSUME NEW n \in Names, Submit(n) PROVE PageTypes'
  <2>1. Calls'
    BY <1>1, <1>6 DEF Submit, Calls, Submission, Identity
  <2> QED
    BY <1>6, <2>1, UseCounts DEF Submit, session, list, Identity, Listing, Charts, RefreshesOK, Read
<1> QED
  BY <1>2, <1>3, <1>4, <1>5, <1>6

LEMMA PageTypesServer ==
  ASSUME PageTypes, NEW c \in Owners \X Names, Build(c) \/ Remove(c)
  PROVE PageTypes'
<1> USE PageTypesParts, PageTypesPartsNext
<1>1. Lives(c) \/ Life!Vanish(c)
  BY DEF Build, Remove, Lives
<1>2. Charts'
  BY <1>1, ChartLives DEF Charts
<1>3. UsedOK'
  <2>1. CASE UNCHANGED used
    BY <2>1 DEF UsedOK
  <2>2. CASE Use("fault", MaxFaults) \/ Use("removal", MaxRemovals)
    BY <2>2, UseCounts
  <2> QED
    BY <2>1, <2>2 DEF Build, Remove
<1> QED
  BY <1>2, <1>3 DEF Build, Remove, session, list, Identity, Listing, Calls, RefreshesOK, Read

LEMMA PageTypesStep == PageTypes /\ [Next]_vars => PageTypes'
<1> SUFFICES ASSUME PageTypes, [Next]_vars PROVE PageTypes'
  OBVIOUS
<1>1. CASE UNCHANGED vars
  BY <1>1, PageTypesParts, PageTypesPartsNext
     DEF vars, session, list, Identity, Listing, Calls, Charts, RefreshesOK, Read, UsedOK
<1>2. CASE Next
  BY <1>2, PageTypesTab, PageTypesReading, PageTypesEnds, PageTypesSubmits, PageTypesServer
     DEF Next, Delivering, Submitting
<1> QED
  BY <1>1, <1>2

(* Types: rows, refreshes and submissions have their shape, refreshes stay *)
(* within what the page has room for, and a tab that takes itself to be    *)
(* signed in has the cookie.                                               *)
THEOREM PageTypeCorrect == Spec => []TypeOK
<1>1. PageTypes => TypeOK
  BY DEF PageTypes
<1> QED
  BY <1>1, PageTypesInit, PageTypesStep, PTL DEF Spec

-----------------------------------------------------------------------------
(* One refresh at a time.                                                  *)

Settled(row) == row # NoRow /\ ~row.optimistic

(* A refresh is of the identity it was started with, which is still the    *)
(* tab's; what it has read so far, and without one the list, are of whom   *)
(* the server takes the user for; and settled rows of the anonymous        *)
(* browser are remembered.                                                 *)
Single == \A r1, r2 \in refreshes : r1 = r2

Turns ==
  /\ \A r \in refreshes : r.local = ~user /\ (r.local => r.todo \subseteq remembered)
  /\ user = cookie =>
       /\ \A r \in refreshes : \A n \in Read(r) :
            r.got[n] = NoRow \/ r.got[n].owner = requestOwner
       /\ refreshes = {} /\ ~listError =>
            \A n \in Names : Settled(rows[n]) => rows[n].owner = requestOwner
  /\ \A r \in refreshes : \A n \in Read(r) :
       r.got[n] # NoRow /\ r.got[n].owner = "anon" => n \in remembered
  /\ \A n \in Names : Settled(rows[n]) /\ rows[n].owner = "anon" => n \in remembered

LEMMA AtMostOne ==
  ASSUME NEW S, IsFiniteSet(S), ~(Cardinality(S) > 1)
  PROVE \A a, b \in S : a = b
<1> SUFFICES ASSUME NEW a \in S, NEW b \in S \ {a} PROVE FALSE
  OBVIOUS
<1>1. Cardinality(S) \in Nat
  BY FS_CardinalityType
<1>2. IsFiniteSet(S \ {a}) /\ Cardinality(S \ {a}) = Cardinality(S) - 1
  BY FS_RemoveElement
<1>3. Cardinality(S \ {a}) \in Nat
  BY <1>2, FS_CardinalityType
<1>4. Cardinality(S \ {a}) = 0
  BY <1>1, <1>2, <1>3
<1>5. S \ {a} = {}
  BY <1>2, <1>4, FS_EmptySet
<1> QED
  BY <1>5

(* A refresh that starts alone.                                            *)
LEMMA AloneStarts ==
  ASSUME PageTypes, Single', NEW authed \in BOOLEAN, refreshCharts(authed)
  PROVE refreshes' = {NewRefresh(authed)}
BY DEF Single, refreshCharts

LEMMA TurnsStarts ==
  ASSUME PageTypes, PageTypes', Turns, Single', refreshCharts(user'),
         UNCHANGED <<remembered, rows>>
  PROVE Turns'
<1> DEFINE r == NewRefresh(user')
<1>1. user' \in BOOLEAN /\ remembered \subseteq Names
  BY DEF PageTypes, TypeOK
<1>2. /\ r.local = ~user'
      /\ r.todo = IF user' THEN Names ELSE remembered
      /\ \A n \in Read(r) : r.got[n] = NoRow /\ ~user' /\ n \notin remembered
  BY <1>1, NewRefreshOK
<1>3. refreshes' = {r}
  BY <1>1, AloneStarts
<1> HIDE DEF r
<1> QED
  BY <1>1, <1>2, <1>3 DEF Turns, Read, Settled

LEMMA TurnsLoad ==
  ASSUME PageTypes, Load
  PROVE Turns'
<1> DEFINE r == NewRefresh(FALSE)
<1>1. remembered \subseteq Names
  BY DEF PageTypes, TypeOK
<1>2. /\ r.local = TRUE /\ r.todo = remembered
      /\ \A n \in Read(r) : r.got[n] = NoRow
  BY <1>1, NewRefreshOK
<1>3. refreshes' = {r} /\ remembered' = remembered /\ user' = FALSE
      /\ \A n \in Names : rows'[n] = NoRow
  BY DEF Load, Loaded
<1> HIDE DEF r
<1> QED
  BY <1>2, <1>3 DEF Turns, Read, Settled

(* What has been read is of the one the server takes the user for.         *)
LEMMA TurnsReading ==
  ASSUME PageTypes, Turns, Single, Reading
  PROVE Turns'
<1>1. PICK r \in refreshes : ReadList(r) \/ \E n \in Names : ReadOne(r, n)
  BY DEF Reading
<1>2. TypeOK /\ r \in Refresh
  BY DEF PageTypes, RefreshesOK
<1>3. \A q \in refreshes : q = r
  BY DEF Single
<1>4. CASE ReadList(r)
  <2>1. PICK s \in Refresh :
          /\ refreshes' = (refreshes \ {r}) \cup {s} /\ s.local = r.local /\ s.todo = {}
          /\ \A n \in Names : s.got[n] = Listed(n)
    BY <1>4, RowRead
  <2>2. refreshes' = {s}
    BY <1>3, <2>1
  <2>3. \A n \in Names : s.got[n] = NoRow \/ s.got[n].owner = requestOwner
    BY <1>2, <2>1, RowsAreRows
  <2>4. ~r.local /\ UNCHANGED <<cookie, user, remembered, rows, listError>>
    BY <1>4 DEF ReadList, session, list
  <2>5. user /\ cookie /\ requestOwner = "user"
    BY <1>2, <2>4 DEF Turns, TypeOK, requestOwner
  <2>6. \A n \in Names : s.got[n] # NoRow => s.got[n].owner = "user"
    BY <2>3, <2>5
  <2> QED
    BY <2>1, <2>2, <2>4, <2>5, <2>6 DEF Turns, Read, requestOwner, Settled
<1>5. ASSUME NEW n \in Names, ReadOne(r, n) PROVE Turns'
  <2>1. PICK s \in Refresh, row \in {Hydrated(n), Fallback} :
          /\ refreshes' = (refreshes \ {r}) \cup {s} /\ s.local = r.local
          /\ s.todo = r.todo \ {n} /\ s.got[n] = row
          /\ \A m \in Names : m # n => s.got[m] = r.got[m]
    BY <1>5, RowRead
  <2>2. refreshes' = {s}
    BY <1>3, <2>1
  <2>3. r.local /\ n \in r.todo /\ UNCHANGED <<cookie, user, remembered, rows, listError>>
    BY <1>5 DEF ReadOne, session, list
  <2>4. row.owner = "anon" \/ row.owner = requestOwner
    BY <1>2, RowsAreRows
  <2>5. ~user /\ (user = cookie => requestOwner = "anon") /\ n \in remembered
    BY <1>2, <2>3 DEF Turns, TypeOK, requestOwner
  <2>6. \A m \in Read(s) : m = n \/ (m \in Read(r) /\ s.got[m] = r.got[m])
    BY <2>1 DEF Read
  <2>7. user = cookie => \A m \in Read(s) : s.got[m] = NoRow \/ s.got[m].owner = requestOwner
    BY <2>1, <2>4, <2>5, <2>6 DEF Turns
  <2>8. \A m \in Read(s) : s.got[m] # NoRow /\ s.got[m].owner = "anon" => m \in remembered
    BY <2>5, <2>6 DEF Turns
  <2>9. s.local = ~user /\ (s.local => s.todo \subseteq remembered)
    BY <2>1 DEF Turns
  <2> QED
    BY <2>2, <2>3, <2>7, <2>8, <2>9 DEF Turns, Read, requestOwner, Settled
<1> QED
  BY <1>1, <1>4, <1>5

LEMMA TurnsEnds ==
  ASSUME PageTypes, Turns, NEW r \in refreshes, Deliver(r) \/ ListFails(r)
  PROVE Turns'
<1>1. refreshes' = refreshes \ {r} /\ UNCHANGED <<cookie, user, remembered>>
  BY DEF Deliver, ListFails, session
<1>2. CASE Deliver(r)
  <2>1. r.todo = {}
    BY <1>2 DEF Deliver
  <2>2. \A n \in Names : n \in Read(r)
    BY <2>1 DEF Read
  <2>3. \A n \in Names : Settled(rows'[n]) => rows'[n] = r.got[n] /\ r.got[n] # NoRow
    BY <1>2, Merged DEF Settled
  <2> QED
    BY <1>1, <2>2, <2>3 DEF Turns, Read, requestOwner, Settled
<1>3. CASE ListFails(r)
  <2>1. listError' = TRUE /\ rows' = rows
    BY <1>3 DEF ListFails
  <2> QED
    BY <1>1, <2>1 DEF Turns, Read, requestOwner, Settled
<1> QED
  BY <1>2, <1>3

(* Steps that neither start nor end a refresh, nor change who is there.    *)
LEMMA TurnsQuiet ==
  ASSUME PageTypes, Turns, UNCHANGED <<cookie, user, refreshes, listError>>,
         remembered \subseteq remembered',
         \A n \in Names : Settled(rows'[n]) => rows'[n] = rows[n]
  PROVE Turns'
BY DEF Turns, Read, requestOwner, Settled

LEMMA TurnsSubmits ==
  ASSUME PageTypes, PageTypes', Turns, Single',
         \/ \E s \in submits : Generated(s) \/ Submitted(s) \/ TimerFires(s) \/ SubmitFails(s)
         \/ \E n \in Names : Submit(n)
  PROVE Turns'
<1>1. ASSUME NEW s \in submits, Submitted(s) PROVE Turns'
  <2>1. s.name \in Names /\ rows \in [Names -> Row \cup {NoRow}]
    BY DEF PageTypes, TypeOK, Submission
  <2>2. \A n \in Names : n # s.name => rows'[n] = rows[n]
    BY <1>1, <2>1 DEF Submitted
  <2>3. rows'[s.name].optimistic = TRUE
    BY <1>1, <2>1 DEF Submitted
  <2>4. \A n \in Names : Settled(rows'[n]) => rows'[n] = rows[n]
    BY <2>2, <2>3 DEF Settled
  <2>5. remembered \subseteq remembered' /\ UNCHANGED <<cookie, user, refreshes, listError>>
    BY <1>1 DEF Submitted, session
  <2> QED
    BY <2>4, <2>5, TurnsQuiet
<1>2. ASSUME NEW s \in submits, TimerFires(s) PROVE Turns'
  <2>1. refreshCharts(user') /\ UNCHANGED <<remembered, rows>>
    BY <1>2 DEF TimerFires, session, list
  <2> QED
    BY <2>1, TurnsStarts
<1>3. ASSUME UNCHANGED <<session, remembered, list, refreshes>> PROVE Turns'
  BY <1>3, TurnsQuiet DEF session, list
<1> QED
  BY <1>1, <1>2, <1>3 DEF Generated, SubmitFails, Submit

LEMMA TurnsTab ==
  ASSUME PageTypes, PageTypes', Turns, Single', MeRead \/ MeAnswered \/ SignOut \/ Poll \/ goCharts
  PROVE Turns'
<1>1. CASE MeRead
  BY <1>1, TurnsQuiet DEF MeRead, list
<1>2. CASE MeAnswered
  <2>1. UNCHANGED <<cookie, remembered, rows, listError>>
    BY <1>2 DEF MeAnswered, list
  <2>2. CASE user' # user
    BY <1>2, <2>1, <2>2, TurnsStarts DEF MeAnswered
  <2>3. CASE user' = user
    BY <1>2, <2>1, <2>3, TurnsQuiet DEF MeAnswered
  <2> QED
    BY <2>2, <2>3
<1>3. CASE SignOut \/ Poll \/ goCharts
  <2>1. refreshCharts(user') /\ UNCHANGED <<remembered, rows>>
    BY <1>3 DEF SignOut, Poll, goCharts, session, list
  <2> QED
    BY <2>1, TurnsStarts
<1> QED
  BY <1>1, <1>2, <1>3

LEMMA TurnsNext ==
  ASSUME PageTypes, PageTypes', Turns, Single, Single', Next
  PROVE Turns'
<1>1. ASSUME NEW c \in Owners \X Names, Build(c) \/ Remove(c) PROVE Turns'
  BY <1>1, TurnsQuiet DEF Build, Remove, session, list
<1> QED
  BY <1>1, TurnsLoad, TurnsTab, TurnsReading, TurnsEnds, TurnsSubmits
     DEF Next, Delivering, Submitting

TurnsAlone == PageTypes /\ (overlapped \/ (Single /\ Turns))

LEMMA TurnsInit == MCInit => TurnsAlone
<1> SUFFICES ASSUME MCInit PROVE TurnsAlone
  OBVIOUS
<1>1. PageTypes
  BY PageTypesInit DEF MCInit
<1> DEFINE r == NewRefresh(FALSE)
<1>2. /\ r.local = TRUE /\ r.todo = remembered
      /\ \A n \in Read(r) : r.got[n] = NoRow
  BY <1>1, NewRefreshOK DEF PageTypes, TypeOK
<1>3. refreshes = {r} /\ user = FALSE /\ \A n \in Names : rows[n] = NoRow
  BY DEF MCInit, Init
<1> HIDE DEF r
<1>4. Turns
  BY <1>2, <1>3 DEF Turns, Settled
<1> QED
  BY <1>1, <1>3, <1>4 DEF TurnsAlone, Single

LEMMA TurnsStep == TurnsAlone /\ [MCNext]_<<vars, overlapped>> => TurnsAlone'
<1> SUFFICES ASSUME TurnsAlone, [MCNext]_<<vars, overlapped>> PROVE TurnsAlone'
  OBVIOUS
<1>1. PageTypes'
  BY PageTypesStep DEF TurnsAlone, MCNext
<1>2. CASE UNCHANGED <<vars, overlapped>>
  BY <1>1, <1>2 DEF TurnsAlone, vars, session, list, Single, Turns, Read, requestOwner, Settled
<1>3. CASE MCNext /\ ~overlapped'
  <2>1. ~overlapped /\ ~(Cardinality(refreshes') > 1) /\ Next
    BY <1>3 DEF MCNext
  <2>2. Single'
    BY <1>1, <2>1, AtMostOne DEF PageTypes, RefreshesOK, Single
  <2>3. Turns'
    BY <1>1, <2>1, <2>2, TurnsNext DEF TurnsAlone
  <2> QED
    BY <1>1, <2>2, <2>3 DEF TurnsAlone
<1>4. CASE overlapped'
  BY <1>1, <1>4 DEF TurnsAlone
<1> QED
  BY <1>2, <1>3, <1>4

LEMMA TurnsAlways == MCSpec => []TurnsAlone
BY TurnsInit, TurnsStep, PTL DEF MCSpec

(* As long as one refresh ends before the next starts, the list is of the  *)
(* one whom tab and server agree on, however the tab was loaded, signed in *)
(* and out, and whatever failed.                                           *)
THEOREM ListOfIdentityAlways == MCSpec => []ListOfIdentityInTurns
<1>1. TurnsAlone => ListOfIdentityInTurns
  BY DEF TurnsAlone, Turns, ListOfIdentityInTurns, ListOfIdentity, Own, Settled
<1> QED
  BY <1>1, TurnsAlways, PTL

-----------------------------------------------------------------------------
(* Rows stay.                                                              *)

(* While no chart is removed: what tells about a user's chart tells about  *)
(* one that is there, and a refresh that has read past a settled row of    *)
(* the identity has found it too.                                          *)
There(n) == view[<<"user", n>>] # Absent

Found ==
  /\ \A s \in submits : s.step # "sent" => view[<<s.owner, s.name>>] # Absent
  /\ \A r \in refreshes : \A n \in Read(r) :
       r.got[n] # NoRow /\ r.got[n].owner = "user" => There(n)
  /\ \A n \in Names : rows[n] # NoRow /\ rows[n].owner = "user" => There(n)
  /\ \A r \in refreshes : \A n \in Read(r) :
       Settled(rows[n]) /\ Own(rows[n]) => r.got[n] # NoRow

LEMMA OwnerIsOne == PageTypes => requestOwner \in Owners
BY DEF PageTypes, TypeOK, requestOwner, Owners

LEMMA FoundStarts ==
  ASSUME PageTypes, PageTypes', Turns, Single', Found, refreshCharts(user'),
         submits' \subseteq submits, UNCHANGED <<remembered, rows, view>>
  PROVE Found'
<1> DEFINE r == NewRefresh(user')
<1>1. user' \in BOOLEAN /\ remembered \subseteq Names /\ cookie' \in BOOLEAN
  BY DEF PageTypes, TypeOK
<1>2. \A n \in Read(r) : r.got[n] = NoRow /\ ~user' /\ n \notin remembered
  BY <1>1, NewRefreshOK
<1>3. refreshes' = {r}
  BY <1>1, AloneStarts
<1> HIDE DEF r
<1>4. ASSUME NEW n \in Read(r), (Settled(rows[n]) /\ Own(rows[n]))' PROVE FALSE
  <2>1. ~user' /\ ~cookie' /\ rows'[n].owner = "anon"
    BY <1>1, <1>2, <1>4 DEF Own, requestOwner
  <2>2. n \in Names /\ Settled(rows[n]) /\ rows[n].owner = "anon"
    BY <1>4, <2>1 DEF Read, Settled
  <2> QED
    BY <1>2, <2>2 DEF Turns
<1>5. \A n \in Read(r) : ~(Settled(rows[n]) /\ Own(rows[n]))'
  BY <1>4
<1> QED
  BY <1>2, <1>3, <1>5 DEF Found, Read, There, Settled, Own, requestOwner

LEMMA FoundReading ==
  ASSUME PageTypes, Turns, Single, Found, Reading
  PROVE Found'
<1>1. PICK r \in refreshes : ReadList(r) \/ \E n \in Names : ReadOne(r, n)
  BY DEF Reading
<1>2. TypeOK /\ r \in Refresh
  BY DEF PageTypes, RefreshesOK
<1>3. \A q \in refreshes : q = r
  BY DEF Single
<1>4. UNCHANGED <<view, cookie, user, remembered, rows, submits>>
  BY <1>1 DEF ReadList, ReadOne, session, list
<1>5. CASE ReadList(r)
  <2>1. PICK s \in Refresh :
          /\ refreshes' = (refreshes \ {r}) \cup {s}
          /\ \A n \in Names : s.got[n] = Listed(n)
    BY <1>5, RowRead
  <2>2. refreshes' = {s}
    BY <1>3, <2>1
  <2>3. ~r.local
    BY <1>5 DEF ReadList
  <2>4. user /\ cookie /\ requestOwner = "user"
    BY <1>2, <2>3 DEF Turns, TypeOK, requestOwner
  <2>5. \A n \in Names : s.got[n] # NoRow <=> There(n)
    <3>1. \A n \in Names : Chart(n) = view[<<"user", n>>]
      BY <2>4 DEF Chart
    <3>2. \A n \in Names : Listed(n) # NoRow <=> Chart(n) # Absent
      BY <1>2, RowsAreRows
    <3> QED
      BY <2>1, <3>1, <3>2 DEF There
  <2>6. \A n \in Names : Own(rows[n]) => There(n)
    BY <2>4 DEF Found, Own
  <2> QED
    BY <1>4, <2>2, <2>5, <2>6 DEF Found, Read, There, Settled, Own, requestOwner
<1>6. ASSUME NEW n \in Names, ReadOne(r, n) PROVE Found'
  <2>1. PICK s \in Refresh, row \in {Hydrated(n), Fallback} :
          /\ refreshes' = (refreshes \ {r}) \cup {s}
          /\ s.todo = r.todo \ {n} /\ s.got[n] = row
          /\ \A m \in Names : m # n => s.got[m] = r.got[m]
    BY <1>6, RowRead
  <2>2. refreshes' = {s}
    BY <1>3, <2>1
  <2>3. row \in Row /\ row # NoRow
    BY <1>2, RowsAreRows, NoRowIsNotARow
  <2>4. row.owner = "user" => There(n)
    BY <1>2, RowsAreRows DEF There, Chart, requestOwner
  <2>5. \A m \in Read(s) : m = n \/ (m \in Read(r) /\ s.got[m] = r.got[m])
    BY <2>1 DEF Read
  <2>6. \A m \in Read(s) : s.got[m] # NoRow /\ s.got[m].owner = "user" => There(m)
    BY <2>1, <2>4, <2>5 DEF Found
  <2>7. \A m \in Read(s) : Settled(rows[m]) /\ Own(rows[m]) => s.got[m] # NoRow
    BY <2>1, <2>3, <2>5 DEF Found
  <2> QED
    BY <1>4, <2>2, <2>6, <2>7 DEF Found, Read, There, Settled, Own, requestOwner
<1> QED
  BY <1>1, <1>5, <1>6

LEMMA FoundEnds ==
  ASSUME PageTypes, Single, Found, NEW r \in refreshes, Deliver(r) \/ ListFails(r)
  PROVE Found'
<1>1. refreshes' = {} /\ UNCHANGED <<view, submits>>
  BY DEF Deliver, ListFails, Single
<1>2. \A n \in Names : rows'[n] # NoRow /\ rows'[n].owner = "user" => There(n)
  <2>1. CASE Deliver(r)
    <3>1. \A n \in Names : n \in Read(r)
      BY <2>1 DEF Deliver, Read
    <3>2. \A n \in Names : rows'[n] = r.got[n] \/ rows'[n] = rows[n]
      BY <2>1, Merged
    <3> QED
      BY <3>1, <3>2 DEF Found
  <2>2. CASE ListFails(r)
    BY <2>2 DEF ListFails, Found
  <2> QED
    BY <2>1, <2>2
<1> QED
  BY <1>1, <1>2 DEF Found, There

LEMMA FoundQuiet ==
  ASSUME PageTypes, Found, Grows, UNCHANGED <<cookie, user, refreshes>>,
         \A s \in submits' : s.step # "sent" => view'[<<s.owner, s.name>>] # Absent,
         \A n \in Names : rows'[n] = rows[n] \/ ~Settled(rows'[n]),
         \A n \in Names : rows'[n] # NoRow /\ rows'[n].owner = "user" => There(n)
  PROVE Found'
<1>1. \A n \in Names : There(n) => view'[<<"user", n>>] # Absent
  BY DEF Grows, There, Owners
<1>2. \A r \in refreshes : \A n \in Read(r) : n \in Names
  BY DEF Read
<1> QED
  BY <1>1, <1>2 DEF Found, Read, There, Settled, Own, requestOwner

LEMMA ViewStays == UNCHANGED view => Grows
BY DEF Grows

(* Submissions that are kept are those of charts that are there.           *)
LEMMA FoundSubmits ==
  ASSUME PageTypes, PageTypes', Turns, Single', Found,
         \/ \E s \in submits : Generated(s) \/ Submitted(s) \/ TimerFires(s) \/ SubmitFails(s)
         \/ \E n \in Names : Submit(n)
  PROVE Found'
<1> DEFINE C == Owners \X Names
<1>1. \A s \in submits : s \in Submission /\ <<s.owner, s.name>> \in C
  BY DEF PageTypes, TypeOK, Submission
<1>2. view \in [C -> Life!View \cup {Absent}]
  BY DEF PageTypes, TypeOK
<1>3. \A n \in Names : rows[n] # NoRow /\ rows[n].owner = "user" => There(n)
  BY DEF Found
<1>4. ASSUME NEW s \in submits, Generated(s) PROVE Found'
  <2> DEFINE c == <<requestOwner, s.name>>
             t == [s EXCEPT !.owner = requestOwner, !.step = "answered"]
  <2>1. c \in C /\ Life!Accept(c)
    BY <1>1, <1>4, OwnerIsOne DEF Generated, Submission
  <2>2. Grows /\ view'[c] # Absent
    BY <1>2, <2>1, ChartLives DEF Lives
  <2>3. submits' = (submits \ {s}) \cup {t} /\ t.owner = requestOwner /\ t.name = s.name
    BY <1>1, <1>4 DEF Generated, Advance, Submission
  <2> HIDE DEF t
  <2>4. \A q \in submits' : q.step # "sent" => view'[<<q.owner, q.name>>] # Absent
    <3> SUFFICES ASSUME NEW q \in submits', q.step # "sent"
                 PROVE view'[<<q.owner, q.name>>] # Absent
      OBVIOUS
    <3>1. CASE q = t
      BY <2>2, <2>3, <3>1
    <3>2. CASE q \in submits
      BY <1>1, <2>2, <3>2 DEF Found, Grows
    <3> QED
      BY <2>3, <3>1, <3>2
  <2>5. UNCHANGED <<cookie, user, refreshes, rows>>
    BY <1>4 DEF Generated, session, list
  <2> QED
    BY <1>3, <2>2, <2>4, <2>5, FoundQuiet
<1>5. ASSUME NEW s \in submits, Submitted(s) PROVE Found'
  <2> DEFINE t == [s EXCEPT !.owner = s.owner, !.step = "timer"]
  <2>1. s.name \in Names /\ rows \in [Names -> Row \cup {NoRow}]
    BY <1>1 DEF PageTypes, TypeOK, Submission
  <2>2. \A n \in Names : n # s.name => rows'[n] = rows[n]
    BY <1>5, <2>1 DEF Submitted
  <2>3. rows'[s.name].optimistic = TRUE /\ rows'[s.name].owner = s.owner
    BY <1>5, <2>1 DEF Submitted
  <2>4. view[<<s.owner, s.name>>] # Absent
    BY <1>5 DEF Submitted, Found
  <2>5. submits' = (submits \ {s}) \cup {t} /\ t.owner = s.owner /\ t.name = s.name
    BY <1>1, <1>5 DEF Submitted, Advance, Submission
  <2> HIDE DEF t
  <2>6. UNCHANGED <<cookie, user, refreshes, view>>
    BY <1>5 DEF Submitted, session
  <2>7. \A q \in submits' : q.step # "sent" => view'[<<q.owner, q.name>>] # Absent
    BY <2>4, <2>5, <2>6 DEF Found
  <2>8. \A n \in Names : rows'[n] = rows[n] \/ ~Settled(rows'[n])
    BY <2>2, <2>3 DEF Settled
  <2>9. \A n \in Names : rows'[n] # NoRow /\ rows'[n].owner = "user" => There(n)
    BY <1>3, <2>2, <2>3, <2>4 DEF There
  <2> QED
    BY <2>6, <2>7, <2>8, <2>9, FoundQuiet, ViewStays
<1>6. ASSUME NEW s \in submits, TimerFires(s) PROVE Found'
  <2>1. /\ refreshCharts(user') /\ submits' \subseteq submits
        /\ UNCHANGED <<remembered, rows, view>>
    BY <1>6 DEF TimerFires, session, list
  <2> QED
    BY <2>1, FoundStarts
<1>7. ASSUME UNCHANGED <<view, cookie, user, refreshes, rows>>,
             \A q \in submits' : q \in submits \/ q.step = "sent"
      PROVE Found'
  <2>1. \A q \in submits' : q.step # "sent" => view'[<<q.owner, q.name>>] # Absent
    BY <1>7 DEF Found
  <2> QED
    BY <1>3, <1>7, <2>1, FoundQuiet, ViewStays
<1>8. ASSUME NEW s \in submits, SubmitFails(s) PROVE Found'
  BY <1>7, <1>8 DEF SubmitFails, session, list
<1>9. ASSUME NEW n \in Names, Submit(n) PROVE Found'
  BY <1>7, <1>9 DEF Submit, session, list
<1> QED
  BY <1>4, <1>5, <1>6, <1>8, <1>9

LEMMA FoundTab ==
  ASSUME PageTypes, PageTypes', Turns, Single', Found,
         MeRead \/ MeAnswered \/ SignOut \/ Poll \/ goCharts
  PROVE Found'
<1>1. \A n \in Names : rows[n] # NoRow /\ rows[n].owner = "user" => There(n)
  BY DEF Found
<1>2. UNCHANGED <<view, submits, remembered, rows>>
  BY DEF MeRead, MeAnswered, SignOut, Poll, goCharts, session, list
<1>3. \A q \in submits' : q.step # "sent" => view'[<<q.owner, q.name>>] # Absent
  BY <1>2 DEF Found
<1>4. CASE UNCHANGED <<cookie, user, refreshes>>
  BY <1>1, <1>2, <1>3, <1>4, FoundQuiet, ViewStays
<1>5. CASE refreshCharts(user')
  BY <1>2, <1>5, FoundStarts
<1>6. (UNCHANGED <<cookie, user, refreshes>>) \/ refreshCharts(user')
  <2>1. CASE MeAnswered
    BY <2>1 DEF MeAnswered
  <2>2. CASE MeRead \/ SignOut \/ Poll \/ goCharts
    BY <2>2 DEF MeRead, SignOut, Poll, goCharts, session
  <2> QED
    BY <2>1, <2>2
<1> QED
  BY <1>4, <1>5, <1>6

LEMMA FoundLoad ==
  ASSUME PageTypes, Found, Load
  PROVE Found'
<1> DEFINE r == NewRefresh(FALSE)
<1>1. \A n \in Read(r) : r.got[n] = NoRow
  BY NewRefreshOK DEF PageTypes, TypeOK
<1>2. refreshes' = {r} /\ submits' = {} /\ view' = view
      /\ \A n \in Names : rows'[n] = NoRow
  BY DEF Load, Loaded
<1> HIDE DEF r
<1> QED
  BY <1>1, <1>2 DEF Found, Read, Settled

LEMMA FoundNext ==
  ASSUME PageTypes, PageTypes', Turns, Single, Single', Found, Next,
         ~(used'["removal"] > 0)
  PROVE Found'
<1>1. ASSUME NEW c \in Owners \X Names, Build(c) PROVE Found'
  <2>1. view \in [Owners \X Names -> Life!View \cup {Absent}]
    BY DEF PageTypes, TypeOK
  <2>2. Grows
    BY <1>1, <2>1, ChartLives DEF Build, Lives
  <2>3. UNCHANGED <<cookie, user, refreshes, rows, submits>>
    BY <1>1 DEF Build, session, list
  <2>4. \A s \in submits : <<s.owner, s.name>> \in Owners \X Names
    BY DEF PageTypes, TypeOK, Submission
  <2>5. \A q \in submits' : q.step # "sent" => view'[<<q.owner, q.name>>] # Absent
    BY <2>2, <2>3, <2>4 DEF Found, Grows
  <2> QED
    BY <2>2, <2>3, <2>5, FoundQuiet DEF Found
<1>2. ASSUME NEW c \in Owners \X Names, Remove(c) PROVE FALSE
  BY <1>2, UseCounts DEF Remove, PageTypes
<1> QED
  BY <1>1, <1>2, FoundLoad, FoundTab, FoundReading, FoundEnds, FoundSubmits
     DEF Next, Delivering, Submitting

(* Removals are counted.                                                   *)
LEMMA RemovalsCount ==
  ASSUME PageTypes, Next, used["removal"] > 0
  PROVE used'["removal"] > 0
<1>1. UsedOK /\ used["removal"] \in Nat
  BY DEF PageTypes, UsedOK
<1>2. CASE UNCHANGED used
  BY <1>2
<1>3. CASE \E what \in {"submit", "load", "removal", "fault"}, limit \in
              {MaxSubmits, MaxLoads, MaxRemovals, MaxFaults} : Use(what, limit)
  <2>1. used'["removal"] >= used["removal"]
    BY <1>1, <1>3, UseCounts
  <2>2. UsedOK'
    BY <1>1, <1>3, UseCounts
  <2> QED
    BY <1>1, <2>1, <2>2 DEF UsedOK
<1> QED
  BY <1>2, <1>3
     DEF Next, Load, MeRead, MeAnswered, SignOut, Poll, goCharts, Reading, ReadList, ReadOne,
         Delivering, Deliver, Submitting, Generated, Submitted, TimerFires, ListFails,
         SubmitFails, Submit, Build, Remove

FoundInv == TurnsAlone /\ (overlapped \/ used["removal"] > 0 \/ Found)

LEMMA FoundInit == MCInit => FoundInv
<1> SUFFICES ASSUME MCInit PROVE FoundInv
  OBVIOUS
<1> DEFINE r == NewRefresh(FALSE)
<1>1. PageTypes /\ TurnsAlone
  BY TurnsInit, PageTypesInit DEF MCInit
<1>2. \A n \in Read(r) : r.got[n] = NoRow
  BY <1>1, NewRefreshOK DEF PageTypes, TypeOK
<1>3. refreshes = {r} /\ submits = {} /\ \A n \in Names : rows[n] = NoRow
  BY DEF MCInit, Init
<1> HIDE DEF r
<1> QED
  BY <1>1, <1>2, <1>3 DEF FoundInv, Found, Read, Settled

LEMMA FoundStep == FoundInv /\ [MCNext]_<<vars, overlapped>> => FoundInv'
<1> SUFFICES ASSUME FoundInv, [MCNext]_<<vars, overlapped>> PROVE FoundInv'
  OBVIOUS
<1>1. TurnsAlone /\ TurnsAlone'
  BY TurnsStep DEF FoundInv
<1>2. CASE UNCHANGED <<vars, overlapped>>
  BY <1>1, <1>2
     DEF FoundInv, vars, session, list, Found, Read, There, Settled, Own, requestOwner
<1>3. CASE MCNext /\ ~overlapped' /\ ~(used'["removal"] > 0)
  <2>1. ~overlapped /\ Next
    BY <1>3 DEF MCNext
  <2>2. PageTypes /\ PageTypes' /\ Single /\ Single' /\ Turns
    BY <1>1, <1>3, <2>1 DEF TurnsAlone
  <2>3. ~(used["removal"] > 0)
    BY <1>3, <2>1, <2>2, RemovalsCount
  <2>4. Found'
    BY <1>3, <2>1, <2>2, <2>3, FoundNext DEF FoundInv
  <2> QED
    BY <1>1, <2>4 DEF FoundInv
<1>4. CASE overlapped' \/ used'["removal"] > 0
  BY <1>1, <1>4 DEF FoundInv
<1> QED
  BY <1>2, <1>3, <1>4

(* Only an answer could take such a row away, and it has found the chart.  *)
LEMMA RowsKept ==
  ASSUME FoundInv, FoundInv', [MCNext]_<<vars, overlapped>>
  PROVE overlapped' \/ used'["removal"] > 0 \/ KeepsRows
<1> SUFFICES ASSUME ~overlapped', ~(used'["removal"] > 0), NEW n \in Names,
                    Own(rows[n]), rows'[n] = NoRow, ~Load
             PROVE FALSE
  BY DEF KeepsRows
<1>1. rows[n] # NoRow
  BY DEF Own
<1>2. CASE UNCHANGED <<vars, overlapped>>
  BY <1>1, <1>2 DEF vars, list
<1>3. CASE MCNext
  <2>1. ~overlapped /\ Next
    BY <1>3 DEF MCNext
  <2>2. PageTypes /\ Found
    BY <2>1, RemovalsCount DEF FoundInv, TurnsAlone
  <2>3. ASSUME NEW r \in refreshes, Deliver(r) PROVE FALSE
    <3>1. n \in Read(r)
      BY <2>3 DEF Deliver, Read
    <3>2. r.got[n] = NoRow /\ Settled(rows[n])
      BY <1>1, <2>2, <2>3, Merged DEF Settled
    <3> QED
      BY <2>2, <3>1, <3>2 DEF Found
  <2>4. ASSUME NEW s \in submits, Submitted(s) PROVE FALSE
    <3>1. rows \in [Names -> Row \cup {NoRow}] /\ s \in Submission
      BY <2>2 DEF PageTypes, TypeOK
    <3>2. [phase |-> "Pending", link |-> FALSE, owner |-> s.owner, optimistic |-> TRUE] \in Row
      BY <3>1 DEF Submission, Row, Life!Phases
    <3> QED
      BY <1>1, <2>4, <3>1, <3>2, NoRowIsNotARow DEF Submitted
  <2>5. CASE rows' = rows
    BY <1>1, <2>5
  <2> QED
    BY <2>1, <2>3, <2>4, <2>5
       DEF Next, MeRead, MeAnswered, SignOut, Poll, goCharts, Reading, ReadList, ReadOne,
           Delivering, Submitting, Generated, TimerFires, ListFails, SubmitFails, Submit,
           Build, Remove, list
<1> QED
  BY <1>2, <1>3

(* As long as one refresh ends before the next starts, and no chart is     *)
(* removed, no answer takes an answered submission's row away: not one     *)
(* that was read before the chart was there, nor one that failed in part.  *)
THEOREM RowsStayAlways == MCSpec => RowsStayInTurns
<1>1. MCSpec => []FoundInv
  BY FoundInit, FoundStep, PTL DEF MCSpec
<1>2. FoundInv /\ FoundInv' /\ [MCNext]_<<vars, overlapped>>
        => [overlapped' \/ used'["removal"] > 0 \/ KeepsRows]_<<vars, overlapped>>
  BY RowsKept
<1> QED
  BY <1>1, <1>2, PTL DEF MCSpec, RowsStayInTurns
=============================================================================
