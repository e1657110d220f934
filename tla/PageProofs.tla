------------------------------ MODULE PageProofs ------------------------------
(***************************************************************************)
(* Theorems about three pages of the panel: what the page of a core says   *)
(* of it, what the managed certificates are applied to, and what the form  *)
(* of an inbound sends.  For any bounds.                                   *)
(***************************************************************************)
EXTENDS CorePage, CertificatePage, InboundForm, FiniteSetTheorems, TLAPS

-----------------------------------------------------------------------------
(* The page of a core *)

\* A set of one answer at most, of the given forms.
Few(forms) == {{}} \cup {{a} : a \in forms}

\* What an answer may be: something that the server says of some core.
Forms(q) == CASE q = "status" -> {Status(w) : w \in Worlds}
              [] q = "diagnostics" -> {Diagnostics(w) : w \in Worlds}
              [] q = "preview" -> {Preview(w) : w \in Worlds}

IsQuery(q, r) ==
    /\ r = [data |-> r.data, error |-> r.error, flight |-> r.flight, answer |-> r.answer]
    /\ r.data \in Few(Forms(q)) /\ r.answer \in Few(Forms(q))
    /\ r.error \in BOOLEAN
    /\ r.flight \in {"idle", "sent", "built", "found"}
    /\ r.flight \in {"built", "found"} => q = "status"
    /\ r.flight \in {"built", "found"} <=> r.answer # {}

\* A status that is neither there, nor asked for, nor failed was never asked
\* for, and then nothing was.
NothingAsked ==
    LET s == query["status"] IN
    s.data = {} /\ ~s.error /\ s.flight = "idle" => query = [q \in Queries |-> Unasked]

\* The inductive invariant of the page of a core.
CorePageInv ==
    /\ core \in Worlds
    /\ kept \in Few(Forms("status"))
    /\ shows \in BOOLEAN
    /\ action \in {"none", "apply", "restart", "stop"}
    /\ changes \in 0..MaxChanges /\ misses \in 0..MaxMisses
    /\ query = [q \in Queries |-> query[q]]
    /\ \A q \in Queries : IsQuery(q, query[q])
    /\ NothingAsked

\* A query's fields, changed one by one.
LEMMA QueryFields ==
    ASSUME NEW s, NEW v,
           s = [data |-> s.data, error |-> s.error, flight |-> s.flight, answer |-> s.answer]
    PROVE  /\ [s EXCEPT !.data = v]
                  = [data |-> v, error |-> s.error, flight |-> s.flight, answer |-> s.answer]
           /\ [s EXCEPT !.error = v]
                  = [data |-> s.data, error |-> v, flight |-> s.flight, answer |-> s.answer]
           /\ [s EXCEPT !.flight = v]
                  = [data |-> s.data, error |-> s.error, flight |-> v, answer |-> s.answer]
           /\ [s EXCEPT !.answer = v]
                  = [data |-> s.data, error |-> s.error, flight |-> s.flight, answer |-> v]
OBVIOUS

\* A record of a query's fields is the one it is written as.
LEMMA QueryRecord ==
    ASSUME NEW t, NEW d, NEW e, NEW f, NEW a,
           t = [data |-> d, error |-> e, flight |-> f, answer |-> a]
    PROVE  /\ t = [data |-> t.data, error |-> t.error, flight |-> t.flight, answer |-> t.answer]
           /\ t.data = d /\ t.error = e /\ t.flight = f /\ t.answer = a
OBVIOUS

\* A set of one answer at most is empty or has one element.
LEMMA FewAreFew ==
    ASSUME NEW S, NEW T, T \in Few(S)
    PROVE  /\ Cardinality(T) \in {0, 1}
           /\ T # {} => \E a \in S : T = {a}
<1>1. T = {} \/ \E a \in S : T = {a}
  BY DEF Few
<1>2. Cardinality({}) = 0
  BY FS_EmptySet
<1>3. \A a : Cardinality({a}) = 1
  BY FS_Singleton
<1> QED
  BY <1>1, <1>2, <1>3

\* What the server says of a core is a form of answer.
LEMMA AnswersAreForms ==
    ASSUME core \in Worlds, NEW q \in Queries
    PROVE  {Answers(q)} \in Few(Forms(q)) /\ {} \in Few(Forms(q))
<1>1. CASE q = "status"
  BY <1>1 DEF Few, Forms, Answers
<1>2. CASE q = "diagnostics"
  BY <1>2 DEF Few, Forms, Answers
<1>3. CASE q = "preview"
  BY <1>3 DEF Few, Forms, Answers
<1> QED
  BY <1>1, <1>2, <1>3 DEF Queries

\* A query that was never asked.
LEMMA UnaskedIsQuery == \A q \in Queries : IsQuery(q, Unasked)
BY DEF IsQuery, Unasked, Few

\* A refetch of queries makes queries; it asks for what it names and leaves
\* the others alone.
LEMMA RefreshedAreQueries ==
    ASSUME CorePageInv, NEW asked \in SUBSET Queries
    PROVE  /\ Refreshed(asked) = [q \in Queries |-> Refreshed(asked)[q]]
           /\ \A q \in Queries : IsQuery(q, Refreshed(asked)[q])
           /\ \A q \in asked : Refreshed(asked)[q].flight = "sent"
<1> DEFINE new == Refreshed(asked)
<1>1. new = [q \in Queries |-> new[q]]
  BY DEF Refreshed
<1>2. ASSUME NEW q \in Queries PROVE IsQuery(q, new[q]) /\ (q \in asked => new[q].flight = "sent")
  <2>1. IsQuery(q, query[q])
    BY DEF CorePageInv
  <2>2. CASE q \notin asked
    BY <2>1, <2>2 DEF Refreshed
  <2>3. CASE q \in asked
    <3>1. new[q] = [[query[q] EXCEPT !.flight = "sent"] EXCEPT !.answer = {}]
      BY <2>3 DEF Refreshed
    <3>2. new[q] = [data |-> query[q].data, error |-> query[q].error, flight |-> "sent", answer |-> {}]
      BY <3>1, <2>1 DEF IsQuery
    <3> HIDE DEF new
    <3> QED
      BY <3>2, <2>1, <2>3 DEF IsQuery, Few
  <2> QED
    BY <2>2, <2>3
<1> QED
  BY <1>1, <1>2

\* When a refetch includes the status, it has been asked for.
LEMMA RefreshedIsAsked ==
    ASSUME CorePageInv, NEW asked \in SUBSET Queries, "status" \in asked, query' = Refreshed(asked)
    PROVE  /\ query' = [q \in Queries |-> query'[q]]
           /\ \A q \in Queries : IsQuery(q, query'[q])
           /\ NothingAsked'
<1>1. /\ query' = [q \in Queries |-> query'[q]]
      /\ \A q \in Queries : IsQuery(q, query'[q])
      /\ query'["status"].flight = "sent"
  BY RefreshedAreQueries
<1> QED
  BY <1>1 DEF NothingAsked

\* One query gets an answer, an error or another flight.
LEMMA OneQueryMoves ==
    ASSUME CorePageInv, NEW q \in Queries, NEW r, IsQuery(q, r),
           query' = [query EXCEPT ![q] = r],
           query[q].flight # "idle",
           r.data # {} \/ r.error \/ r.flight # "idle"
    PROVE  /\ query' = [x \in Queries |-> query'[x]]
           /\ \A x \in Queries : IsQuery(x, query'[x])
           /\ NothingAsked'
<1>1. query = [x \in Queries |-> query[x]] /\ \A x \in Queries : IsQuery(x, query[x])
  BY DEF CorePageInv
<1>2. /\ query' = [x \in Queries |-> query'[x]]
      /\ query'[q] = r
      /\ \A x \in Queries : x # q => query'[x] = query[x]
  BY <1>1
<1>3. \A x \in Queries : IsQuery(x, query'[x])
  BY <1>1, <1>2
<1>4. "status" \in Queries
  BY DEF Queries
<1>5. NothingAsked'
  <2>1. CASE q = "status"
    BY <1>2, <2>1 DEF NothingAsked
  <2>2. CASE q # "status"
    <3>1. query'["status"] = query["status"]
      BY <1>2, <1>4, <2>2
    <3>2. query # [x \in Queries |-> Unasked]
      BY DEF Unasked
    <3> QED
      BY <3>1, <3>2 DEF CorePageInv, NothingAsked
  <2> QED
    BY <2>1, <2>2
<1> QED
  BY <1>2, <1>3, <1>5

\* An answer that is there, with nothing in flight.
LEMMA AnsweredIsQuery ==
    ASSUME NEW q \in Queries, NEW a \in Few(Forms(q))
    PROVE  LET r == [Unasked EXCEPT !.data = a] IN
           IsQuery(q, r) /\ r.data = a /\ r.flight = "idle"
<1>1. [Unasked EXCEPT !.data = a] = [data |-> a, error |-> FALSE, flight |-> "idle", answer |-> {}]
  <2> DEFINE u == Unasked
  <2>1. u = [data |-> {}, error |-> FALSE, flight |-> "idle", answer |-> {}]
    BY DEF Unasked
  <2> HIDE DEF u
  <2>2. [u EXCEPT !.data = a]
            = [data |-> a, error |-> u.error, flight |-> u.flight, answer |-> u.answer]
    BY <2>1, QueryFields
  <2>3. u.error = FALSE /\ u.flight = "idle" /\ u.answer = {}
    BY <2>1
  <2> QED
    BY <2>2, <2>3 DEF u
<1> DEFINE r == [Unasked EXCEPT !.data = a]
<1> HIDE DEF r
<1>2. r = [data |-> a, error |-> FALSE, flight |-> "idle", answer |-> {}]
  BY <1>1 DEF r
<1>3. {} \in Few(Forms(q))
  BY DEF Few
<1>4. IsQuery(q, r)
  BY <1>2, <1>3 DEF IsQuery
<1> QED
  BY <1>2, <1>4 DEF r

\* StatusIsBuilt: the answer comes out of the cache or is made of the core.
LEMMA StatusBuiltKeeps == CorePageInv /\ StatusIsBuilt => CorePageInv'
<1> SUFFICES ASSUME CorePageInv, StatusIsBuilt PROVE CorePageInv'
  OBVIOUS
<1> DEFINE s == query["status"]
           fl == IF kept # {} THEN "found" ELSE "built"
           an == IF kept # {} THEN kept ELSE {Status(core)}
           r == [data |-> s.data, error |-> s.error, flight |-> fl, answer |-> an]
<1>1. "status" \in Queries /\ IsQuery("status", s) /\ query = [q \in Queries |-> query[q]]
  BY DEF CorePageInv, Queries
<1>2. an \in Few(Forms("status")) /\ an # {}
  <2>1. {Status(core)} \in Few(Forms("status"))
    BY <1>1, AnswersAreForms DEF CorePageInv, Answers
  <2> QED
    BY <2>1 DEF CorePageInv
<1>3. fl \in {"built", "found"}
  OBVIOUS
<1>4. query' = [query EXCEPT !["status"] = r]
  <2> DEFINE t == [s EXCEPT !.flight = fl]
  <2>1. query' = [query EXCEPT !["status"] = [t EXCEPT !.answer = an]]
    BY <1>1 DEF StatusIsBuilt
  <2>2. s = [data |-> s.data, error |-> s.error, flight |-> s.flight, answer |-> s.answer]
    BY <1>1 DEF IsQuery
  <2> HIDE DEF fl, an
  <2>3. t = [data |-> s.data, error |-> s.error, flight |-> fl, answer |-> s.answer]
    BY <2>2, QueryFields
  <2> HIDE DEF t
  <2>4. /\ t = [data |-> t.data, error |-> t.error, flight |-> t.flight, answer |-> t.answer]
        /\ t.data = s.data /\ t.error = s.error /\ t.flight = fl /\ t.answer = s.answer
    BY <2>3, QueryRecord
  <2>5. [t EXCEPT !.answer = an]
            = [data |-> t.data, error |-> t.error, flight |-> t.flight, answer |-> an]
    BY <2>4, QueryFields
  <2> QED
    BY <2>1, <2>4, <2>5
<1>5. IsQuery("status", r)
  <2> HIDE DEF an, fl
  <2> QED
    BY <1>1, <1>2, <1>3 DEF IsQuery
<1>6. r.flight # "idle"
  BY <1>3
<1>7. s.flight # "idle"
  BY DEF StatusIsBuilt
<1> HIDE DEF r
<1>8. /\ query' = [x \in Queries |-> query'[x]]
      /\ \A x \in Queries : IsQuery(x, query'[x])
      /\ NothingAsked'
  BY <1>1, <1>4, <1>5, <1>6, <1>7, OneQueryMoves
<1> QED
  BY <1>8 DEF CorePageInv, StatusIsBuilt

\* StatusLands: the answer is shown, and kept if it was built.
LEMMA StatusLandsKeeps == CorePageInv /\ StatusLands => CorePageInv'
<1> SUFFICES ASSUME CorePageInv, StatusLands PROVE CorePageInv'
  OBVIOUS
<1> DEFINE s == query["status"]
           r == [Unasked EXCEPT !.data = s.answer]
<1>1. "status" \in Queries /\ IsQuery("status", s)
  BY DEF CorePageInv, Queries
<1>2. s.answer \in Few(Forms("status")) /\ s.answer # {} /\ s.flight # "idle"
  BY <1>1 DEF StatusLands, IsQuery
<1>3. query' = [query EXCEPT !["status"] = r]
  BY DEF StatusLands, Answered
<1>4. IsQuery("status", r) /\ r.data = s.answer
  BY <1>1, <1>2, AnsweredIsQuery
<1> HIDE DEF r
<1>5. /\ query' = [x \in Queries |-> query'[x]]
      /\ \A x \in Queries : IsQuery(x, query'[x])
      /\ NothingAsked'
  BY <1>1, <1>2, <1>3, <1>4, OneQueryMoves
<1>6. kept' \in Few(Forms("status"))
  BY <1>2 DEF StatusLands, CorePageInv
<1> QED
  BY <1>5, <1>6 DEF CorePageInv, StatusLands

\* Lands: the diagnostics or the comparison are as the core is now.
LEMMA LandsKeeps == \A q \in Queries : CorePageInv /\ Lands(q) => CorePageInv'
<1> SUFFICES ASSUME NEW q \in Queries, CorePageInv, Lands(q) PROVE CorePageInv'
  OBVIOUS
<1> DEFINE r == [Unasked EXCEPT !.data = {Answers(q)}]
<1>1. {Answers(q)} \in Few(Forms(q))
  BY AnswersAreForms DEF CorePageInv
<1>2. query' = [query EXCEPT ![q] = r] /\ query[q].flight # "idle"
  BY DEF Lands, Answered
<1>3. IsQuery(q, r) /\ r.data = {Answers(q)}
  BY <1>1, AnsweredIsQuery
<1> HIDE DEF r
<1>4. r.data # {}
  BY <1>3
<1>5. /\ query' = [x \in Queries |-> query'[x]]
      /\ \A x \in Queries : IsQuery(x, query'[x])
      /\ NothingAsked'
  BY <1>2, <1>3, <1>4, OneQueryMoves
<1> QED
  BY <1>5 DEF CorePageInv, Lands

\* Fails: the data that are there stay.
LEMMA FailsKeeps == \A q \in Queries : CorePageInv /\ Fails(q) => CorePageInv'
<1> SUFFICES ASSUME NEW q \in Queries, CorePageInv, Fails(q) PROVE CorePageInv'
  OBVIOUS
<1> DEFINE s == query[q]
           r == [data |-> s.data, error |-> TRUE, flight |-> "idle", answer |-> {}]
<1>1. IsQuery(q, s)
  BY DEF CorePageInv
<1>2. query' = [query EXCEPT ![q] = r]
  <2> DEFINE t == [s EXCEPT !.error = TRUE]
             u == [t EXCEPT !.flight = "idle"]
  <2>1. query' = [query EXCEPT ![q] = [u EXCEPT !.answer = {}]]
    BY DEF Fails, CorePageInv
  <2>2. s = [data |-> s.data, error |-> s.error, flight |-> s.flight, answer |-> s.answer]
    BY <1>1 DEF IsQuery
  <2>3. t = [data |-> s.data, error |-> TRUE, flight |-> s.flight, answer |-> s.answer]
    BY <2>2, QueryFields
  <2> HIDE DEF t
  <2>4. /\ t = [data |-> t.data, error |-> t.error, flight |-> t.flight, answer |-> t.answer]
        /\ t.data = s.data /\ t.error = TRUE /\ t.flight = s.flight /\ t.answer = s.answer
    BY <2>3, QueryRecord
  <2>5. u = [data |-> t.data, error |-> t.error, flight |-> "idle", answer |-> t.answer]
    BY <2>4, QueryFields
  <2> HIDE DEF u
  <2>6. /\ u = [data |-> u.data, error |-> u.error, flight |-> u.flight, answer |-> u.answer]
        /\ u.data = t.data /\ u.error = t.error /\ u.flight = "idle" /\ u.answer = t.answer
    BY <2>5, QueryRecord
  <2>7. [u EXCEPT !.answer = {}]
            = [data |-> u.data, error |-> u.error, flight |-> u.flight, answer |-> {}]
    BY <2>6, QueryFields
  <2> QED
    BY <2>1, <2>4, <2>6, <2>7
<1>3. IsQuery(q, r) /\ r.error
  BY <1>1 DEF IsQuery, Few
<1>4. query[q].flight # "idle"
  BY DEF Fails
<1> HIDE DEF r
<1>5. /\ query' = [x \in Queries |-> query'[x]]
      /\ \A x \in Queries : IsQuery(x, query'[x])
      /\ NothingAsked'
  BY <1>2, <1>3, <1>4, OneQueryMoves
<1>6. misses' \in 0..MaxMisses
  BY CorePageBounds DEF CorePageInv, Fails
<1> QED
  BY <1>5, <1>6 DEF CorePageInv, Fails

\* RefreshAll, StatusPolled and CorePageOpens ask for the status, among others.
LEMMA AskingKeeps ==
    CorePageInv /\ (RefreshAll \/ StatusPolled \/ CorePageOpens) => CorePageInv'
<1> SUFFICES ASSUME CorePageInv, RefreshAll \/ StatusPolled \/ CorePageOpens PROVE CorePageInv'
  OBVIOUS
<1>1. "status" \in Queries
  BY DEF Queries
<1>2. CASE RefreshAll
  <2>1. /\ query' = [q \in Queries |-> query'[q]]
        /\ \A q \in Queries : IsQuery(q, query'[q])
        /\ NothingAsked'
    BY <1>1, <1>2, RefreshedIsAsked DEF RefreshAll
  <2>2. changes' \in 0..MaxChanges
    BY <1>2, CorePageBounds DEF CorePageInv, RefreshAll
  <2> QED
    BY <1>2, <2>1, <2>2 DEF CorePageInv, RefreshAll
<1>3. CASE StatusPolled
  <2>1. /\ query' = [q \in Queries |-> query'[q]]
        /\ \A q \in Queries : IsQuery(q, query'[q])
        /\ NothingAsked'
    BY <1>1, <1>3, RefreshedIsAsked DEF StatusPolled
  <2> QED
    BY <1>3, <2>1 DEF CorePageInv, StatusPolled
<1>4. CASE CorePageOpens
  <2>1. CASE query["status"] = Unasked
    <3>1. /\ query' = [q \in Queries |-> query'[q]]
          /\ \A q \in Queries : IsQuery(q, query'[q])
          /\ NothingAsked'
      BY <1>1, <1>4, <2>1, RefreshedIsAsked DEF CorePageOpens
    <3> QED
      BY <1>4, <3>1 DEF CorePageInv, CorePageOpens
  <2>2. CASE query["status"] # Unasked
    BY <1>4, <2>2 DEF CorePageInv, CorePageOpens, NothingAsked
  <2> QED
    BY <2>1, <2>2
<1> QED
  BY <1>2, <1>3, <1>4

\* KeptExpires, CorePageHides, Changes, JobIsDone and ActionBegins leave the
\* queries alone.
LEMMA AroundKeeps ==
    CorePageInv /\ (KeptExpires \/ CorePageHides \/ Changes \/ JobIsDone
                    \/ \E kind \in {"apply", "restart", "stop"} : ActionBegins(kind))
        => CorePageInv'
<1> SUFFICES ASSUME CorePageInv,
                    KeptExpires \/ CorePageHides \/ Changes \/ JobIsDone
                    \/ \E kind \in {"apply", "restart", "stop"} : ActionBegins(kind)
             PROVE  CorePageInv'
  OBVIOUS
<1>1. query' = query
  BY DEF KeptExpires, CorePageHides, Changes, JobIsDone, ActionBegins
<1>2. core' \in Worlds
  BY DEF KeptExpires, CorePageHides, Changes, JobIsDone, ActionBegins, CorePageInv
<1>3. kept' \in Few(Forms("status"))
  BY DEF KeptExpires, CorePageHides, Changes, JobIsDone, ActionBegins, CorePageInv, Few
<1>4. changes' \in 0..MaxChanges /\ misses' \in 0..MaxMisses
  BY CorePageBounds
     DEF KeptExpires, CorePageHides, Changes, JobIsDone, ActionBegins, CorePageInv
<1>5. shows' \in BOOLEAN /\ action' \in {"none", "apply", "restart", "stop"}
  BY DEF KeptExpires, CorePageHides, Changes, JobIsDone, ActionBegins, CorePageInv
<1> QED
  BY <1>1, <1>2, <1>3, <1>4, <1>5 DEF CorePageInv, NothingAsked

\* ActionEnds: the core changes to one that can be, or not at all.
LEMMA ActionEndsKeeps == CorePageInv /\ ActionEnds => CorePageInv'
<1> SUFFICES ASSUME CorePageInv, ActionEnds PROVE CorePageInv'
  OBVIOUS
<1>1. PICK done \in BOOLEAN :
          /\ done => AfterAction(action) \in Worlds
          /\ core' = IF done THEN AfterAction(action) ELSE core
          /\ query' = Refreshed({"status", "diagnostics"}
                                \cup (IF action = "apply" /\ done THEN {"preview"} ELSE {}))
  BY DEF ActionEnds
<1>2. core' \in Worlds
  BY <1>1 DEF CorePageInv
<1>3. PICK asked \in SUBSET Queries : "status" \in asked /\ query' = Refreshed(asked)
  BY <1>1 DEF Queries
<1>4. /\ query' = [q \in Queries |-> query'[q]]
      /\ \A q \in Queries : IsQuery(q, query'[q])
      /\ NothingAsked'
  BY <1>3, RefreshedIsAsked
<1>5. kept' \in Few(Forms("status"))
  BY DEF ActionEnds, Few
<1> QED
  BY <1>2, <1>4, <1>5 DEF CorePageInv, ActionEnds

\* Every step keeps the invariant of the page.
LEMMA CorePageSteps == CorePageInv /\ [CorePageNext]_corePageVars => CorePageInv'
<1> SUFFICES ASSUME CorePageInv, [CorePageNext]_corePageVars PROVE CorePageInv'
  OBVIOUS
<1>1. CASE UNCHANGED corePageVars
  BY <1>1 DEF corePageVars, CorePageInv, NothingAsked
<1>2. CASE CorePageNext
  BY <1>2, AskingKeeps, AroundKeeps, ActionEndsKeeps, StatusBuiltKeeps, StatusLandsKeeps,
     LandsKeeps, FailsKeeps DEF CorePageNext
<1> QED
  BY <1>1, <1>2

\* A page that was never opened is in order.
LEMMA CorePageStarts == CorePageInit => CorePageInv
<1> SUFFICES ASSUME CorePageInit PROVE CorePageInv
  OBVIOUS
<1> DEFINE w(sync, job) == [service |-> "running", sync |-> sync, valid |-> TRUE,
                            listening |-> TRUE, job |-> job]
<1>1. core \in Worlds
  <2>1. ASSUME NEW sync \in Syncs, NEW job \in {"none", "active", "succeeded", "failed"},
               sync # "missing"
        PROVE  w(sync, job) \in Worlds
    BY <2>1 DEF Worlds, Consistent
  <2>2. core = w("synced", "none") \/ core = w("differs", "active")
    BY DEF CorePageInit
  <2>3. {"synced", "differs"} \subseteq Syncs
    BY DEF Syncs
  <2> HIDE DEF w
  <2> QED
    BY <2>1, <2>2, <2>3
<1>2. kept \in Few(Forms("status"))
  BY DEF CorePageInit, Few
<1>3. query = [q \in Queries |-> query[q]] /\ \A q \in Queries : IsQuery(q, query[q])
  BY UnaskedIsQuery DEF CorePageInit
<1>4. changes \in 0..MaxChanges /\ misses \in 0..MaxMisses
  BY CorePageBounds DEF CorePageInit
<1> QED
  BY <1>1, <1>2, <1>3, <1>4 DEF CorePageInv, CorePageInit, NothingAsked

\* The inductive invariant of a core's page, for any bounds.
THEOREM CorePageInvariance == CorePageSpec => []CorePageInv
BY CorePageStarts, CorePageSteps, PTL DEF CorePageSpec

\* CorePageTypeOK: the core is one that can be, and a query has one answer at most.
THEOREM CorePageTypeCorrect == CorePageSpec => []CorePageTypeOK
<1>1. ASSUME CorePageInv PROVE CorePageTypeOK
  <2>1. ASSUME NEW q \in Queries
        PROVE  Cardinality(query[q].data) <= 1 /\ Cardinality(query[q].answer) <= 1
    <3>1. query[q].data \in Few(Forms(q)) /\ query[q].answer \in Few(Forms(q))
      BY <1>1 DEF CorePageInv, IsQuery
    <3>2. Cardinality(query[q].data) \in {0, 1} /\ Cardinality(query[q].answer) \in {0, 1}
      BY <3>1, FewAreFew
    <3> QED
      BY <3>2
  <2> QED
    BY <1>1, <2>1 DEF CorePageInv, CorePageTypeOK
<1> QED
  BY <1>1, CorePageInvariance, PTL

\* What is in the answers about a core.
LEMMA AnswersTell ==
    ASSUME NEW w \in Worlds
    PROVE  /\ w.service \in {"running", "stopped", "not_managed", "not_installed"}
           /\ w.sync \in Syncs
           /\ w.job \in {"none", "active", "succeeded", "failed"}
           /\ {w.valid, w.listening} \subseteq BOOLEAN
BY DEF Worlds

\* The data of a query are nothing, or what is said of one core.
LEMMA DataAreAnswers ==
    ASSUME CorePageInv
    PROVE  /\ \/ query["status"].data = {}
              \/ \E w \in Worlds : query["status"].data = {Status(w)}
           /\ \/ query["diagnostics"].data = {}
              \/ \E w \in Worlds : query["diagnostics"].data = {Diagnostics(w)}
           /\ \/ query["preview"].data = {}
              \/ \E w \in Worlds : query["preview"].data = {Preview(w)}
<1>1. \A q \in Queries : query[q].data = {} \/ \E a \in Forms(q) : query[q].data = {a}
  BY DEF CorePageInv, IsQuery, Few
<1> QED
  BY <1>1 DEF Queries, Forms

\* If the headline says so, the diagnostics are there and nothing in them warns.
LEMMA RunningIsDiagnosed ==
    ASSUME CorePageInv, coreHealthSummary = "running"
    PROVE  \E d \in query["diagnostics"].data : ~Warned(d) /\ ~query["diagnostics"].error
<1> DEFINE ds == query["diagnostics"].data
           summary == coreDiagnosticsSummary(ds, Loading("diagnostics"), query["diagnostics"].error)
<1>0. summary \in {"ok", "warning", "error"}
  <2>1. \A loading, error : coreDiagnosticsSummary(ds, loading, error) \in {"ok", "warning", "error"}
    BY DEF coreDiagnosticsSummary
  <2> QED
    BY <2>1
<1>1. summary = "ok"
  <2> HIDE DEF summary
  <2>1. summary # "running"
    BY <1>0
  <2> QED
    BY <2>1 DEF coreHealthSummary, summary
<1>2. ~Loading("diagnostics") /\ ~query["diagnostics"].error /\ ds # {}
  BY <1>1 DEF coreDiagnosticsSummary
<1>3. ~\E d \in ds : Warned(d)
  BY <1>1, <1>2 DEF coreDiagnosticsSummary
<1> QED
  BY <1>2, <1>3

\* What the headline has ruled out when it says "running".
LEMMA RunningRulesOut ==
    ASSUME coreHealthSummary = "running"
    PROVE  LET status == query["status"].data
               diagnostics == query["diagnostics"].data
               preview == query["preview"].data
           IN  /\ ~Loading("status")
               /\ coreInstalledWithDiagnostics(status, diagnostics)
               /\ status # {} => \A s \in status : s.service \notin {"stopped", "not_managed"}
               /\ coreUserSyncState(status, diagnostics, preview, Loading("preview"),
                                    query["preview"].error) \notin {"syncing", "failed"}
               /\ ~(\E s \in status : s.pending) /\ ~(\E p \in preview : p.pending)
               /\ configSyncState(preview, Loading("preview"), query["preview"].error) # "no"
               /\ ~PortsMissing(status, diagnostics)
<1> DEFINE status == query["status"].data
           diagnostics == query["diagnostics"].data
           preview == query["preview"].data
           service == IF status # {} THEN {s.service : s \in status}
                      ELSE {d.service : d \in diagnostics}
           sync == configSyncState(preview, Loading("preview"), query["preview"].error)
           user == coreUserSyncState(status, diagnostics, preview, Loading("preview"),
                                     query["preview"].error)
           installed == coreInstalledWithDiagnostics(status, diagnostics)
           pending == (\E s \in status : s.pending) \/ (\E p \in preview : p.pending)
           ports == PortsMissing(status, diagnostics)
<1>1. /\ ~Loading("status") /\ installed
      /\ "stopped" \notin service /\ "not_managed" \notin service
      /\ user \notin {"syncing", "failed"}
      /\ ~pending /\ sync # "no" /\ ~ports
  BY DEF coreHealthSummary
<1>2. status # {} => \A s \in status : s.service \notin {"stopped", "not_managed"}
  BY <1>1
<1> HIDE DEF user, sync, installed, ports
<1> QED
  BY <1>1, <1>2 DEF user, sync, installed, ports

\* ... what that says of the status ...
LEMMA RunningStatus ==
    ASSUME CorePageInv, coreHealthSummary = "running"
    PROVE  /\ \A s \in query["status"].data : ~Complains(s)
           /\ query["status"].data = {} => query["status"].error
<1> DEFINE status == query["status"].data
           diagnostics == query["diagnostics"].data
<1>1. ASSUME NEW s \in status PROVE ~Complains(s)
  <2>1. PICK w \in Worlds : s = Status(w)
    BY DataAreAnswers
  <2>2. s.service \notin {"stopped", "not_managed"}
    BY RunningRulesOut
  <2>3. s.installed
    BY RunningRulesOut DEF coreInstalledWithDiagnostics
  <2>4. s.service = "running"
    <3>1. w.service \in {"running", "stopped", "not_managed", "not_installed"}
      BY AnswersTell
    <3>2. w.service # "not_installed"
      BY <2>1, <2>3 DEF Status, Installed
    <3>3. s.service = w.service
      BY <2>1 DEF Status
    <3> QED
      BY <2>2, <3>1, <3>2, <3>3
  <2>5. s.listening
    BY RunningRulesOut DEF PortsMissing
  <2>6. ~s.pending
    BY RunningRulesOut
  <2>7. s.job \notin {"active", "failed"}
    <3>1. coreUserSyncState(status, diagnostics, query["preview"].data, Loading("preview"),
                            query["preview"].error) \notin {"syncing", "failed"}
      BY RunningRulesOut
    <3> QED
      BY <3>1 DEF coreUserSyncState, coreApplyJobInProgress
  <2> QED
    BY <2>4, <2>5, <2>6, <2>7 DEF Complains
<1>2. ASSUME status = {} PROVE query["status"].error
  <2>1. ~Loading("status")
    BY RunningRulesOut
  <2>2. query["status"].flight = "idle"
    BY <1>2, <2>1 DEF Loading
  <2>3. query["diagnostics"].data # {}
    BY RunningIsDiagnosed
  <2>4. query # [q \in Queries |-> Unasked]
    BY <2>3 DEF Unasked, Queries
  <2> QED
    BY <1>2, <2>2, <2>4 DEF CorePageInv, NothingAsked
<1> QED
  BY <1>1, <1>2

\* ... and of the comparison.
LEMMA RunningPreview ==
    ASSUME CorePageInv, coreHealthSummary = "running"
    PROVE  \A p \in query["preview"].data : p.in_sync /\ ~p.pending /\ ~query["preview"].error
<1> SUFFICES ASSUME NEW p \in query["preview"].data
             PROVE  p.in_sync /\ ~p.pending /\ ~query["preview"].error
  OBVIOUS
<1>1. query["preview"].data = {p}
  BY DataAreAnswers
<1>2. ~Loading("preview")
  BY DEF Loading
<1>3. configSyncState(query["preview"].data, Loading("preview"), query["preview"].error) # "no"
  BY RunningRulesOut
<1>4. ~query["preview"].error
  BY <1>2, <1>3 DEF configSyncState
<1>5. p.in_sync /\ ~p.pending
  BY <1>1, <1>2, <1>3, <1>4 DEF configSyncState
<1> QED
  BY <1>4, <1>5

\* A core that is well in every respect, of which the page knows all, is said
\* to run.
LEMMA WellIsRunning ==
    ASSUME CorePageInv, UpToDate, Healthy
    PROVE  coreHealthSummary = "running"
<1> DEFINE s == Status(core)
           d == Diagnostics(core)
           p == Preview(core)
<1>1. /\ query["status"].data = {s}
      /\ query["diagnostics"].data = {d} /\ ~query["diagnostics"].error
      /\ query["preview"].data = {p} /\ ~query["preview"].error
  BY DEF UpToDate, Queries, Answers
<1>2. /\ core.service = "running" /\ core.sync = "synced" /\ core.valid = TRUE
      /\ core.listening = TRUE /\ core.job \in {"none", "succeeded"}
  BY DEF Healthy
<1>3. /\ s.service = "running" /\ s.installed /\ ~s.pending /\ ~s.error /\ s.listening
      /\ s.job # "active" /\ s.job # "failed"
  BY <1>2 DEF Status, Installed
<1>4. /\ d.service = "running" /\ d.installed /\ d.listening /\ d.exists /\ d.valid /\ d.in_sync
  BY <1>2 DEF Diagnostics, Installed
<1>5. p.in_sync /\ ~p.pending /\ ~p.error
  BY <1>2 DEF Preview
<1> HIDE DEF s, d, p
<1>6. ~Loading("status") /\ ~Loading("diagnostics") /\ ~Loading("preview")
  BY <1>1 DEF Loading
<1>7. coreUserSyncState({s}, {d}, {p}, Loading("preview"), query["preview"].error) = "in_sync"
  BY <1>1, <1>3, <1>4, <1>5, <1>6 DEF coreUserSyncState, coreApplyJobInProgress
<1>8. configSyncState({p}, Loading("preview"), query["preview"].error) = "yes"
  BY <1>1, <1>5, <1>6 DEF configSyncState
<1>9. coreDiagnosticsSummary({d}, Loading("diagnostics"), query["diagnostics"].error) = "ok"
  BY <1>1, <1>4, <1>6 DEF coreDiagnosticsSummary, Warned
<1>10. ~PortsMissing({s}, {d}) /\ coreInstalledWithDiagnostics({s}, {d})
  BY <1>3, <1>4 DEF PortsMissing, coreInstalledWithDiagnostics
<1>11. {x.service : x \in {s}} = {"running"}
  BY <1>3
<1> QED
  BY <1>1, <1>3, <1>4, <1>5, <1>6, <1>7, <1>8, <1>9, <1>10, <1>11 DEF coreHealthSummary

\* HeadlineIsRight: the headline, put together from three answers of different
\* moments, says that the core runs normally only if none of them complains, and
\* says so of a core that is well when they are up to date.
THEOREM HeadlineStaysRight == CorePageSpec => []HeadlineIsRight
<1>1. ASSUME CorePageInv PROVE HeadlineIsRight
  BY <1>1, RunningStatus, RunningIsDiagnosed, RunningPreview, WellIsRunning DEF HeadlineIsRight
<1> QED
  BY <1>1, CorePageInvariance, PTL

-----------------------------------------------------------------------------
(* The managed certificates *)

IsCertQuery(q) == q = [data |-> q.data, flight |-> q.flight, answer |-> q.answer]

\* What the inbounds were selected for is the certificate that is shown, and
\* under a dialog about it the selection is the one it was opened with, or none.
CertPageInv ==
    /\ IsFiniteSet(selectedInboundIds)
    /\ appliedSelectionCertId = selectedCertificate
    /\ dialog = [kind |-> dialog.kind, cert |-> dialog.cert, ids |-> dialog.ids]
    /\ dialog.kind = "apply" =>
           \/ selectedInboundIds = {}
           \/ selectedCertificate = dialog.cert /\ selectedInboundIds = dialog.ids
    /\ requested = [m \in Mutations |-> requested[m]]
    /\ IsCertQuery(certList)

\* The effect of a rendering: the choice stays unless it was made for another
\* certificate than the one that is shown now.
LEMMA EffectClears ==
    ASSUME NEW ids, IsFiniteSet(ids), NEW applied, NEW current,
           SelectionEffect(ids, applied, current)
    PROVE  /\ appliedSelectionCertId' = current
           /\ selectedInboundIds' \in {{}, ids}
           /\ selectedInboundIds' = {} \/ applied = current
<1>1. Cardinality(ids) \in Nat /\ (Cardinality(ids) = 0 <=> ids = {})
  BY FS_CardinalityType, FS_EmptySet
<1>2. CASE applied = current
  BY <1>2 DEF SelectionEffect, shouldClearInboundSelectionForActualCertificate
<1>3. CASE applied # current
  BY <1>1, <1>3 DEF SelectionEffect, shouldClearInboundSelectionForActualCertificate
<1> QED
  BY <1>2, <1>3

\* A query of the page that is fetched anew, or whose answer is on its way,
\* keeps its data.
LEMMA CertQueryKeepsData ==
    ASSUME NEW q, IsCertQuery(q), NEW f, NEW a
    PROVE  LET t == [q EXCEPT !.flight = f] IN
           /\ IsCertQuery(t) /\ t.data = q.data
           /\ IsCertQuery([q EXCEPT !.answer = a]) /\ [q EXCEPT !.answer = a].data = q.data
<1>1. [q EXCEPT !.flight = f] = [data |-> q.data, flight |-> f, answer |-> q.answer]
  BY DEF IsCertQuery
<1>2. [q EXCEPT !.answer = a] = [data |-> q.data, flight |-> q.flight, answer |-> a]
  BY DEF IsCertQuery
<1> QED
  BY <1>1, <1>2 DEF IsCertQuery

\* A step that leaves the list, the choice and the dialog alone.
LEMMA ChoiceStays ==
    ASSUME CertPageInv, certList'.data = certList.data, IsCertQuery(certList'),
           UNCHANGED choiceVars, UNCHANGED dialog,
           requested' = [m \in Mutations |-> requested'[m]]
    PROVE  CertPageInv'
<1>1. UNCHANGED <<selectedCertId, selectedInboundIds, appliedSelectionCertId, dialog>>
  BY DEF choiceVars
<1>2. selectedCertificate' = selectedCertificate
  BY <1>1 DEF selectedCertificate, ListedCerts, SelectedOf
<1> QED
  BY <1>1, <1>2 DEF CertPageInv

\* The steps that do no more to the page than fetch, serve and settle.
LEMMA ServersStepsKeep ==
    CertPageInv /\ (\/ CertPageOpens \/ SettingsRefresh
                    \/ \E w \in {"acme", "import", "apply"} : ChooseWorkspace(w)
                    \/ \E m \in Mutations : CertMutationLands(m)
                    \/ TargetsLand \/ CertListIsServed \/ TargetsAreServed
                    \/ ApplyIsServed \/ DeleteIsChecked \/ DeleteIsDone \/ ImportIsServed
                    \/ CertChangesElsewhere)
        => CertPageInv'
<1> SUFFICES ASSUME CertPageInv,
                    \/ CertPageOpens \/ SettingsRefresh
                    \/ \E w \in {"acme", "import", "apply"} : ChooseWorkspace(w)
                    \/ \E m \in Mutations : CertMutationLands(m)
                    \/ TargetsLand \/ CertListIsServed \/ TargetsAreServed
                    \/ ApplyIsServed \/ DeleteIsChecked \/ DeleteIsDone \/ ImportIsServed
                    \/ CertChangesElsewhere
             PROVE  CertPageInv'
  OBVIOUS
<1>1. UNCHANGED choiceVars /\ UNCHANGED dialog
  BY DEF CertPageOpens, SettingsRefresh, ChooseWorkspace, CertMutationLands, TargetsLand,
         CertListIsServed, TargetsAreServed, ApplyIsServed, DeleteIsChecked, DeleteIsDone,
         ImportIsServed, CertChangesElsewhere
<1>2. IsCertQuery(certList') /\ certList'.data = certList.data
  <2>1. IsCertQuery(certList)
    BY DEF CertPageInv
  <2> DEFINE inFlight == [certList EXCEPT !.flight = "sent"]
             served == [certList EXCEPT !.flight = "served"]
  <2>2. \/ certList' = certList
        \/ certList' = [inFlight EXCEPT !.answer = {}]
        \/ certList' = [served EXCEPT !.answer = {certs}]
    BY DEF CertPageOpens, SettingsRefresh, ChooseWorkspace, CertMutationLands, TargetsLand,
           CertListIsServed, TargetsAreServed, ApplyIsServed, DeleteIsChecked, DeleteIsDone,
           ImportIsServed, CertChangesElsewhere, RefreshCertificates, InvalidatedCert
  <2>3. /\ IsCertQuery(inFlight) /\ inFlight.data = certList.data
        /\ IsCertQuery(served) /\ served.data = certList.data
    BY <2>1, CertQueryKeepsData
  <2> HIDE DEF inFlight, served
  <2> QED
    <3>1. /\ IsCertQuery([inFlight EXCEPT !.answer = {}])
          /\ [inFlight EXCEPT !.answer = {}].data = inFlight.data
      BY <2>3, CertQueryKeepsData
    <3>2. /\ IsCertQuery([served EXCEPT !.answer = {certs}])
          /\ [served EXCEPT !.answer = {certs}].data = served.data
      BY <2>3, CertQueryKeepsData
    <3> QED
      BY <2>1, <2>2, <2>3, <3>1, <3>2
<1>3. requested' = [m \in Mutations |-> requested'[m]]
  <2>1. requested = [m \in Mutations |-> requested[m]]
    BY DEF CertPageInv
  <2>2. \/ requested' = requested
        \/ \E m \in Mutations : \E r : requested' = [requested EXCEPT ![m] = r]
    BY DEF CertPageOpens, SettingsRefresh, ChooseWorkspace, CertMutationLands, TargetsLand,
           CertListIsServed, TargetsAreServed, ApplyIsServed, DeleteIsChecked, DeleteIsDone,
           ImportIsServed, CertChangesElsewhere, Settled, Mutations
  <2> QED
    BY <2>1, <2>2
<1> QED
  BY <1>1, <1>2, <1>3, ChoiceStays

\* SelectCertificate: what was selected for another certificate goes.
LEMMA SelectKeeps == \A id : CertPageInv /\ SelectCertificate(id) => CertPageInv'
<1> SUFFICES ASSUME NEW id, CertPageInv, SelectCertificate(id) PROVE CertPageInv'
  OBVIOUS
<1>1. selectedCertificate' = id
  BY DEF SelectCertificate, selectedCertificate, ListedCerts, SelectedOf
<1>2. IsFiniteSet(selectedInboundIds') /\ appliedSelectionCertId' = id
  <2>1. CASE selectedCertificate # id
    <3>1. SelectionEffect({}, id, id) /\ IsFiniteSet({})
      BY <2>1, FS_EmptySet DEF SelectCertificate
    <3> QED
      BY <3>1, EffectClears
  <2>2. CASE selectedCertificate = id
    <3>1. SelectionEffect(selectedInboundIds, appliedSelectionCertId, id)
      BY <2>2 DEF SelectCertificate
    <3>2. /\ appliedSelectionCertId' = id
          /\ selectedInboundIds' \in {{}, selectedInboundIds}
      BY <3>1, EffectClears DEF CertPageInv
    <3> QED
      BY <3>2, FS_EmptySet DEF CertPageInv
  <2> QED
    BY <2>1, <2>2
<1>3. dialog.kind = "none" /\ dialog' = dialog /\ requested' = requested /\ certList' = certList
  BY DEF SelectCertificate
<1> QED
  BY <1>1, <1>2, <1>3 DEF CertPageInv

\* ToggleInbound.
LEMMA ToggleKeeps == \A id : CertPageInv /\ ToggleInbound(id) => CertPageInv'
<1> SUFFICES ASSUME NEW id, CertPageInv, ToggleInbound(id) PROVE CertPageInv'
  OBVIOUS
<1> DEFINE ids == toggleID(selectedInboundIds, id)
<1>1. IsFiniteSet(ids)
  <2>1. IsFiniteSet(selectedInboundIds)
    BY DEF CertPageInv
  <2>2. IsFiniteSet(selectedInboundIds \ {id}) /\ IsFiniteSet(selectedInboundIds \cup {id})
    BY <2>1, FS_RemoveElement, FS_AddElement
  <2> QED
    BY <2>2 DEF toggleID
<1>2. SelectionEffect(ids, appliedSelectionCertId, selectedCertificate)
  BY DEF ToggleInbound
<1>3. /\ appliedSelectionCertId' = selectedCertificate
      /\ selectedInboundIds' \in {{}, ids}
  BY <1>1, <1>2, EffectClears
<1>4. /\ dialog.kind = "none" /\ dialog' = dialog /\ requested' = requested
      /\ certList' = certList /\ selectedCertId' = selectedCertId
  BY DEF ToggleInbound
<1>5. selectedCertificate' = selectedCertificate
  BY <1>4 DEF selectedCertificate, ListedCerts, SelectedOf
<1>6. IsFiniteSet(selectedInboundIds')
  BY <1>1, <1>3, FS_EmptySet
<1> QED
  BY <1>3, <1>4, <1>5, <1>6 DEF CertPageInv

\* CertListLands: under a dialog, another certificate is shown only with no
\* inbound selected.
LEMMA ListKeeps == CertPageInv /\ CertListLands => CertPageInv'
<1> SUFFICES ASSUME CertPageInv, CertListLands PROVE CertPageInv'
  OBVIOUS
<1> DEFINE shown == SelectedOf(selectedCertId, UNION certList.answer)
<1>1. SelectionEffect(selectedInboundIds, appliedSelectionCertId, shown)
  BY DEF CertListLands
<1>2. /\ appliedSelectionCertId' = shown
      /\ selectedInboundIds' \in {{}, selectedInboundIds}
      /\ selectedInboundIds' = {} \/ appliedSelectionCertId = shown
  BY <1>1, EffectClears DEF CertPageInv
<1>3. certList' = [data |-> certList.answer, flight |-> "idle", answer |-> {}]
  BY DEF CertListLands
<1>4. IsCertQuery(certList') /\ certList'.data = certList.answer
  BY <1>3 DEF IsCertQuery
<1>5. dialog' = dialog /\ requested' = requested /\ selectedCertId' = selectedCertId
  BY DEF CertListLands
<1>6. selectedCertificate' = shown
  BY <1>4, <1>5 DEF selectedCertificate, ListedCerts
<1>7. IsFiniteSet(selectedInboundIds')
  BY <1>2, FS_EmptySet DEF CertPageInv
<1> HIDE DEF shown
<1> QED
  BY <1>2, <1>4, <1>5, <1>6, <1>7 DEF CertPageInv

\* AskCert, CertDialogCloses and CertConfirmed: a dialog opens on what is
\* chosen, and closes.
LEMMA DialogsKeep ==
    CertPageInv /\ (AskCert \/ CertDialogCloses \/ CertConfirmed) => CertPageInv'
<1> SUFFICES ASSUME CertPageInv, AskCert \/ CertDialogCloses \/ CertConfirmed PROVE CertPageInv'
  OBVIOUS
<1>1. certList' = certList /\ UNCHANGED choiceVars
  BY DEF AskCert, CertDialogCloses, CertConfirmed
<1>2. UNCHANGED <<selectedCertId, selectedInboundIds, appliedSelectionCertId>>
  BY <1>1 DEF choiceVars
<1>3. selectedCertificate' = selectedCertificate
  BY <1>1, <1>2 DEF selectedCertificate, ListedCerts, SelectedOf
<1>4. /\ dialog' = [kind |-> dialog'.kind, cert |-> dialog'.cert, ids |-> dialog'.ids]
      /\ dialog'.kind = "apply" => dialog'.cert = selectedCertificate
                                   /\ dialog'.ids = selectedInboundIds
  BY DEF AskCert, AskToApply, AskToImport, AskToDelete, CertDialogCloses, CertConfirmed, NoDialog
<1>5. requested' = [m \in Mutations |-> requested'[m]]
  <2>1. requested = [m \in Mutations |-> requested[m]]
    BY DEF CertPageInv
  <2>2. \/ requested' = requested
        \/ \E m : \E r : requested' = [requested EXCEPT ![m] = r]
    BY DEF AskCert, CertDialogCloses, CertConfirmed
  <2> QED
    BY <2>1, <2>2
<1> QED
  BY <1>1, <1>2, <1>3, <1>4, <1>5 DEF CertPageInv

\* Every step keeps the invariant of the certificates.
LEMMA CertPageSteps == CertPageInv /\ [CertPageNext]_certPageVars => CertPageInv'
<1> SUFFICES ASSUME CertPageInv, [CertPageNext]_certPageVars PROVE CertPageInv'
  OBVIOUS
<1>1. CASE UNCHANGED certPageVars
  <2>1. certList' = certList /\ UNCHANGED choiceVars /\ UNCHANGED dialog /\ requested' = requested
    BY <1>1 DEF certPageVars, choiceVars
  <2> QED
    BY <2>1, ChoiceStays DEF CertPageInv
<1>2. CASE CertPageNext
  BY <1>2, ServersStepsKeep, SelectKeeps, ToggleKeeps, ListKeeps, DialogsKeep DEF CertPageNext
<1> QED
  BY <1>1, <1>2

\* The page begins with nothing chosen.
LEMMA CertPageStarts == CertPageInit => CertPageInv
<1> SUFFICES ASSUME CertPageInit PROVE CertPageInv
  OBVIOUS
<1>1. selectedCertificate = 0
  BY DEF CertPageInit, NoCertAnswer, selectedCertificate, ListedCerts, SelectedOf
<1>2. IsFiniteSet(selectedInboundIds)
  BY FS_EmptySet DEF CertPageInit
<1>3. requested = [m \in Mutations |-> requested[m]]
  BY DEF CertPageInit
<1>4. dialog.kind = "none" /\ dialog = [kind |-> dialog.kind, cert |-> dialog.cert, ids |-> dialog.ids]
  BY DEF CertPageInit, NoDialog
<1>5. IsCertQuery(certList)
  BY DEF CertPageInit, NoCertAnswer, IsCertQuery
<1>6. appliedSelectionCertId = 0
  BY DEF CertPageInit
<1> QED
  BY <1>1, <1>2, <1>3, <1>4, <1>5, <1>6 DEF CertPageInv

\* AppliedAsConfirmed: the request that a confirmation sends is about the
\* certificate and the inbounds that the dialog was opened on, or about none,
\* whatever list has landed under it.
THEOREM ConfirmedIsApplied == CertPageSpec => AppliedAsConfirmed
<1>1. ASSUME CertPageInv, CertConfirmed, dialog.kind = "apply"
      PROVE  \/ requested'["apply"].ids = {}
             \/ /\ requested'["apply"].cert = dialog.cert
                /\ requested'["apply"].ids = dialog.ids
  <2>1. requested'["apply"] = [at |-> "sent", cert |-> selectedCertificate, ids |-> selectedInboundIds]
    BY <1>1 DEF CertPageInv, CertConfirmed, Mutations
  <2> QED
    BY <1>1, <2>1 DEF CertPageInv
<1>2. CertPageSpec => []CertPageInv
  BY CertPageStarts, CertPageSteps, PTL DEF CertPageSpec
<1>3. CertPageInv /\ [CertPageNext]_certPageVars
          => [CertConfirmed /\ dialog.kind = "apply" =>
                 \/ requested'["apply"].ids = {}
                 \/ /\ requested'["apply"].cert = dialog.cert
                    /\ requested'["apply"].ids = dialog.ids]_certPageVars
  BY <1>1
<1> QED
  BY <1>2, <1>3, PTL DEF CertPageSpec, AppliedAsConfirmed

-----------------------------------------------------------------------------
(* The form of an inbound *)

Values == {"none", "seed", "own", "cert"}

\* An open form: its combination is in the table, its fields have values.
IsForm(f) ==
    /\ DOMAIN f = {"open", "exists", "combo", "fields", "client", "withClient", "opened", "edits"}
    /\ f.open = TRUE
    /\ {f.exists, f.withClient} \subseteq BOOLEAN
    /\ f.combo \in Combos
    /\ f.fields \in [advancedFields -> Values]
    /\ f.edits \in 0..MaxEdits

\* A first client that the server can make one of protocol p from, unless its id
\* was typed and is no UUID.
Suits(p, c) ==
    LET type == Own[p].credential IN
    /\ DOMAIN c = {"uuid", "id", "password"}
    /\ type = "uuid" => c.id = "uuid"
    /\ type = "credential_id_password" =>
           c.id \in {"uuid", "none", "new", "word"} /\ c.uuid = "uuid"

\* A new inbound's first client suits its protocol; a stored inbound that has
\* not been changed is as it was opened.
FormHolds ==
    LET f == form IN
    /\ IsForm(f)
    /\ f.exists => ~f.withClient
    /\ ~f.exists => Suits(f.combo.protocol, f.client)
    /\ f.exists /\ f.edits = 0 =>
           f.opened = f.combo /\ f.fields = Stored(f.combo) /\ keysAsked = 0

\* The inductive invariant of the form.
FormInv ==
    /\ table \in {"own", "served"}
    /\ keysAsked \in Nat
    /\ \/ form = NoForm /\ keysAsked = 0
       \/ FormHolds /\ keysAsked <= form.edits
    /\ RefusedForAnInput /\ SentAsShown

\* The fields that the panel's own table gives to each protocol.
LEMMA OwnFields ==
    /\ \A p \in {"vless", "trojan"} :
           /\ Own[p].protocolFields = {}
           /\ DOMAIN Own[p].securityFields = {"tls", "reality"}
           /\ Own[p].securityFields["tls"] = xrayTlsFields
           /\ Own[p].securityFields["reality"] = realityFields
    /\ /\ Own["vmess"].protocolFields = {}
       /\ DOMAIN Own["vmess"].securityFields = {"tls"}
       /\ Own["vmess"].securityFields["tls"] = xrayTlsFields
    /\ \A p \in {"socks", "http", "shadowsocks", "shadowtls"} :
           /\ DOMAIN Own[p].securityFields = {"none"}
           /\ Own[p].securityFields["none"] = {}
    /\ Own["socks"].protocolFields = {} /\ Own["http"].protocolFields = {}
    /\ Own["shadowsocks"].protocolFields = {"ss_method"}
    /\ Own["shadowtls"].protocolFields = {"shadowtls_version", "tls_sni"}
    /\ \A p \in {"hysteria2", "tuic"} :
           /\ DOMAIN Own[p].securityFields = {"tls"}
           /\ Own[p].securityFields["tls"] = singboxTlsFields
    /\ Own["hysteria2"].protocolFields = {"hy2_mbps", "hy2_obfs", "hy2_obfs_password"}
    /\ Own["tuic"].protocolFields = {"tuic_congestion_control", "tuic_zero_rtt"}
<1> USE DEF Own, inboundProtocols, XrayTransports, SingboxProtocols, OnlyTransport
<1>1. /\ Own["vless"].protocolFields = {}
      /\ DOMAIN Own["vless"].securityFields = {"tls", "reality"}
      /\ Own["vless"].securityFields["tls"] = xrayTlsFields
      /\ Own["vless"].securityFields["reality"] = realityFields
  BY DEF XrayCapability
<1>2. /\ Own["trojan"].protocolFields = {}
      /\ DOMAIN Own["trojan"].securityFields = {"tls", "reality"}
      /\ Own["trojan"].securityFields["tls"] = xrayTlsFields
      /\ Own["trojan"].securityFields["reality"] = realityFields
  BY DEF XrayCapability
<1>3. /\ Own["vmess"].protocolFields = {}
      /\ DOMAIN Own["vmess"].securityFields = {"tls"}
      /\ Own["vmess"].securityFields["tls"] = xrayTlsFields
  BY DEF XrayCapability
<1>4. /\ DOMAIN Own["socks"].securityFields = {"none"} /\ Own["socks"].securityFields["none"] = {}
      /\ DOMAIN Own["http"].securityFields = {"none"} /\ Own["http"].securityFields["none"] = {}
      /\ DOMAIN Own["shadowsocks"].securityFields = {"none"}
      /\ Own["shadowsocks"].securityFields["none"] = {}
  BY DEF XrayCapability
<1>5. /\ DOMAIN Own["shadowtls"].securityFields = {"none"}
      /\ Own["shadowtls"].securityFields["none"] = {}
  BY DEF SingboxCapability
<1>6. /\ Own["socks"].protocolFields = {} /\ Own["http"].protocolFields = {}
      /\ Own["shadowsocks"].protocolFields = {"ss_method"}
  BY DEF XrayCapability
<1>7. /\ Own["shadowtls"].protocolFields = {"shadowtls_version", "tls_sni"}
      /\ Own["hysteria2"].protocolFields = {"hy2_mbps", "hy2_obfs", "hy2_obfs_password"}
      /\ Own["tuic"].protocolFields = {"tuic_congestion_control", "tuic_zero_rtt"}
  BY DEF SingboxCapability
<1>8. /\ DOMAIN Own["hysteria2"].securityFields = {"tls"}
      /\ Own["hysteria2"].securityFields["tls"] = singboxTlsFields
      /\ DOMAIN Own["tuic"].securityFields = {"tls"}
      /\ Own["tuic"].securityFields["tls"] = singboxTlsFields
  BY DEF SingboxCapability
<1> QED
  <2> USE <1>1, <1>2, <1>3, <1>4, <1>5, <1>6, <1>7, <1>8
  <2> HIDE DEF Own, OnlyTransport
  <2> QED
    OBVIOUS

\* Every protocol's default transport is one of its own, and every transport
\* has a security.
LEMMA OwnCombinations ==
    \A p \in inboundProtocols :
        /\ Own[p].defaultNetwork \in Own[p].networks
        /\ \A n : Securities(Own[p], n) # {}
<1> USE DEF Own, inboundProtocols, XrayTransports, SingboxProtocols, OnlyTransport
<1>1. /\ Own["vless"].defaultNetwork \in Own["vless"].networks
      /\ Own["vmess"].defaultNetwork \in Own["vmess"].networks
      /\ Own["trojan"].defaultNetwork \in Own["trojan"].networks
      /\ Own["shadowsocks"].defaultNetwork \in Own["shadowsocks"].networks
      /\ Own["socks"].defaultNetwork \in Own["socks"].networks
      /\ Own["http"].defaultNetwork \in Own["http"].networks
  BY DEF XrayCapability
<1>2. /\ Own["hysteria2"].defaultNetwork \in Own["hysteria2"].networks
      /\ Own["tuic"].defaultNetwork \in Own["tuic"].networks
      /\ Own["shadowtls"].defaultNetwork \in Own["shadowtls"].networks
  BY DEF SingboxCapability
<1>3. /\ Own["shadowsocks"].securities = [default |-> {"none"}]
      /\ Own["socks"].securities = [default |-> {"none"}]
      /\ Own["http"].securities = [default |-> {"none"}]
  BY DEF XrayCapability
<1>4. Own["vmess"].securities = [default |-> {"none", "tls"}]
  BY DEF XrayCapability
<1>5. LET both == [n \in {"tcp", "grpc", "xhttp", "default"} |->
                      IF n = "default" THEN {"none", "tls"} ELSE inboundSecurities]
      IN  Own["vless"].securities = both /\ Own["trojan"].securities = both
  BY DEF XrayCapability
<1>6. /\ Own["hysteria2"].securities = [default |-> {"tls"}]
      /\ Own["tuic"].securities = [default |-> {"tls"}]
      /\ Own["shadowtls"].securities = [default |-> {"none"}]
  BY DEF SingboxCapability
<1>7. ASSUME NEW p \in inboundProtocols, NEW n PROVE Securities(Own[p], n) # {}
  <2> HIDE DEF Own, OnlyTransport
  <2> USE DEF Securities, inboundSecurities
  <2>1. CASE p \in {"shadowsocks", "socks", "http"}
    BY <1>3, <2>1
  <2>2. CASE p = "vmess"
    BY <1>4, <2>2
  <2>3. CASE p \in {"vless", "trojan"}
    BY <1>5, <2>3
  <2>4. CASE p \in SingboxProtocols
    BY <1>6, <2>4
  <2> QED
    BY <2>1, <2>2, <2>3, <2>4
<1> QED
  BY <1>1, <1>2, <1>7

\* An entry of the table has these fields.
LEMMA OwnEntries ==
    \A p \in inboundProtocols :
        DOMAIN Own[p] = {"networks", "defaultNetwork", "securities", "defaultSecurity",
                         "protocolFields", "securityFields", "credential"}
<1> DEFINE entry == {"networks", "defaultNetwork", "securities", "defaultSecurity",
                     "protocolFields", "securityFields", "credential"}
<1> USE DEF Own, inboundProtocols, XrayTransports, SingboxProtocols, OnlyTransport
<1>1. /\ DOMAIN Own["vless"] = entry
      /\ DOMAIN Own["vmess"] = entry
      /\ DOMAIN Own["trojan"] = entry
      /\ DOMAIN Own["shadowsocks"] = entry
      /\ DOMAIN Own["socks"] = entry
      /\ DOMAIN Own["http"] = entry
  BY DEF XrayCapability
<1>2. /\ DOMAIN Own["hysteria2"] = entry
      /\ DOMAIN Own["tuic"] = entry
      /\ DOMAIN Own["shadowtls"] = entry
  BY DEF SingboxCapability
<1> HIDE DEF Own, OnlyTransport, entry
<1> QED
  BY <1>1, <1>2 DEF entry

\* The server's table differs from the panel's own in the fields only.
LEMMA ServedEntries ==
    ASSUME NEW p \in inboundProtocols
    PROVE  LET own == Own[p]
               advanced == AdvancedOfServer(p, own)
           IN  /\ Served[p].networks = own.networks
               /\ Served[p].defaultNetwork = own.defaultNetwork
               /\ Served[p].securities = own.securities
               /\ Served[p].defaultSecurity = own.defaultSecurity
               /\ Served[p].credential = own.credential
               /\ Served[p].protocolFields = (advanced \cap own.protocolFields)
                                             \cup (advanced \ AllSecurityFields(own))
               /\ Served[p].securityFields =
                      [tls |-> IF "tls_cert" \in advanced THEN xrayTlsFields \cap advanced ELSE {},
                       reality |-> IF "reality_target" \in advanced
                                   THEN realityFields \cap advanced ELSE {}]
<1>1. Served[p] = normalizeCapabilityFromAPI(Own[p], AdvancedOfServer(p, Own[p]))
  BY DEF Served
<1>2. DOMAIN Own[p] = {"networks", "defaultNetwork", "securities", "defaultSecurity",
                       "protocolFields", "securityFields", "credential"}
  BY OwnEntries
<1> QED
  BY <1>1, <1>2 DEF normalizeCapabilityFromAPI

\* Whichever table is in force, it has the same combinations and credentials.
LEMMA TablesAgree ==
    ASSUME table \in {"own", "served"}, NEW p \in inboundProtocols
    PROVE  /\ Capability(p) \in {Own[p], Served[p]}
           /\ Capability(p).networks = Own[p].networks
           /\ Capability(p).defaultNetwork = Own[p].defaultNetwork
           /\ \A n : Securities(Capability(p), n) = Securities(Own[p], n)
           /\ inboundCredentialType(p) = Own[p].credential
<1>1. CASE table = "own"
  BY <1>1 DEF Capability, inboundCredentialType
<1>2. CASE table = "served"
  <2>1. Capability(p) = Served[p]
    BY <1>2 DEF Capability
  <2>2. /\ Served[p].networks = Own[p].networks
        /\ Served[p].defaultNetwork = Own[p].defaultNetwork
        /\ Served[p].securities = Own[p].securities
        /\ Served[p].credential = Own[p].credential
    BY ServedEntries
  <2> QED
    BY <2>1, <2>2 DEF Securities, inboundCredentialType
<1> QED
  BY <1>1, <1>2

\* The fields of the server's entry, for each kind of protocol.
LEMMA ServedFields ==
    /\ \A p \in {"vless", "trojan"} :
           /\ Served[p].protocolFields \subseteq TransportFields
           /\ Served[p].securityFields = [tls |-> xrayTlsFields, reality |-> realityFields]
    /\ Served["vmess"].protocolFields \subseteq TransportFields
    /\ Served["vmess"].securityFields["tls"] = xrayTlsFields
    /\ \A p \in {"hysteria2", "tuic"} :
           /\ Served[p].protocolFields = Own[p].protocolFields
           /\ singboxTlsFields \subseteq Served[p].securityFields["tls"]
    /\ \A p \in {"socks", "http", "shadowsocks", "shadowtls"} :
           Served[p].protocolFields = Own[p].protocolFields
<1> DEFINE adv(p) == AdvancedOfServer(p, Own[p])
<1>1. ASSUME NEW p \in {"vless", "trojan"}
      PROVE  /\ Served[p].protocolFields \subseteq TransportFields
             /\ Served[p].securityFields = [tls |-> xrayTlsFields, reality |-> realityFields]
  <2>1. p \in inboundProtocols
    BY DEF inboundProtocols, XrayTransports
  <2>2. adv(p) = TransportFields \cup xrayTlsFields \cup realityFields
    BY DEF AdvancedOfServer
  <2>3. /\ Own[p].protocolFields = {}
        /\ DOMAIN Own[p].securityFields = {"tls", "reality"}
        /\ Own[p].securityFields["tls"] = xrayTlsFields
        /\ Own[p].securityFields["reality"] = realityFields
    BY OwnFields
  <2>4. AllSecurityFields(Own[p]) = xrayTlsFields \cup realityFields
    BY <2>3 DEF AllSecurityFields
  <2>5. "tls_cert" \in xrayTlsFields /\ "reality_target" \in realityFields
    BY DEF xrayTlsFields, singboxTlsFields, realityFields
  <2>6. /\ Served[p].protocolFields = (adv(p) \cap Own[p].protocolFields)
                                      \cup (adv(p) \ AllSecurityFields(Own[p]))
        /\ Served[p].securityFields =
               [tls |-> IF "tls_cert" \in adv(p) THEN xrayTlsFields \cap adv(p) ELSE {},
                reality |-> IF "reality_target" \in adv(p) THEN realityFields \cap adv(p) ELSE {}]
    BY <2>1, ServedEntries
  <2> HIDE DEF adv
  <2>7. Served[p].protocolFields \subseteq TransportFields
    BY <2>2, <2>3, <2>4, <2>6
  <2>8. xrayTlsFields \cap adv(p) = xrayTlsFields /\ realityFields \cap adv(p) = realityFields
    BY <2>2
  <2>9. Served[p].securityFields = [tls |-> xrayTlsFields, reality |-> realityFields]
    BY <2>2, <2>5, <2>6, <2>8
  <2> QED
    BY <2>7, <2>9
<1>2. /\ Served["vmess"].protocolFields \subseteq TransportFields
      /\ Served["vmess"].securityFields["tls"] = xrayTlsFields
  <2>1. "vmess" \in inboundProtocols
    BY DEF inboundProtocols, XrayTransports
  <2>2. adv("vmess") = TransportFields \cup xrayTlsFields
    BY DEF AdvancedOfServer
  <2>3. /\ Own["vmess"].protocolFields = {}
        /\ DOMAIN Own["vmess"].securityFields = {"tls"}
        /\ Own["vmess"].securityFields["tls"] = xrayTlsFields
    BY OwnFields
  <2>4. AllSecurityFields(Own["vmess"]) = xrayTlsFields
    BY <2>3 DEF AllSecurityFields
  <2>5. "tls_cert" \in xrayTlsFields
    BY DEF xrayTlsFields, singboxTlsFields
  <2>6. /\ Served["vmess"].protocolFields = (adv("vmess") \cap Own["vmess"].protocolFields)
                                            \cup (adv("vmess") \ AllSecurityFields(Own["vmess"]))
        /\ Served["vmess"].securityFields =
               [tls |-> IF "tls_cert" \in adv("vmess") THEN xrayTlsFields \cap adv("vmess") ELSE {},
                reality |-> IF "reality_target" \in adv("vmess") THEN realityFields \cap adv("vmess")
                            ELSE {}]
    BY <2>1, ServedEntries
  <2> HIDE DEF adv
  <2>7. Served["vmess"].protocolFields \subseteq TransportFields
    BY <2>2, <2>3, <2>4, <2>6
  <2>8. Served["vmess"].securityFields["tls"] = xrayTlsFields
    BY <2>2, <2>5, <2>6
  <2> QED
    BY <2>7, <2>8
<1>3. ASSUME NEW p \in {"hysteria2", "tuic"}
      PROVE  /\ Served[p].protocolFields = Own[p].protocolFields
             /\ singboxTlsFields \subseteq Served[p].securityFields["tls"]
  <2>1. p \in inboundProtocols
    BY DEF inboundProtocols, SingboxProtocols
  <2>2. adv(p) = singboxTlsFields \cup Own[p].protocolFields
    BY DEF AdvancedOfServer
  <2>3. /\ DOMAIN Own[p].securityFields = {"tls"}
        /\ Own[p].securityFields["tls"] = singboxTlsFields
    BY OwnFields
  <2>4. AllSecurityFields(Own[p]) = singboxTlsFields
    BY <2>3 DEF AllSecurityFields
  <2>5. "tls_cert" \in singboxTlsFields /\ singboxTlsFields \subseteq xrayTlsFields
    BY DEF xrayTlsFields, singboxTlsFields
  <2>6. /\ Served[p].protocolFields = (adv(p) \cap Own[p].protocolFields)
                                      \cup (adv(p) \ AllSecurityFields(Own[p]))
        /\ Served[p].securityFields =
               [tls |-> IF "tls_cert" \in adv(p) THEN xrayTlsFields \cap adv(p) ELSE {},
                reality |-> IF "reality_target" \in adv(p) THEN realityFields \cap adv(p)
                            ELSE {}]
    BY <2>1, ServedEntries
  <2> HIDE DEF adv
  <2>7. Served[p].protocolFields = Own[p].protocolFields
    BY <2>2, <2>4, <2>6
  <2>8. singboxTlsFields \subseteq Served[p].securityFields["tls"]
    BY <2>2, <2>5, <2>6
  <2> QED
    BY <2>7, <2>8
<1>4. ASSUME NEW p \in {"socks", "http", "shadowsocks", "shadowtls"}
      PROVE  Served[p].protocolFields = Own[p].protocolFields
  <2>1. p \in inboundProtocols
    BY DEF inboundProtocols, XrayTransports, SingboxProtocols
  <2>2. adv(p) = Own[p].protocolFields
    BY DEF AdvancedOfServer
  <2>3. AllSecurityFields(Own[p]) = {}
    BY OwnFields DEF AllSecurityFields
  <2>4. Served[p].protocolFields = (adv(p) \cap Own[p].protocolFields)
                                   \cup (adv(p) \ AllSecurityFields(Own[p]))
    BY <2>1, ServedEntries
  <2> HIDE DEF adv
  <2> QED
    BY <2>2, <2>3, <2>4
<1> QED
  BY <1>1, <1>2, <1>3, <1>4

\* The fields of a security, in either table.
LEMMA SecurityFieldsFit ==
    ASSUME table \in {"own", "served"}, NEW p \in inboundProtocols, NEW s
    PROVE  LET c == Capability(p) IN
           /\ FieldsOfSecurity(Own[p], s) \subseteq FieldsOfSecurity(c, s)
           /\ s = "tls" => FieldsOfSecurity(c, s) \subseteq xrayTlsFields
           /\ s = "reality" => FieldsOfSecurity(c, s) \subseteq realityFields
           /\ s \notin {"tls", "reality"} => FieldsOfSecurity(c, s) = {}
<1>1. /\ s = "tls" => FieldsOfSecurity(Own[p], s) \subseteq xrayTlsFields
      /\ s = "reality" => FieldsOfSecurity(Own[p], s) \subseteq realityFields
      /\ s \notin {"tls", "reality"} => FieldsOfSecurity(Own[p], s) = {}
  <2>1. singboxTlsFields \subseteq xrayTlsFields
    BY DEF xrayTlsFields
  <2>2. CASE p \in {"vless", "trojan"}
    BY <2>2, OwnFields DEF FieldsOfSecurity
  <2>3. CASE p = "vmess"
    BY <2>3, OwnFields DEF FieldsOfSecurity
  <2>4. CASE p \in {"socks", "http", "shadowsocks", "shadowtls"}
    BY <2>4, OwnFields DEF FieldsOfSecurity
  <2>5. CASE p \in {"hysteria2", "tuic"}
    BY <2>1, <2>5, OwnFields DEF FieldsOfSecurity
  <2> QED
    BY <2>2, <2>3, <2>4, <2>5 DEF inboundProtocols, XrayTransports, SingboxProtocols
<1> DEFINE served == Served[p].securityFields
<1>2. PICK T, R : /\ served = [tls |-> T, reality |-> R]
                  /\ T \subseteq xrayTlsFields /\ R \subseteq realityFields
  <2> DEFINE adv == AdvancedOfServer(p, Own[p])
             T == IF "tls_cert" \in adv THEN xrayTlsFields \cap adv ELSE {}
             R == IF "reality_target" \in adv THEN realityFields \cap adv ELSE {}
  <2>1. served = [tls |-> T, reality |-> R]
    BY ServedEntries
  <2>2. T \subseteq xrayTlsFields /\ R \subseteq realityFields
    OBVIOUS
  <2> HIDE DEF T, R, served
  <2> QED
    BY <2>1, <2>2
<1>3. /\ s = "tls" => FieldsOfSecurity(Served[p], s) \subseteq xrayTlsFields
      /\ s = "reality" => FieldsOfSecurity(Served[p], s) \subseteq realityFields
      /\ s \notin {"tls", "reality"} => FieldsOfSecurity(Served[p], s) = {}
  BY <1>2 DEF FieldsOfSecurity
<1>4. FieldsOfSecurity(Own[p], s) \subseteq FieldsOfSecurity(Served[p], s)
  <2>1. CASE s \notin {"tls", "reality"}
    BY <1>1, <2>1
  <2>2. CASE s \in {"tls", "reality"}
    <3>1. FieldsOfSecurity(Served[p], s) = served[s]
      BY <1>2, <2>2 DEF FieldsOfSecurity
    <3>2. CASE p \in {"vless", "trojan"}
      <4>1. served = [tls |-> xrayTlsFields, reality |-> realityFields]
        BY <3>2, ServedFields
      <4>2. served["tls"] = xrayTlsFields /\ served["reality"] = realityFields
        BY <4>1
      <4> QED
        BY <1>1, <2>2, <3>1, <4>2
    <3>3. CASE p = "vmess"
      <4>1. CASE s = "tls"
        BY <1>1, <3>1, <3>3, <4>1, ServedFields
      <4>2. CASE s = "reality"
        BY <3>3, <4>2, OwnFields DEF FieldsOfSecurity
      <4> QED
        BY <2>2, <4>1, <4>2
    <3>4. CASE p \in {"socks", "http", "shadowsocks", "shadowtls"}
      BY <2>2, <3>4, OwnFields DEF FieldsOfSecurity
    <3>5. CASE p \in {"hysteria2", "tuic"}
      <4>1. CASE s = "tls"
        <5>1. FieldsOfSecurity(Own[p], s) = singboxTlsFields
          BY <3>5, <4>1, OwnFields DEF FieldsOfSecurity
        <5>2. singboxTlsFields \subseteq served["tls"]
          BY <3>5, ServedFields
        <5> QED
          BY <3>1, <4>1, <5>1, <5>2
      <4>2. CASE s = "reality"
        BY <3>5, <4>2, OwnFields DEF FieldsOfSecurity
      <4> QED
        BY <2>2, <4>1, <4>2
    <3> QED
      BY <3>2, <3>3, <3>4, <3>5 DEF inboundProtocols, XrayTransports, SingboxProtocols
  <2> QED
    BY <2>1, <2>2
<1>5. Capability(p) \in {Own[p], Served[p]}
  BY TablesAgree
<1> QED
  BY <1>1, <1>3, <1>4, <1>5

\* The inputs that the form shows for a protocol itself.
InputsOf(p) ==
    CASE p = "hysteria2" -> {"hy2_mbps", "hy2_obfs", "hy2_obfs_password"}
      [] p = "tuic" -> {"tuic_congestion_control", "tuic_zero_rtt"}
      [] p = "shadowtls" -> {"shadowtls_version"}
      [] OTHER -> {}

\* The fields of a protocol itself, in either table.
LEMMA ProtocolFieldsFit ==
    ASSUME table \in {"own", "served"}, NEW p \in inboundProtocols
    PROVE  LET c == Capability(p) IN
           /\ Own[p].protocolFields \subseteq c.protocolFields
           /\ c.protocolFields \subseteq InputsOf(p) \cup TransportFields \cup {"tls_sni", "ss_method"}
           /\ Own[p].protocolFields \subseteq advancedFields
<1>1. Own[p].protocolFields \subseteq InputsOf(p) \cup {"tls_sni", "ss_method"}
  BY OwnFields DEF InputsOf, inboundProtocols, XrayTransports, SingboxProtocols
<1>2. /\ Own[p].protocolFields \subseteq Served[p].protocolFields
      /\ Served[p].protocolFields \subseteq Own[p].protocolFields \cup TransportFields
  <2>1. CASE p \in {"vless", "trojan"}
    BY <2>1, OwnFields, ServedFields
  <2>2. CASE p = "vmess"
    BY <2>2, OwnFields, ServedFields
  <2>3. CASE p \in {"hysteria2", "tuic", "socks", "http", "shadowsocks", "shadowtls"}
    BY <2>3, ServedFields
  <2> QED
    BY <2>1, <2>2, <2>3 DEF inboundProtocols, XrayTransports, SingboxProtocols
<1>3. InputsOf(p) \cup {"tls_sni", "ss_method"} \subseteq advancedFields
  BY DEF InputsOf, advancedFields, xrayTlsFields, singboxTlsFields
<1>4. Capability(p) \in {Own[p], Served[p]}
  BY TablesAgree
<1> QED
  BY <1>1, <1>2, <1>3, <1>4

\* What a combination is made of.
LEMMA CombosAre ==
    ASSUME NEW x \in Combos
    PROVE  /\ x.protocol \in inboundProtocols
           /\ x.network \in Own[x.protocol].networks
           /\ x.security \in Securities(Own[x.protocol], x.network)
           /\ x = Combo(x.protocol, x.network, x.security)
<1>1. PICK p \in inboundProtocols :
          x \in UNION {{Combo(p, n, s) : s \in Securities(Own[p], n)} : n \in Own[p].networks}
  BY DEF Combos
<1>2. PICK n \in Own[p].networks : x \in {Combo(p, n, s) : s \in Securities(Own[p], n)}
  BY <1>1
<1>3. PICK s \in Securities(Own[p], n) : x = Combo(p, n, s)
  BY <1>2
<1> QED
  BY <1>3 DEF Combo

\* A protocol's own transport with one of its securities is in the table.
LEMMA CombosHave ==
    ASSUME NEW p \in inboundProtocols, NEW n \in Own[p].networks,
           NEW s \in Securities(Own[p], n)
    PROVE  Combo(p, n, s) \in Combos
BY DEF Combos

\* In every combination the form shows what is enabled, and enables, whichever
\* table is in force, what a stored inbound of the combination has.
LEMMA EnabledIsShown ==
    ASSUME table \in {"own", "served"}, NEW x \in Combos
    PROVE  /\ enabledInboundAdvancedFields(x) \subseteq Shown(x)
           /\ Used(x) \subseteq enabledInboundAdvancedFields(x)
           /\ Used(x) \subseteq advancedFields
<1> DEFINE p == x.protocol
           c == Capability(p)
           ofSecurity == CASE x.security = "reality" ->
                                {"reality_target", "reality_keys", "tls_fingerprint"}
                           [] x.security = "tls" -> {"tls_cert"} \cup
                                (enabledInboundAdvancedFields(x) \cap {"tls_fingerprint", "tls_alpn"})
                           [] OTHER -> {}
           fs == FieldsOfSecurity(c, x.security)
           ft == FieldsOfTransport(x.network)
<1>1. p \in inboundProtocols
  BY CombosAre
<1>2. /\ Own[p].protocolFields \subseteq c.protocolFields
      /\ c.protocolFields \subseteq InputsOf(p) \cup TransportFields \cup {"tls_sni", "ss_method"}
      /\ Own[p].protocolFields \subseteq advancedFields
  BY <1>1, ProtocolFieldsFit
<1>3. /\ FieldsOfSecurity(Own[p], x.security) \subseteq fs
      /\ x.security = "tls" => fs \subseteq xrayTlsFields
      /\ x.security = "reality" => fs \subseteq realityFields
      /\ x.security \notin {"tls", "reality"} => fs = {}
  BY <1>1, SecurityFieldsFit
<1>4. ft \subseteq TransportFields
  BY DEF FieldsOfTransport, TransportFields
<1>5. enabledInboundAdvancedFields(x) = c.protocolFields \cup fs \cup ft
  BY DEF enabledInboundAdvancedFields, EnabledBy
<1>6. Used(x) = Own[p].protocolFields \cup FieldsOfSecurity(Own[p], x.security) \cup ft
  BY DEF Used, EnabledBy
<1>7. Shown(x) = ofSecurity \cup (enabledInboundAdvancedFields(x) \cap
                     (InputsOf(p) \cup TransportFields \cup {"tls_sni", "reality_short_id", "ss_method"}))
  BY DEF Shown, InputsOf
<1> HIDE DEF c, p, fs, ft
<1>8. Used(x) \subseteq enabledInboundAdvancedFields(x)
  BY <1>2, <1>3, <1>5, <1>6
<1>9. Used(x) \subseteq advancedFields
  <2>1. xrayTlsFields \cup realityFields \cup TransportFields \subseteq advancedFields
    BY DEF advancedFields
  <2> QED
    BY <1>2, <1>3, <1>4, <1>6, <2>1
<1>10. fs \subseteq Shown(x)
  <2>1. fs \subseteq enabledInboundAdvancedFields(x)
    BY <1>5
  <2>2. CASE x.security = "tls"
    BY <1>3, <1>7, <2>1, <2>2 DEF xrayTlsFields, singboxTlsFields
  <2>3. CASE x.security = "reality"
    BY <1>3, <1>7, <2>1, <2>3 DEF realityFields
  <2> QED
    BY <1>3, <2>2, <2>3
<1>11. enabledInboundAdvancedFields(x) \subseteq Shown(x)
  <2> HIDE DEF ofSecurity
  <2> QED
    BY <1>2, <1>4, <1>5, <1>7, <1>10
<1> QED
  BY <1>8, <1>9, <1>11

\* The security that is taken instead is one of those that there are.
LEMMA PreferredIsOne ==
    ASSUME NEW c, NEW S, S # {}, NEW current
    PROVE  preferredInboundSecurity(c, S, current) \in S
<1>1. \E s \in S : s = "none" \/ "none" \notin S
  OBVIOUS
<1>2. (CHOOSE s \in S : s = "none" \/ "none" \notin S) \in S
  BY <1>1
<1> QED
  BY <1>2 DEF preferredInboundSecurity

\* Normalising a combination gives one of the table, of the same protocol, and
\* leaves those of the table alone.
LEMMA NormalizedFits ==
    ASSUME table \in {"own", "served"}, NEW p \in inboundProtocols, NEW n, NEW s
    PROVE  LET x == Combo(p, n, s)
               y == normalizeInboundCombination(x)
           IN  /\ y \in Combos /\ y.protocol = p
               /\ x \in Combos => y = x
<1> DEFINE x == Combo(p, n, s)
           c == Capability(p)
           network == IF n \in c.networks THEN n ELSE c.defaultNetwork
           S == Securities(c, network)
           security == IF s \in S THEN s ELSE preferredInboundSecurity(c, S, s)
<1>1. normalizeInboundCombination(x) = Combo(p, network, security)
  <2>1. x.protocol = p /\ x.network = n /\ x.security = s
    BY DEF Combo
  <2> DEFINE z == [x EXCEPT !.network = network]
  <2>2. normalizeInboundCombination(x) = [z EXCEPT !.security = security]
    BY <2>1 DEF normalizeInboundCombination, NormalizedBy
  <2> HIDE DEF network, security
  <2>3. z = [protocol |-> p, network |-> network, security |-> s]
    BY DEF Combo
  <2> HIDE DEF z
  <2>4. [z EXCEPT !.security = security] = [protocol |-> p, network |-> network, security |-> security]
    BY <2>3
  <2> QED
    BY <2>2, <2>4 DEF Combo
<1>2. /\ c.networks = Own[p].networks /\ c.defaultNetwork = Own[p].defaultNetwork
      /\ S = Securities(Own[p], network)
      /\ Own[p].defaultNetwork \in Own[p].networks
      /\ S # {}
  BY TablesAgree, OwnCombinations
<1>3. network \in Own[p].networks
  BY <1>2
<1>4. security \in S
  <2> HIDE DEF S, c
  <2> QED
    BY <1>2, PreferredIsOne
<1> HIDE DEF network, security, S, c
<1>5. Combo(p, network, security) \in Combos
  BY <1>2, <1>3, <1>4, CombosHave
<1>6. Combo(p, network, security).protocol = p
  BY DEF Combo
<1>7. ASSUME x \in Combos PROVE Combo(p, network, security) = x
  <2>1. x.protocol = p /\ x.network = n /\ x.security = s
    BY DEF Combo
  <2>2. n \in Own[p].networks /\ s \in Securities(Own[p], n)
    <3> HIDE DEF x
    <3> QED
      BY <1>7, <2>1, CombosAre
  <2>3. network = n
    BY <1>2, <2>2 DEF network
  <2>4. security = s
    BY <1>2, <2>2, <2>3 DEF security
  <2> QED
    BY <2>3, <2>4
<1> QED
  BY <1>1, <1>5, <1>6, <1>7

\* ... as an operator on combinations.
LEMMA NormalizedStays ==
    ASSUME table \in {"own", "served"}, NEW x \in Combos
    PROVE  normalizeInboundCombination(x) = x
<1>1. x.protocol \in inboundProtocols /\ x = Combo(x.protocol, x.network, x.security)
  BY CombosAre
<1> DEFINE p == x.protocol
           n == x.network
           s == x.security
<1>2. x = Combo(p, n, s) /\ p \in inboundProtocols
  BY <1>1
<1> HIDE DEF p, n, s
<1>3. normalizeInboundCombination(Combo(p, n, s)) = Combo(p, n, s)
  BY <1>2, NormalizedFits
<1> QED
  BY <1>2, <1>3

\* The credential types of the table.
LEMMA CredentialTypes ==
    \A p \in inboundProtocols :
        Own[p].credential \in {"uuid", "password", "username_password", "none",
                               "credential_id_password"}
<1> DEFINE types == {"uuid", "password", "username_password", "none", "credential_id_password"}
<1> USE DEF Own, inboundProtocols, XrayTransports, SingboxProtocols, OnlyTransport
<1>1. /\ Own["vless"].credential = "uuid" /\ Own["vmess"].credential = "uuid"
      /\ Own["trojan"].credential = "password" /\ Own["shadowsocks"].credential = "none"
      /\ Own["socks"].credential = "username_password"
      /\ Own["http"].credential = "username_password"
  BY DEF XrayCapability
<1>2. /\ Own["hysteria2"].credential = "password"
      /\ Own["tuic"].credential = "credential_id_password"
      /\ Own["shadowtls"].credential = "password"
  BY DEF SingboxCapability
<1> HIDE DEF Own, OnlyTransport
<1> QED
  BY <1>1, <1>2

\* The credentials that are generated for a protocol suit it.
LEMMA GeneratedSuit ==
    ASSUME table \in {"own", "served"}, NEW p \in inboundProtocols
    PROVE  Suits(p, generatedClientCredentials(p))
<1>1. inboundCredentialType(p) = Own[p].credential
  BY TablesAgree
<1> QED
  BY <1>1 DEF Suits, generatedClientCredentials, Credentials

\* And so do those with one that is typed or blanked where there is an input.
LEMMA TypedSuit ==
    ASSUME table \in {"own", "served"}, NEW p \in inboundProtocols, NEW c, Suits(p, c),
           NEW k \in CredentialInputs(p), NEW v \in {"none", "new", "word"}
    PROVE  Suits(p, [c EXCEPT ![k] = v])
<1>1. inboundCredentialType(p) = Own[p].credential
  BY TablesAgree
<1> QED
  BY <1>1 DEF Suits, CredentialInputs

\* The server accepts a first client that suits its protocol.
LEMMA SuitedAreAccepted ==
    ASSUME table \in {"own", "served"}, NEW p \in inboundProtocols, NEW c, Suits(p, c)
    PROVE  \/ ValidClientCredential(p, normalizeClientCredentials(p, buildClientPayload(p, c)))
           \/ "id" \in CredentialInputs(p) /\ c.id = "word"
<1>1. inboundCredentialType(p) = Own[p].credential
  BY TablesAgree
<1>2. Own[p].credential \in {"uuid", "password", "username_password", "none",
                             "credential_id_password"}
  BY CredentialTypes
<1> USE <1>1 DEF ValidClientCredential, buildClientPayload, normalizeClientCredentials,
                 Credentials, Or, Suits
<1>3. CASE Own[p].credential = "uuid"
  BY <1>3
<1>4. CASE Own[p].credential = "password"
  BY <1>4
<1>5. CASE Own[p].credential = "username_password"
  BY <1>5
<1>6. CASE Own[p].credential = "none"
  BY <1>6
<1>7. CASE Own[p].credential = "credential_id_password"
  BY <1>7 DEF CredentialInputs
<1> QED
  BY <1>2, <1>3, <1>4, <1>5, <1>6, <1>7

\* What was sent is not changed by what comes after it.
LEMMA SentStays ==
    ASSUME RefusedForAnInput, SentAsShown, UNCHANGED sent, UNCHANGED sentClient,
           table' = table \/ sent = NoForm
    PROVE  RefusedForAnInput' /\ SentAsShown'
<1>1. SentAsShown'
  BY DEF SentAsShown, UntouchedIsKept, NothingHiddenIsSent
<1>2. CASE table' = table
  <2>1. RefusedForAnInput'
    BY <1>2 DEF RefusedForAnInput, ValidateInboundCombination, CredentialInputs,
                inboundCredentialType, Capability
  <2> QED
    BY <1>1, <2>1
<1>3. CASE sent = NoForm
  BY <1>1, <1>3 DEF RefusedForAnInput, NoForm
<1> QED
  BY <1>2, <1>3

\* What a change makes of the form, before it is counted.
Changed(next) ==
    /\ DOMAIN next = DOMAIN form
    /\ next.open = TRUE /\ next.edits = form.edits /\ next.exists = form.exists
    /\ next.withClient \in BOOLEAN /\ (next.exists => ~next.withClient)
    /\ next.combo \in Combos
    /\ next.fields \in [advancedFields -> Values]
    /\ ~next.exists => Suits(next.combo.protocol, next.client)

\* A change of an open form keeps the invariant; a request for keys is one.
LEMMA EditKeeps ==
    ASSUME FormInv, NEW next, form.open => Changed(next), Edit(next),
           keysAsked' \in {keysAsked, keysAsked + 1}
    PROVE  FormInv'
<1>1. form.open /\ form.edits < MaxEdits /\ form' = [next EXCEPT !.edits = @ + 1]
      /\ table' = table /\ sent' = sent /\ sentClient' = sentClient
  BY DEF Edit
<1>2. FormHolds /\ keysAsked <= form.edits
  BY <1>1 DEF FormInv, NoForm
<1>3. form.edits \in 0..MaxEdits /\ keysAsked \in Nat /\ MaxEdits \in Nat
  BY <1>2, MaxEditsAssumption DEF FormInv, FormHolds, IsForm
<1>4. /\ DOMAIN next = {"open", "exists", "combo", "fields", "client", "withClient", "opened", "edits"}
      /\ next.open = TRUE /\ next.edits = form.edits
  BY <1>1, <1>2 DEF FormHolds, IsForm, Changed
<1>5. /\ DOMAIN form' = DOMAIN next
      /\ form'.edits = form.edits + 1
      /\ form'.open = next.open /\ form'.exists = next.exists /\ form'.withClient = next.withClient
      /\ form'.combo = next.combo /\ form'.fields = next.fields /\ form'.client = next.client
  BY <1>1, <1>4
<1>6. /\ form'.edits \in 0..MaxEdits /\ form'.edits # 0
      /\ keysAsked' \in Nat /\ keysAsked' <= form'.edits
  BY <1>1, <1>2, <1>3, <1>5
<1>7. form'.exists \in BOOLEAN /\ form'.withClient \in BOOLEAN
  BY <1>1, <1>2, <1>5 DEF Changed, FormHolds, IsForm
<1>8. IsForm(form')
  BY <1>1, <1>4, <1>5, <1>6, <1>7 DEF Changed, IsForm
<1>9. ~form'.exists => Suits(form'.combo.protocol, form'.client)
  BY <1>1, <1>5 DEF Changed
<1>10. form'.exists => ~form'.withClient
  BY <1>1, <1>5 DEF Changed
<1>11. FormHolds'
  BY <1>6, <1>8, <1>9, <1>10 DEF FormHolds
<1>12. RefusedForAnInput' /\ SentAsShown'
  BY <1>1, SentStays DEF FormInv
<1> QED
  BY <1>1, <1>6, <1>11, <1>12 DEF FormInv

\* The fields of a template and of a change of the combination.
LEMMA FieldsAreValues ==
    ASSUME NEW fields \in [advancedFields -> Values]
    PROVE  /\ \A t : FieldsOfTemplate(fields, t) \in [advancedFields -> Values]
           /\ \A x : Sanitized(fields, x) \in [advancedFields -> Values]
           /\ \A x : Stored(x) \in [advancedFields -> Values]
           /\ Blank \in [advancedFields -> Values]
<1>1. \A t : FieldsOfTemplate(fields, t) \in [advancedFields -> Values]
  BY DEF FieldsOfTemplate, Values
<1>2. \A x : Sanitized(fields, x) \in [advancedFields -> Values]
  BY DEF Sanitized, Values
<1>3. \A x : Stored(x) \in [advancedFields -> Values]
  BY DEF Stored, Values
<1>4. Blank \in [advancedFields -> Values]
  BY DEF Blank, Values
<1> QED
  BY <1>1, <1>2, <1>3, <1>4

\* The first client of a form whose protocol becomes p.
LEMMA ClientSuits ==
    ASSUME FormHolds, ~form.exists, table \in {"own", "served"}, NEW p \in inboundProtocols
    PROVE  Suits(p, ClientFor(p))
BY GeneratedSuit DEF ClientFor, FormHolds

\* sanitizeInboundFormValues keeps the invariant, whatever combination and
\* whatever client of its protocol it is given.
LEMMA SanitizeKeeps ==
    ASSUME FormInv, NEW p \in inboundProtocols, NEW n, NEW s, NEW client,
           form.open /\ ~form.exists => Suits(p, client),
           Sanitize(Combo(p, n, s), client)
    PROVE  FormInv'
<1> DEFINE y == normalizeInboundCombination(Combo(p, n, s))
           next == [form EXCEPT !.combo = y, !.fields = Sanitized(@, y), !.client = client]
<1>1. y \in Combos /\ y.protocol = p
  BY NormalizedFits DEF FormInv
<1>2. Edit(next) /\ keysAsked' = keysAsked
  BY DEF Sanitize
<1>3. ASSUME form.open PROVE Changed(next)
  <2>1. FormHolds
    BY <1>3 DEF FormInv, NoForm
  <2>2. Sanitized(form.fields, y) \in [advancedFields -> Values]
    BY <2>1, FieldsAreValues DEF FormHolds, IsForm
  <2> HIDE DEF y
  <2>3. /\ DOMAIN next = DOMAIN form
        /\ next.open = form.open /\ next.edits = form.edits /\ next.exists = form.exists
        /\ next.withClient = form.withClient
        /\ next.combo = y /\ next.fields = Sanitized(form.fields, y) /\ next.client = client
    BY <2>1 DEF FormHolds, IsForm
  <2> HIDE DEF next
  <2> QED
    BY <1>1, <1>3, <2>1, <2>2, <2>3 DEF Changed, FormHolds, IsForm
<1> HIDE DEF next
<1> QED
  BY <1>2, <1>3, EditKeeps

\* Every template is one of a protocol.
LEMMA TemplatesAre ==
    ASSUME NEW id \in DOMAIN inboundTemplates
    PROVE  \E p \in inboundProtocols : \E n, s : inboundTemplates[id].combo = Combo(p, n, s)
<1>1. id \in {"recommended", "compatible", "password", "light", "localSocks", "localHttp",
              "udpFast", "lowLatency", "handshakeMask"}
  BY DEF inboundTemplates
<1>2. /\ inboundTemplates["recommended"].combo = Combo("vless", "tcp", "reality")
      /\ inboundTemplates["compatible"].combo = Combo("vmess", "ws", "tls")
      /\ inboundTemplates["password"].combo = Combo("trojan", "tcp", "tls")
      /\ inboundTemplates["light"].combo = Combo("shadowsocks", "tcp", "none")
      /\ inboundTemplates["localSocks"].combo = Combo("socks", "tcp", "none")
      /\ inboundTemplates["localHttp"].combo = Combo("http", "tcp", "none")
      /\ inboundTemplates["udpFast"].combo = Combo("hysteria2", "udp", "tls")
      /\ inboundTemplates["lowLatency"].combo = Combo("tuic", "udp", "tls")
      /\ inboundTemplates["handshakeMask"].combo = Combo("shadowtls", "tcp", "none")
  BY DEF inboundTemplates, Template
<1>3. {"vless", "vmess", "trojan", "shadowsocks", "socks", "http", "hysteria2", "tuic",
       "shadowtls"} \subseteq inboundProtocols
  BY DEF inboundProtocols, XrayTransports, SingboxProtocols
<1> QED
  BY <1>1, <1>2, <1>3

\* ApplyTemplate.
LEMMA TemplateKeeps ==
    \A id \in DOMAIN inboundTemplates : FormInv /\ ApplyTemplate(id) => FormInv'
<1> SUFFICES ASSUME NEW id \in DOMAIN inboundTemplates, FormInv, ApplyTemplate(id)
             PROVE  FormInv'
  OBVIOUS
<1>1. PICK p \in inboundProtocols : \E n, s : inboundTemplates[id].combo = Combo(p, n, s)
  BY TemplatesAre
<1>2. PICK n, s : inboundTemplates[id].combo = Combo(p, n, s)
  BY <1>1
<1> DEFINE t == inboundTemplates[id]
           y == normalizeInboundCombination(t.combo)
           client == ClientFor(t.combo.protocol)
           next == [form EXCEPT !.combo = y, !.fields = FieldsOfTemplate(@, t), !.client = client]
<1>3. y \in Combos /\ y.protocol = p
  BY <1>2, NormalizedFits DEF FormInv
<1>4. t.combo.protocol = p
  BY <1>2 DEF Combo
<1>5. Edit(next) /\ keysAsked' = keysAsked
  BY DEF ApplyTemplate
<1>6. ASSUME form.open PROVE Changed(next)
  <2>1. FormHolds
    BY <1>6 DEF FormInv, NoForm
  <2>2. FieldsOfTemplate(form.fields, t) \in [advancedFields -> Values]
    BY <2>1, FieldsAreValues DEF FormHolds, IsForm
  <2>3. ~form.exists => Suits(p, client)
    BY <1>4, <2>1, ClientSuits DEF FormInv
  <2> HIDE DEF y, client, t
  <2>4. /\ DOMAIN next = DOMAIN form
        /\ next.open = form.open /\ next.edits = form.edits /\ next.exists = form.exists
        /\ next.withClient = form.withClient
        /\ next.combo = y /\ next.fields = FieldsOfTemplate(form.fields, t)
        /\ next.client = client
    BY <2>1 DEF FormHolds, IsForm
  <2> HIDE DEF next
  <2> QED
    BY <1>3, <1>6, <2>1, <2>2, <2>3, <2>4 DEF Changed, FormHolds, IsForm
<1> HIDE DEF next
<1> QED
  BY <1>5, <1>6, EditKeeps

\* ChooseProtocol, ChooseNetwork and ChooseSecurity.
LEMMA ChoicesKeep ==
    FormInv /\ (\/ \E p \in inboundProtocols : ChooseProtocol(p)
                \/ \E n : ChooseNetwork(n)
                \/ \E s : ChooseSecurity(s))
        => FormInv'
<1> SUFFICES ASSUME FormInv,
                    \/ \E p \in inboundProtocols : ChooseProtocol(p)
                    \/ \E n : ChooseNetwork(n)
                    \/ \E s : ChooseSecurity(s)
             PROVE  FormInv'
  OBVIOUS
<1>1. form.open => FormHolds
  BY DEF FormInv, NoForm
<1>2. ASSUME NEW p \in inboundProtocols, ChooseProtocol(p) PROVE FormInv'
  <2> DEFINE n == Capability(p).defaultNetwork
             s == Capability(p).defaultSecurity
  <2>1. Sanitize(Combo(p, n, s), ClientFor(p))
    BY <1>2 DEF ChooseProtocol
  <2>2. form.open /\ ~form.exists => Suits(p, ClientFor(p))
    BY <1>1, ClientSuits DEF FormInv
  <2> HIDE DEF n, s
  <2> QED
    BY <2>1, <2>2, SanitizeKeeps
<1> DEFINE p == form.combo.protocol
           n == form.combo.network
           s == form.combo.security
<1>3. ASSUME form.open
      PROVE  /\ p \in inboundProtocols
             /\ \A x : [form.combo EXCEPT !.network = x] = Combo(p, x, s)
             /\ \A x : [form.combo EXCEPT !.security = x] = Combo(p, n, x)
             /\ ~form.exists => Suits(p, form.client)
  <2>1. form.combo \in Combos
    BY <1>1, <1>3 DEF FormHolds, IsForm
  <2>2. p \in inboundProtocols /\ form.combo = Combo(p, n, s)
    BY <2>1, CombosAre
  <2>3. ~form.exists => Suits(p, form.client)
    BY <1>1, <1>3 DEF FormHolds
  <2> QED
    <3> HIDE DEF p, n, s
    <3> QED
      BY <2>2, <2>3 DEF Combo
<1>4. ASSUME NEW x, ChooseNetwork(x) PROVE FormInv'
  <2>1. form.open /\ Sanitize([form.combo EXCEPT !.network = x], form.client)
    BY <1>4 DEF ChooseNetwork
  <2>2. Sanitize(Combo(p, x, s), form.client)
    BY <1>3, <2>1
  <2> QED
    BY <1>3, <2>1, <2>2, SanitizeKeeps
<1>5. ASSUME NEW x, ChooseSecurity(x) PROVE FormInv'
  <2>1. form.open /\ Sanitize([form.combo EXCEPT !.security = x], form.client)
    BY <1>5 DEF ChooseSecurity
  <2>2. Sanitize(Combo(p, n, x), form.client)
    BY <1>3, <2>1
  <2> QED
    BY <1>3, <2>1, <2>2, SanitizeKeeps
<1> QED
  BY <1>2, <1>4, <1>5

\* A change of one field.
LEMMA FieldChanges ==
    ASSUME FormHolds, NEW fields \in [advancedFields -> Values]
    PROVE  Changed([form EXCEPT !.fields = fields])
<1> DEFINE next == [form EXCEPT !.fields = fields]
<1>1. /\ DOMAIN next = DOMAIN form
      /\ next.open = form.open /\ next.edits = form.edits /\ next.exists = form.exists
      /\ next.withClient = form.withClient
      /\ next.combo = form.combo /\ next.fields = fields /\ next.client = form.client
  BY DEF FormHolds, IsForm
<1> HIDE DEF next
<1>2. Changed(next)
  BY <1>1 DEF Changed, FormHolds, IsForm
<1> QED
  BY <1>2 DEF next

\* A value set in one field.
LEMMA FieldIsSet ==
    ASSUME FormHolds, NEW g, Changed(g), NEW k, NEW v \in Values
    PROVE  Changed([g EXCEPT !.fields[k] = v])
<1> DEFINE next == [g EXCEPT !.fields[k] = v]
<1>1. /\ DOMAIN next = DOMAIN g
      /\ next.open = g.open /\ next.edits = g.edits /\ next.exists = g.exists
      /\ next.withClient = g.withClient
      /\ next.combo = g.combo /\ next.fields = [g.fields EXCEPT ![k] = v] /\ next.client = g.client
  BY DEF FormHolds, IsForm, Changed
<1>2. next.fields \in [advancedFields -> Values]
  BY <1>1 DEF Changed
<1> HIDE DEF next
<1>3. Changed(next)
  BY <1>1, <1>2 DEF Changed
<1> QED
  BY <1>3 DEF next

\* Type, AttachCert and ClearReality.
LEMMA TypingKeeps ==
    FormInv /\ (\/ form.open /\ \E f \in Shown(form.combo) : \E value \in {"own", "none"} : Type(f, value)
                \/ \E same, domain \in BOOLEAN : AttachCert(same, domain)
                \/ ClearReality)
        => FormInv'
<1> SUFFICES ASSUME FormInv, form.open,
                    \/ \E f \in Shown(form.combo) : \E value \in {"own", "none"} : Type(f, value)
                    \/ \E same, domain \in BOOLEAN : AttachCert(same, domain)
                    \/ ClearReality
             PROVE  FormInv'
  BY DEF AttachCert, ClearReality
<1>1. FormHolds /\ form.fields \in [advancedFields -> Values] /\ Changed(form)
  BY DEF FormInv, NoForm, FormHolds, IsForm, Changed
<1>2. \E next : Changed(next) /\ Edit(next) /\ keysAsked' = keysAsked
  <2>1. ASSUME NEW f, NEW value \in {"own", "none"}, Type(f, value)
        PROVE  \E next : Changed(next) /\ Edit(next) /\ keysAsked' = keysAsked
    <3>1. Edit([form EXCEPT !.fields[f] = value]) /\ keysAsked' = keysAsked
      BY <2>1 DEF Type
    <3>2. Changed([form EXCEPT !.fields[f] = value])
      BY <1>1, FieldIsSet DEF Values
    <3> QED
      BY <3>1, <3>2
  <2>2. ASSUME NEW same \in BOOLEAN, NEW domain \in BOOLEAN, AttachCert(same, domain)
        PROVE  \E next : Changed(next) /\ Edit(next) /\ keysAsked' = keysAsked
    <3> DEFINE f == form.fields
               syncs == /\ form.combo.network \in {"ws", "h2"}
                        /\ \/ f["ws_host"] \in {"none", "seed"}
                           \/ f["ws_host"] = f["tls_sni"] /\ (same \/ f["ws_host"] = "cert")
               sni == IF domain THEN "cert" ELSE f["tls_sni"]
               host == IF domain /\ syncs THEN "cert" ELSE f["ws_host"]
               g1 == [form EXCEPT !.fields["tls_cert"] = "cert"]
               g2 == [g1 EXCEPT !.fields["tls_sni"] = sni]
               g3 == [g2 EXCEPT !.fields["ws_host"] = host]
    <3>1. Edit([form EXCEPT !.fields["tls_cert"] = "cert", !.fields["tls_sni"] = sni,
                            !.fields["ws_host"] = host])
          /\ keysAsked' = keysAsked
      BY <2>2 DEF AttachCert
    <3>2. "cert" \in Values /\ sni \in Values /\ host \in Values
      <4> HIDE DEF syncs
      <4>1. {"tls_sni", "ws_host"} \subseteq advancedFields
        BY DEF advancedFields, xrayTlsFields, singboxTlsFields, TransportFields, WSFields
      <4>2. f["tls_sni"] \in Values /\ f["ws_host"] \in Values
        BY <1>1, <4>1
      <4> QED
        BY <4>2 DEF Values
    <3> HIDE DEF sni, host
    <3>3. [form EXCEPT !.fields["tls_cert"] = "cert", !.fields["tls_sni"] = sni,
                       !.fields["ws_host"] = host] = g3
      OBVIOUS
    <3>4. Changed(g1)
      BY <1>1, <3>2, FieldIsSet
    <3> HIDE DEF g1
    <3>5. Changed(g2)
      BY <1>1, <3>2, <3>4, FieldIsSet
    <3> HIDE DEF g2
    <3>6. Changed(g3)
      BY <1>1, <3>2, <3>5, FieldIsSet
    <3> QED
      BY <3>1, <3>3, <3>6
  <2>3. ASSUME ClearReality
        PROVE  \E next : Changed(next) /\ Edit(next) /\ keysAsked' = keysAsked
    <3> DEFINE fields == [f \in advancedFields |->
                              IF f \in realityFields \ {"tls_fingerprint"} THEN "none"
                              ELSE form.fields[f]]
    <3>1. fields \in [advancedFields -> Values]
      BY <1>1 DEF Values
    <3>2. Edit([form EXCEPT !.fields = fields]) /\ keysAsked' = keysAsked
      BY <2>3 DEF ClearReality
    <3> HIDE DEF fields
    <3>3. Changed([form EXCEPT !.fields = fields])
      BY <1>1, <3>1, FieldChanges
    <3> QED
      BY <3>2, <3>3
  <2> QED
    BY <2>1, <2>2, <2>3
<1>3. PICK next : Changed(next) /\ Edit(next) /\ keysAsked' = keysAsked
  BY <1>2
<1> QED
  BY <1>3, EditKeeps

\* AskKeys.
LEMMA AskKeysKeeps == FormInv /\ AskKeys => FormInv'
<1> SUFFICES ASSUME FormInv, AskKeys PROVE FormInv'
  OBVIOUS
<1>1. form.open /\ Edit(form) /\ keysAsked' = keysAsked + 1
  BY DEF AskKeys
<1>2. FormHolds
  BY <1>1 DEF FormInv, NoForm
<1>3. Changed(form)
  BY <1>1, <1>2 DEF FormHolds, IsForm, Changed
<1> QED
  BY <1>1, <1>3, EditKeeps

\* ToggleClient, of a new inbound only.
LEMMA ToggleClientKeeps == FormInv /\ ToggleClient => FormInv'
<1> SUFFICES ASSUME FormInv, ToggleClient PROVE FormInv'
  OBVIOUS
<1> DEFINE next == [form EXCEPT !.withClient = ~@]
<1>1. form.open /\ ~form.exists /\ Edit(next) /\ keysAsked' = keysAsked
  BY DEF ToggleClient
<1>2. FormHolds
  BY <1>1 DEF FormInv, NoForm
<1>3. /\ DOMAIN next = DOMAIN form
      /\ next.open = form.open /\ next.edits = form.edits /\ next.exists = form.exists
      /\ next.combo = form.combo /\ next.fields = form.fields /\ next.client = form.client
  BY <1>2 DEF FormHolds, IsForm
<1>4. next.withClient \in BOOLEAN
  BY <1>2 DEF FormHolds, IsForm
<1> HIDE DEF next
<1>5. Changed(next)
  BY <1>1, <1>2, <1>3, <1>4 DEF Changed, FormHolds, IsForm
<1> QED
  BY <1>1, <1>5, EditKeeps

\* TypeCredential and RegenerateClient, of a new inbound's first client.
LEMMA CredentialsKeep ==
    FormInv /\ (\/ RegenerateClient
                \/ \E k \in {"uuid", "id", "password"} : \E value \in {"none", "new", "word"} :
                       TypeCredential(k, value))
        => FormInv'
<1> SUFFICES ASSUME FormInv,
                    \/ RegenerateClient
                    \/ \E k \in {"uuid", "id", "password"} : \E value \in {"none", "new", "word"} :
                           TypeCredential(k, value)
             PROVE  FormInv'
  OBVIOUS
<1> DEFINE p == form.combo.protocol
<1>1. form.open /\ ~form.exists /\ keysAsked' = keysAsked
  BY DEF RegenerateClient, TypeCredential
<1>2. FormHolds /\ table \in {"own", "served"}
  BY <1>1 DEF FormInv, NoForm
<1>3. p \in inboundProtocols
  BY <1>2, CombosAre DEF FormHolds, IsForm
<1>4. ASSUME NEW client, Suits(p, client) PROVE Changed([form EXCEPT !.client = client])
  <2> DEFINE next == [form EXCEPT !.client = client]
  <2>1. /\ DOMAIN next = DOMAIN form
        /\ next.open = form.open /\ next.edits = form.edits /\ next.exists = form.exists
        /\ next.withClient = form.withClient
        /\ next.combo = form.combo /\ next.fields = form.fields /\ next.client = client
    BY <1>2 DEF FormHolds, IsForm
  <2> HIDE DEF next
  <2>2. Changed(next)
    BY <1>2, <1>4, <2>1 DEF Changed, FormHolds, IsForm
  <2> QED
    BY <2>2 DEF next
<1>5. \E client : Suits(p, client) /\ Edit([form EXCEPT !.client = client])
  <2>1. CASE RegenerateClient
    BY <1>2, <1>3, <2>1, GeneratedSuit DEF RegenerateClient
  <2>2. ASSUME NEW k, NEW value \in {"none", "new", "word"}, TypeCredential(k, value)
        PROVE  \E client : Suits(p, client) /\ Edit([form EXCEPT !.client = client])
    <3>1. k \in CredentialInputs(p) /\ Edit([form EXCEPT !.client[k] = value])
      BY <2>2 DEF TypeCredential
    <3>2. Suits(p, form.client)
      BY <1>1, <1>2 DEF FormHolds
    <3>3. Suits(p, [form.client EXCEPT ![k] = value])
      BY <1>2, <1>3, <3>1, <3>2, TypedSuit
    <3>4. Edit([form EXCEPT !.client = [form.client EXCEPT ![k] = value]])
      <4>1. [form EXCEPT !.client[k] = value]
                = [form EXCEPT !.client = [form.client EXCEPT ![k] = value]]
        OBVIOUS
      <4> QED
        BY <3>1, <4>1
    <3> QED
      BY <3>3, <3>4
  <2> QED
    BY <2>1, <2>2
<1>6. PICK client : Suits(p, client) /\ Edit([form EXCEPT !.client = client])
  BY <1>5
<1> QED
  BY <1>1, <1>4, <1>6, EditKeeps

\* KeysArrive: an answer is only for a form that has been changed.
LEMMA KeysKeep == FormInv /\ KeysArrive => FormInv'
<1> SUFFICES ASSUME FormInv, KeysArrive PROVE FormInv'
  OBVIOUS
<1>1. /\ form.open /\ keysAsked > 0 /\ keysAsked' = keysAsked - 1
      /\ form' = [form EXCEPT !.fields["reality_keys"] = "seed"]
      /\ table' = table /\ sent' = sent /\ sentClient' = sentClient
  BY DEF KeysArrive
<1>2. FormHolds /\ keysAsked <= form.edits /\ keysAsked \in Nat
  BY <1>1 DEF FormInv, NoForm
<1>3. form.edits \in 0..MaxEdits /\ form.edits # 0
  BY <1>1, <1>2, MaxEditsAssumption DEF FormHolds, IsForm
<1>4. Changed(form)
  BY <1>1, <1>2 DEF FormHolds, IsForm, Changed
<1>5. Changed(form')
  BY <1>1, <1>2, <1>4, FieldIsSet DEF Values
<1>6. form'.edits = form.edits /\ keysAsked' \in Nat /\ keysAsked' <= form'.edits
  BY <1>1, <1>2, <1>3, <1>5 DEF Changed
<1>7. IsForm(form')
  BY <1>2, <1>5 DEF Changed, FormHolds, IsForm
<1>8. ~form'.exists => Suits(form'.combo.protocol, form'.client)
  BY <1>1, <1>5 DEF Changed
<1>9. form'.exists => ~form'.withClient
  BY <1>5 DEF Changed
<1>10. FormHolds'
  BY <1>3, <1>6, <1>7, <1>8, <1>9 DEF FormHolds
<1>11. RefusedForAnInput' /\ SentAsShown'
  BY <1>1, SentStays DEF FormInv
<1> QED
  BY <1>1, <1>6, <1>10, <1>11 DEF FormInv

\* TableArrives: the combinations and credentials are the same in the server's table.
LEMMA TableKeeps == FormInv /\ TableArrives => FormInv'
<1> SUFFICES ASSUME FormInv, TableArrives PROVE FormInv'
  OBVIOUS
<1>1. /\ table' = "served" /\ form' = form /\ keysAsked' = keysAsked
      /\ sent = NoForm /\ sent' = sent /\ sentClient' = sentClient
  BY DEF TableArrives
<1>2. RefusedForAnInput' /\ SentAsShown'
  BY <1>1, SentStays DEF FormInv
<1>3. ASSUME FormHolds PROVE FormHolds'
  BY <1>1, <1>3 DEF FormHolds
<1> QED
  BY <1>1, <1>2, <1>3 DEF FormInv

\* A form as it is opened.
LEMMA OpensKeep ==
    ASSUME FormInv, AtRest, NEW exists \in BOOLEAN, NEW x, NEW fields \in [advancedFields -> Values],
           \E p \in inboundProtocols : \E n, s : x = Combo(p, n, s),
           exists => x \in Combos /\ fields = Stored(x),
           form' = Opened(exists, x, fields), UNCHANGED <<table, keysAsked, sent, sentClient>>
    PROVE  FormInv'
<1>1. PICK p \in inboundProtocols : \E n, s : x = Combo(p, n, s)
  OBVIOUS
<1>2. PICK n, s : x = Combo(p, n, s)
  BY <1>1
<1>3. x.protocol = p
  BY <1>2 DEF Combo
<1> DEFINE y == normalizeInboundCombination(x)
<1>4. y \in Combos /\ y.protocol = p /\ (x \in Combos => y = x)
  BY <1>2, NormalizedFits DEF FormInv
<1>5. keysAsked = 0
  BY DEF FormInv, AtRest, NoForm, FormHolds, IsForm
<1>6. form' = [open |-> TRUE, exists |-> exists, combo |-> y, fields |-> fields,
               client |-> generatedClientCredentials(p), withClient |-> ~exists,
               opened |-> x, edits |-> 0]
  BY <1>3 DEF Opened
<1> HIDE DEF y
<1> DEFINE client == generatedClientCredentials(p)
<1> HIDE DEF client
<1>7. /\ form'.exists = exists /\ form'.combo = y /\ form'.fields = fields
      /\ form'.client = client /\ form'.withClient = ~exists /\ form'.opened = x
      /\ form'.edits = 0 /\ form'.open = TRUE
  BY <1>6 DEF client
<1>8. IsForm(form')
  <2>1. DOMAIN form' = {"open", "exists", "combo", "fields", "client", "withClient",
                        "opened", "edits"}
    BY <1>6
  <2>2. 0 \in 0..MaxEdits
    BY MaxEditsAssumption
  <2> QED
    BY <1>4, <1>7, <2>1, <2>2 DEF IsForm
<1>9. Suits(form'.combo.protocol, form'.client)
  BY <1>4, <1>7, GeneratedSuit DEF client, FormInv
<1>10. form'.exists /\ form'.edits = 0 => form'.opened = form'.combo
                                          /\ form'.fields = Stored(form'.combo) /\ keysAsked' = 0
  BY <1>4, <1>5, <1>7
<1>11. FormHolds'
  <2>1. Stored(form.combo)' = Stored(form'.combo)
    BY DEF Stored, Used, EnabledBy
  <2> QED
    BY <1>7, <1>8, <1>9, <1>10, <2>1 DEF FormHolds
<1>12. RefusedForAnInput' /\ SentAsShown'
  BY SentStays DEF FormInv
<1> QED
  BY <1>5, <1>7, <1>11, <1>12 DEF FormInv

\* OpenNew and OpenExisting.
LEMMA OpeningsKeep ==
    FormInv /\ (OpenNew \/ \E x \in Combos : OpenExisting(x)) => FormInv'
<1> SUFFICES ASSUME FormInv, OpenNew \/ \E x \in Combos : OpenExisting(x) PROVE FormInv'
  OBVIOUS
<1>1. Blank \in [advancedFields -> Values]
  BY DEF Blank, Values
<1>2. CASE OpenNew
  <2> DEFINE t == inboundTemplates.recommended
             fields == FieldsOfTemplate(Blank, t)
  <2>1. fields \in [advancedFields -> Values]
    BY <1>1, FieldsAreValues
  <2>2. AtRest /\ form' = Opened(FALSE, t.combo, fields)
        /\ UNCHANGED <<table, keysAsked, sent, sentClient>>
    BY <1>2 DEF OpenNew
  <2>3. \E p \in inboundProtocols : \E n, s : t.combo = Combo(p, n, s)
    <3>1. "recommended" \in DOMAIN inboundTemplates
      BY DEF inboundTemplates
    <3>2. \E p \in inboundProtocols : \E n, s : inboundTemplates["recommended"].combo = Combo(p, n, s)
      BY <3>1, TemplatesAre
    <3> QED
      BY <3>2
  <2> HIDE DEF t, fields
  <2> QED
    BY <2>1, <2>2, <2>3, OpensKeep
<1>3. ASSUME NEW x \in Combos, OpenExisting(x) PROVE FormInv'
  <2>1. AtRest /\ form' = Opened(TRUE, x, Stored(x))
        /\ UNCHANGED <<table, keysAsked, sent, sentClient>>
    BY <1>3 DEF OpenExisting
  <2>2. Stored(x) \in [advancedFields -> Values]
    BY <1>1, FieldsAreValues
  <2>3. \E p \in inboundProtocols : \E n, s : x = Combo(p, n, s)
    BY CombosAre
  <2> QED
    BY <2>1, <2>2, <2>3, OpensKeep
<1> QED
  BY <1>2, <1>3

\* Submit: the combination, the fields that it has in use, and the client.
LEMMA SubmitKeeps == FormInv /\ Submit => FormInv'
<1> SUFFICES ASSUME FormInv, Submit PROVE FormInv'
  OBVIOUS
<1> DEFINE x == form.combo
           fields == [k \in advancedFields |->
                         IF k \in enabledInboundAdvancedFields(x) THEN form.fields[k] ELSE "none"]
           client == buildClientPayload(x.protocol, form.client)
<1>1. /\ form.open /\ form' = NoForm /\ keysAsked' = 0
      /\ table' = table /\ sentClient' = sentClient
      /\ sent' = [open |-> TRUE, payload |-> buildFullInboundPayload(form),
                  from |-> form, shown |-> Shown(x)]
  BY DEF Submit
<1>2. FormHolds
  BY <1>1 DEF FormInv, NoForm
<1>3. x \in Combos
  BY <1>2 DEF FormHolds, IsForm
<1>4. x.protocol \in inboundProtocols
  BY <1>3, CombosAre
<1>5. normalizeInboundCombination(x) = x
  BY <1>3, NormalizedStays DEF FormInv
<1>6. buildFullInboundPayload(form) = [combo |-> x, fields |-> fields, client |-> client]
  BY <1>5 DEF buildFullInboundPayload
<1>7. /\ enabledInboundAdvancedFields(x) \subseteq Shown(x)
      /\ Used(x) \subseteq enabledInboundAdvancedFields(x)
      /\ Used(x) \subseteq advancedFields
  BY <1>3, EnabledIsShown DEF FormInv
<1>8. /\ sent'.open /\ sent'.payload.combo = x /\ sent'.payload.fields = fields
      /\ sent'.payload.client = client /\ sent'.from = form /\ sent'.shown = Shown(x)
  <2> HIDE DEF x, fields, client
  <2> QED
    BY <1>1, <1>6
<1>9. RefusedForAnInput'
  <2> DEFINE accepted == ValidClientCredential(x.protocol, normalizeClientCredentials(x.protocol, client))
             typed == "id" \in CredentialInputs(x.protocol) /\ form.client.id = "word"
  <2>1. ASSUME form.withClient PROVE accepted \/ typed
    <3>1. Suits(x.protocol, form.client)
      BY <1>2, <2>1 DEF FormHolds, IsForm
    <3> QED
      BY <1>4, <3>1, SuitedAreAccepted DEF FormInv
  <2>2. ASSUME x.protocol = "shadowtls", fields["tls_sni"] = "none"
        PROVE  "tls_sni" \in Shown(x) /\ form.fields["tls_sni"] = "none"
    <3>1. "tls_sni" \in Used(x)
      BY <2>2, OwnFields DEF Used, EnabledBy
    <3>2. "tls_sni" \in advancedFields /\ "tls_sni" \in enabledInboundAdvancedFields(x)
      BY <1>7, <3>1
    <3>3. fields["tls_sni"] = form.fields["tls_sni"]
      BY <3>2
    <3> HIDE DEF x, fields
    <3> QED
      BY <1>7, <2>2, <3>2, <3>3
  <2>3. sent'.payload.combo \in Combos
    BY <1>3, <1>8
  <2>4. \/ ValidateInboundCombination(sent'.payload.combo, sent'.payload.fields)
        \/ "tls_sni" \in sent'.shown /\ sent'.from.fields["tls_sni"] = "none"
    <3> HIDE DEF x, fields, client
    <3> QED
      BY <1>3, <1>8, <2>2 DEF ValidateInboundCombination
  <2>5. sent'.from.withClient =>
            LET p == sent'.payload.combo.protocol IN
            \/ ValidClientCredential(p, normalizeClientCredentials(p, sent'.payload.client))
            \/ "id" \in CredentialInputs(x.protocol) /\ sent'.from.client.id = "word"
    <3> HIDE DEF x, fields, client
    <3> QED
      BY <1>8, <2>1
  <2>6. CredentialInputs(sent.payload.combo.protocol)' = CredentialInputs(x.protocol)
    <3> HIDE DEF x, fields, client
    <3> QED
      BY <1>1, <1>8 DEF CredentialInputs, inboundCredentialType, Capability
  <2> QED
    BY <2>3, <2>4, <2>5, <2>6 DEF RefusedForAnInput, ValidateInboundCombination
<1>10. NothingHiddenIsSent'
  <2>1. \A f \in advancedFields \ Shown(x) : fields[f] = "none"
    BY <1>7
  <2> QED
    BY <1>8, <2>1 DEF NothingHiddenIsSent
<1>11. UntouchedIsKept'
  <2>1. ASSUME form.exists, form.edits = 0
        PROVE  x = form.opened /\ \A f \in Used(form.opened) : fields[f] = "own"
    <3>1. form.opened = x /\ form.fields = Stored(x)
      BY <1>2, <2>1 DEF FormHolds
    <3>2. ASSUME NEW f \in Used(x) PROVE fields[f] = "own"
      <4>1. f \in advancedFields /\ f \in enabledInboundAdvancedFields(x)
        BY <1>7
      <4>2. Stored(x)[f] = "own"
        BY <4>1 DEF Stored
      <4> QED
        BY <3>1, <4>1, <4>2
    <3> QED
      BY <3>1, <3>2
  <2>2. sent'.from.exists /\ sent'.from.edits = 0 =>
            /\ sent'.payload.combo = sent'.from.opened
            /\ \A f \in Used(sent'.from.opened) : sent'.payload.fields[f] = "own"
    <3> HIDE DEF x, fields, client
    <3> QED
      BY <1>8, <2>1
  <2> QED
    BY <1>1, <2>2 DEF FormInv, SentAsShown, UntouchedIsKept, Used, EnabledBy
<1> QED
  BY <1>1, <1>9, <1>10, <1>11 DEF FormInv, SentAsShown

\* A client that the server accepted and that is not changed is sent with its
\* credentials, in the form that the server accepts.
LEMMA UntouchedClientIsKept ==
    ASSUME table \in {"own", "served"}, NEW p \in inboundProtocols, NEW c,
           ValidClientCredential(p, c)
    PROVE  LET after == buildClientPayload(p, clientFormValues(p, c))
               type == Own[p].credential
           IN  /\ ValidClientCredential(p, after)
               /\ type \notin {"none", "password"} =>
                      Or(after.id, after.uuid) = Or(c.id, c.uuid)
               /\ type \notin {"none", "uuid"} => after.password = c.password
<1>1. inboundCredentialType(p) = Own[p].credential
  BY TablesAgree
<1>2. Own[p].credential \in {"uuid", "password", "username_password", "none",
                             "credential_id_password"}
  BY CredentialTypes
<1> USE <1>1 DEF ValidClientCredential, buildClientPayload, clientFormValues, Credentials, Or
<1>3. CASE Own[p].credential = "uuid"
  BY <1>3
<1>4. CASE Own[p].credential = "password"
  BY <1>4
<1>5. CASE Own[p].credential = "username_password"
  BY <1>5
<1>6. CASE Own[p].credential = "none"
  BY <1>6
<1>7. CASE Own[p].credential = "credential_id_password"
  BY <1>7
<1> QED
  BY <1>2, <1>3, <1>4, <1>5, <1>6, <1>7

\* SaveClient.
LEMMA SaveClientKeeps ==
    \A p \in inboundProtocols : \A c, typed : FormInv /\ SaveClient(p, c, typed) => FormInv'
<1> SUFFICES ASSUME NEW p \in inboundProtocols, NEW c, NEW typed, FormInv, SaveClient(p, c, typed)
             PROVE  FormInv'
  OBVIOUS
<1> DEFINE values == clientFormValues(p, c)
           changed == [k \in DOMAIN values |-> IF k \in typed THEN "new" ELSE values[k]]
           payload == buildClientPayload(p, changed)
<1>1. /\ ValidClientCredential(p, c)
      /\ sentClient' = [open |-> TRUE, protocol |-> p, before |-> c, typed |-> typed,
                        payload |-> payload]
      /\ table' = table /\ form' = form /\ keysAsked' = keysAsked /\ sent' = sent
  BY DEF SaveClient
<1>2. ASSUME typed = {} PROVE payload = buildClientPayload(p, values)
  <2>1. values = [k \in DOMAIN values |-> values[k]]
    BY DEF clientFormValues, Credentials
  <2> HIDE DEF values
  <2>2. changed = values
    BY <1>2, <2>1
  <2> QED
    BY <2>2
<1> HIDE DEF payload, changed
<1>3. /\ sentClient'.protocol = p /\ sentClient'.before = c /\ sentClient'.typed = typed
      /\ sentClient'.payload = payload
  BY <1>1
<1>4. typed = {} =>
          LET after == payload
              type == Own[p].credential
          IN  /\ ValidClientCredential(p, after)
              /\ type \notin {"none", "password"} =>
                     Or(after.id, after.uuid) = Or(c.id, c.uuid)
              /\ type \notin {"none", "uuid"} => after.password = c.password
  BY <1>1, <1>2, UntouchedClientIsKept DEF FormInv
<1>5. UntouchedIsKept'
  <2>1. LET type == Own[sentClient'.protocol].credential
            before == sentClient'.before
            after == sentClient'.payload
        IN  sentClient'.typed = {} =>
            /\ ValidClientCredential(sentClient'.protocol, after)
            /\ type \notin {"none", "password"} =>
                   Or(after.id, after.uuid) = Or(before.id, before.uuid)
            /\ type \notin {"none", "uuid"} => after.password = before.password
    BY <1>3, <1>4
  <2> QED
    BY <1>1, <2>1 DEF FormInv, SentAsShown, UntouchedIsKept
<1>6. RefusedForAnInput' /\ NothingHiddenIsSent'
  BY <1>1 DEF FormInv, SentAsShown, RefusedForAnInput, NothingHiddenIsSent,
              CredentialInputs, inboundCredentialType, Capability
<1>7. FormHolds => FormHolds'
  BY <1>1 DEF FormHolds
<1> QED
  BY <1>1, <1>5, <1>6, <1>7 DEF FormInv, SentAsShown

\* Every step keeps the invariant of the form.
LEMMA FormSteps == FormInv /\ [FormNext]_formVars => FormInv'
<1> SUFFICES ASSUME FormInv, [FormNext]_formVars PROVE FormInv'
  OBVIOUS
<1>1. CASE UNCHANGED formVars
  <2>1. table' = table /\ form' = form /\ keysAsked' = keysAsked /\ sent' = sent
        /\ sentClient' = sentClient
    BY <1>1 DEF formVars
  <2>2. RefusedForAnInput' /\ SentAsShown'
    BY <2>1, SentStays DEF FormInv
  <2>3. FormHolds => FormHolds'
    BY <2>1 DEF FormHolds
  <2> QED
    BY <2>1, <2>2, <2>3 DEF FormInv
<1>2. CASE FormNext
  BY <1>2, OpeningsKeep, TemplateKeeps, ChoicesKeep, TypingKeeps, SaveClientKeeps, AskKeysKeeps,
     KeysKeep, CredentialsKeep, ToggleClientKeeps, TableKeeps, SubmitKeeps DEF FormNext
<1> QED
  BY <1>1, <1>2

\* The inductive invariant of the form, for any number of changes.
THEOREM FormInvariance == FormSpec => []FormInv
<1>1. FormInit => FormInv
  BY DEF FormInit, FormInv, NoForm, RefusedForAnInput, SentAsShown, UntouchedIsKept,
         NothingHiddenIsSent
<1> QED
  BY <1>1, FormSteps, PTL DEF FormSpec

\* FormTypeOK: an open form is in a combination of the table, and its fields
\* have values of the four kinds.
THEOREM FormTypeCorrect == FormSpec => []FormTypeOK
<1>1. ASSUME FormInv PROVE FormTypeOK
  <2>1. keysAsked \in 0..MaxEdits
    BY <1>1, MaxEditsAssumption DEF FormInv, FormHolds, IsForm
  <2> QED
    BY <1>1, <2>1 DEF FormInv, FormTypeOK, NoForm, FormHolds, IsForm, Values
<1> QED
  BY <1>1, FormInvariance, PTL

\* RefusedForAnInput: whatever was chosen and typed before and whichever table
\* was in force, the server refuses what the form sends for no other reason than
\* the blank server name of a ShadowTLS inbound or an id that was typed.
THEOREM RefusedForInputs == FormSpec => []RefusedForAnInput
<1>1. FormInv => RefusedForAnInput
  BY DEF FormInv
<1> QED
  BY <1>1, FormInvariance, PTL

\* SentAsShown: an inbound and a client that were not changed keep what they
\* have in use, and nothing is sent that the form does not show.
THEOREM ShownIsSent == FormSpec => []SentAsShown
<1>1. FormInv => SentAsShown
  BY DEF FormInv
<1> QED
  BY <1>1, FormInvariance, PTL

=============================================================================
