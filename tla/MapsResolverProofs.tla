------------------------- MODULE MapsResolverProofs -------------------------
(***************************************************************************)
(* Proofs about MapsResolver, for every workbook, every assignment of      *)
(* names to cache files, every scorer and every budget.  ResolverInv is    *)
(* inductive: RunInv and PaidInv are preserved together, because a name is *)
(* listed while it has no file and then nothing paid for it is still good  *)
(* (PaidInv), which stays so until the run searches for it (RunInv), even  *)
(* if another name's answer fills its file meanwhile; WordInv ties the     *)
(* overrides to what the reviewer said.                                    *)
(***************************************************************************)
EXTENDS MapsResolver, TLAPS

\* The actions that start a run.
LEMMA StartKeepsInv ==
    ASSUME ResolverInv, StartResolve \/ StartRequery
    PROVE  ResolverInv'
<1> USE ResolverAssumption DEF ResolverInv, history
<1>1. CASE StartResolve
  <2>1. Pending \subseteq Names
    BY DEF Pending
  <2>2. run' \in Runs
    BY <1>1, <2>1 DEF StartResolve, NewRun, Runs
  <2>3. TypeOK'
    BY <1>1, <2>2 DEF TypeOK, StartResolve
  <2>4. RunInv'
    <3>1. \A n \in Pending : paid[n] <= lost[n]
      BY <1>1, <2>1 DEF PaidInv, NothingToShow, InHand, StartResolve, Pending
    <3> QED
      BY <1>1, <3>1 DEF RunInv, NothingToShow, StartResolve, NewRun
  <2>5. PaidInv'
    BY <1>1 DEF PaidInv, NothingToShow, InHand, StartResolve
  <2>6. WordInv'
    BY <1>1 DEF WordInv, Readable, StartResolve
  <2> QED
    BY <2>3, <2>4, <2>5, <2>6
<1>2. CASE StartRequery
  <2>1. run' \in Runs /\ run'.kind = "requery" /\ run'.name = None
    BY <1>2 DEF StartRequery, NewRun, Runs
  <2>2. TypeOK'
    BY <1>2, <2>1 DEF TypeOK, StartRequery
  <2>3. RunInv'
    BY <2>1 DEF RunInv
  <2>4. PaidInv'
    BY <1>2 DEF PaidInv, NothingToShow, InHand, StartRequery
  <2>5. WordInv'
    BY <1>2 DEF WordInv, Readable, StartRequery
  <2> QED
    BY <2>2, <2>3, <2>4, <2>5
<1> QED
  BY <1>1, <1>2

\* A search, whatever becomes of it.
LEMMA SearchKeepsInv ==
    ASSUME ResolverInv, NEW n \in Names, Search(n) \/ SearchLost(n) \/ SearchRefused(n)
    PROVE  ResolverInv'
<1> USE ResolverAssumption DEF ResolverInv, history
<1>1. CASE Search(n)
  <2>1. PICK candidates \in SUBSET Places :
            run' = [run EXCEPT !.calls = @ + 1, !.name = n, !.answer = candidates]
    BY <1>1 DEF Search
  <2>2. run \in Runs /\ run # None /\ run.name = None /\ n \in run.todo /\ WithinBudget
    BY <1>1 DEF Search, Searching, TypeOK
  <2>3. /\ run' \in Runs
        /\ run'.kind = run.kind /\ run'.todo = run.todo
        /\ run'.name = n /\ run'.calls = run.calls + 1
    <3>1. run.calls + 1 \in Nat
      BY <2>2 DEF Runs
    <3>2. run' = [run EXCEPT !.calls = run.calls + 1, !.name = n, !.answer = candidates]
      BY <2>1
    <3> QED
      BY <2>2, <3>1, <3>2 DEF Runs
  <2>4. paid' \in [Names -> Nat] /\ searches' \in Nat
    <3>1. Bill(n) /\ paid \in [Names -> Nat] /\ searches \in Nat
      BY <1>1 DEF TypeOK, Search
    <3>2. [paid EXCEPT ![n] = @ + 1] \in [Names -> Nat]
      BY <3>1
    <3> QED
      BY <3>1, <3>2 DEF Bill
  <2>5. TypeOK'
    BY <1>1, <2>3, <2>4 DEF TypeOK, Search
  <2>6. RunInv'
    <3>1. run.kind = "resolve" => run'.calls <= MaxCalls
      BY <2>2, <2>3 DEF WithinBudget, Runs
    <3>2. ASSUME run.kind = "resolve", NEW m \in run.todo, m # n
          PROVE  paid'[m] <= lost'[m]
      <4>1. m \in Names
        BY <2>2, <3>2 DEF Runs
      <4>2. paid'[m] = paid[m] /\ lost' = lost
        BY <1>1, <3>2, <4>1 DEF TypeOK, Search, Bill
      <4>3. paid[m] <= lost[m]
        BY <2>2, <3>2, <4>1 DEF RunInv, NothingToShow, InHand
      <4> QED
        BY <4>2, <4>3
    <3> QED
      BY <2>2, <2>3, <3>1, <3>2 DEF RunInv, NothingToShow, InHand
  <2>7. PaidInv'
    <3> SUFFICES ASSUME NEW m \in Names
                 PROVE  /\ paid'[m] <= 1 + lost'[m]
                        /\ files'[File[m]] = None => InHand(m)' \/ paid'[m] <= lost'[m]
      BY DEF PaidInv, NothingToShow
    <3>1. files' = files /\ lost' = lost
      BY <1>1 DEF Search
    <3>2. CASE m = n /\ run.kind = "resolve"
      <4>1. paid[m] <= lost[m]
        BY <2>2, <3>2 DEF RunInv, NothingToShow, InHand
      <4>2. paid'[m] = paid[m] + 1
        BY <1>1, <3>2 DEF TypeOK, Search, Bill
      <4>3. paid[m] \in Nat /\ lost[m] \in Nat
        BY DEF TypeOK
      <4> QED
        BY <2>2, <2>3, <3>1, <3>2, <4>1, <4>2, <4>3 DEF InHand
    <3>3. CASE ~(m = n /\ run.kind = "resolve")
      <4>1. paid'[m] = paid[m]
        BY <1>1, <3>3 DEF TypeOK, Search, Bill
      <4> QED
        BY <2>2, <3>1, <4>1 DEF PaidInv, NothingToShow, InHand
    <3> QED
      BY <3>2, <3>3
  <2>8. WordInv'
    BY <1>1 DEF WordInv, Readable, Search
  <2> QED
    BY <2>5, <2>6, <2>7, <2>8
<1>2. CASE SearchLost(n)
  <2>1. paid' \in [Names -> Nat] /\ lost' \in [Names -> Nat] /\ searches' \in Nat
    BY <1>2 DEF TypeOK, SearchLost, Bill, Lose
  <2>2. TypeOK'
    BY <1>2, <2>1 DEF TypeOK, SearchLost
  <2>3. RunInv'
    BY <1>2 DEF RunInv, SearchLost
  <2>4. PaidInv'
    <3> SUFFICES ASSUME NEW m \in Names
                 PROVE  /\ paid'[m] <= 1 + lost'[m]
                        /\ files'[File[m]] = None => InHand(m)' \/ paid'[m] <= lost'[m]
      BY DEF PaidInv, NothingToShow
    <3>1. files' = files /\ run.name = None
      BY <1>2 DEF SearchLost, Searching
    <3>2. \/ paid'[m] = paid[m] /\ lost'[m] = lost[m]
          \/ paid'[m] = paid[m] + 1 /\ lost'[m] = lost[m] + 1
      BY <1>2 DEF TypeOK, SearchLost, Bill, Lose
    <3>3. paid[m] \in Nat /\ lost[m] \in Nat
      BY DEF TypeOK
    <3> QED
      BY <3>1, <3>2, <3>3 DEF PaidInv, NothingToShow, InHand
  <2>5. WordInv'
    BY <1>2 DEF WordInv, Readable, SearchLost
  <2> QED
    BY <2>2, <2>3, <2>4, <2>5
<1>3. CASE SearchRefused(n)
  <2>1. TypeOK'
    BY <1>3 DEF TypeOK, SearchRefused
  <2>2. RunInv'
    BY <1>3 DEF RunInv, SearchRefused
  <2>3. PaidInv'
    BY <1>3 DEF PaidInv, NothingToShow, InHand, SearchRefused, Searching
  <2>4. WordInv'
    BY <1>3 DEF WordInv, Readable, SearchRefused
  <2> QED
    BY <2>1, <2>2, <2>3, <2>4
<1> QED
  BY <1>1, <1>2, <1>3

\* What ends a run between two names.
LEMMA EndKeepsInv ==
    ASSUME ResolverInv, Done \/ Kill
    PROVE  ResolverInv'
<1> USE ResolverAssumption DEF ResolverInv, history
<1>1. /\ run # None /\ run.name = None /\ run' = None
      /\ UNCHANGED <<files, overrides, history, searches, said>>
  BY DEF Done, Kill
<1>2. TypeOK'
  BY <1>1 DEF TypeOK
<1>3. RunInv'
  BY <1>1 DEF RunInv
<1>4. PaidInv'
  BY <1>1 DEF PaidInv, NothingToShow, InHand
<1>5. WordInv'
  BY <1>1 DEF WordInv, Readable
<1> QED
  BY <1>2, <1>3, <1>4, <1>5

\* An answer that becomes a file, which other names may share: only its own name is
\* struck from the list.
LEMMA CacheKeepsInv ==
    ASSUME ResolverInv, CacheAnswer
    PROVE  ResolverInv'
<1> USE ResolverAssumption DEF ResolverInv, history
<1> DEFINE n == run.name
<1>1. /\ run # None /\ run \in Runs /\ n \in Names /\ n \in run.todo
      /\ files' = [files EXCEPT ![File[n]] = [response |-> run.answer]]
      /\ run' = NextName
      /\ UNCHANGED <<overrides, paid, lost, word, searches, said>>
  BY DEF CacheAnswer, TypeOK, RunInv, Runs
<1>2. [response |-> run.answer] \in Cached
  BY <1>1 DEF Runs, Cached
<1>3. run' # None => /\ run' \in Runs /\ run'.kind = run.kind /\ run'.name = None
                     /\ run'.todo = run.todo \ {n} /\ run'.calls = run.calls
  BY <1>1 DEF NextName, Runs
<1>4. \A m \in Names : files'[File[m]] = None => files[File[m]] = None
  BY <1>1, <1>2 DEF TypeOK
<1>5. files'[File[n]] # None
  BY <1>1, <1>2 DEF TypeOK
<1>6. TypeOK'
  BY <1>1, <1>2, <1>3 DEF TypeOK
<1> HIDE DEF n
<1>7. RunInv'
  <2> SUFFICES ASSUME run' # None, run.kind = "resolve"
               PROVE  /\ run'.calls <= MaxCalls
                      /\ \A m \in run'.todo : paid'[m] <= lost'[m]
    BY <1>3 DEF RunInv, NothingToShow
  <2>1. run'.calls <= MaxCalls
    BY <1>1, <1>3 DEF RunInv
  <2>2. ASSUME NEW m \in run'.todo
        PROVE  paid'[m] <= lost'[m]
    <3>1. m \in run.todo /\ ~InHand(m)
      BY <1>3, <2>2 DEF InHand, n
    <3> QED
      BY <1>1, <3>1 DEF RunInv, NothingToShow
  <2> QED
    BY <2>1, <2>2
<1>8. PaidInv'
  <2> SUFFICES ASSUME NEW m \in Names
               PROVE  /\ paid'[m] <= 1 + lost'[m]
                      /\ files'[File[m]] = None => InHand(m)' \/ paid'[m] <= lost'[m]
    BY DEF PaidInv, NothingToShow
  <2>1. CASE m = n
    BY <1>1, <1>5, <2>1 DEF PaidInv
  <2>2. CASE m # n
    <3>1. ~InHand(m)
      BY <2>2 DEF InHand, n
    <3> QED
      BY <1>1, <1>4, <3>1 DEF PaidInv, NothingToShow
  <2> QED
    BY <2>1, <2>2
<1>9. WordInv'
  BY <1>1 DEF WordInv, Readable
<1> QED
  BY <1>6, <1>7, <1>8, <1>9

\* An answer that a kill keeps from its file is a lost one.
LEMMA KillKeepsInv ==
    ASSUME ResolverInv, KillWithAnswer
    PROVE  ResolverInv'
<1> USE ResolverAssumption DEF ResolverInv, history
<1>1. /\ run # None /\ run \in Runs /\ run.name \in Names /\ run' = None
      /\ UNCHANGED <<overrides, paid, word, searches, said>>
  BY DEF KillWithAnswer, TypeOK, Runs
<1>2. lost' \in [Names -> Nat]
  BY <1>1 DEF KillWithAnswer, Lose, TypeOK
<1>3. files' \in [Files -> Cached \union {None, Torn}]
  BY <1>1 DEF KillWithAnswer, TypeOK
<1>4. TypeOK'
  BY <1>1, <1>2, <1>3 DEF TypeOK
<1>5. RunInv'
  BY <1>1 DEF RunInv
<1>6. PaidInv'
  <2> SUFFICES ASSUME NEW m \in Names
               PROVE  /\ paid[m] <= 1 + lost'[m]
                      /\ files'[File[m]] = None => paid[m] <= lost'[m]
    BY <1>1 DEF PaidInv, NothingToShow
  <2>1. paid[m] \in Nat /\ lost[m] \in Nat /\ paid[m] <= 1 + lost[m]
    BY DEF TypeOK, PaidInv
  <2>2. CASE InHand(m)
    <3>1. lost'[m] = lost[m] + 1
      BY <1>1, <2>2 DEF KillWithAnswer, Lose, InHand, TypeOK
    <3> QED
      BY <2>1, <3>1
  <2>3. CASE ~InHand(m)
    <3>1. lost'[m] = lost[m]
      BY <1>1, <2>3 DEF KillWithAnswer, Lose, InHand, TypeOK
    <3>2. files'[File[m]] = None => files[File[m]] = None
      BY <1>1 DEF KillWithAnswer, TypeOK
    <3> QED
      BY <2>1, <2>3, <3>1, <3>2 DEF PaidInv, NothingToShow
  <2> QED
    BY <2>2, <2>3
<1>7. WordInv'
  BY <1>1 DEF WordInv, Readable
<1> QED
  BY <1>4, <1>5, <1>6, <1>7

\* A save that leaves the entry of n in agreement with the reviewer's last word.
LEMMA SaveKeepsInv ==
    ASSUME ResolverInv, Readable, NEW n \in Names,
           NEW entry \in Verdicts,
           NEW w \in {"none", "closed", "no_match", "confirmed"},
           NEW p \in Places \union {None},
           w = "closed" => entry.status = "closed",
           w = "no_match" => entry.status = "no_match",
           w = "confirmed" => entry.confirmed = p /\ p \in Places,
           Save(n, entry, w, p)
    PROVE  ResolverInv'
<1> USE ResolverAssumption DEF ResolverInv, history
<1>1. overrides \in [Names -> Verdicts] /\ overrides' \in [Names -> Verdicts]
  BY DEF Readable, TypeOK, Save
<1>2. [word |-> w, place |-> p] \in Words /\ word' \in [Names -> Words]
  BY DEF TypeOK, Save, Words
<1>3. TypeOK'
  BY <1>1, <1>2 DEF TypeOK, Save
<1>4. RunInv'
  BY DEF RunInv, NothingToShow, InHand, Save
<1>5. PaidInv'
  BY DEF PaidInv, NothingToShow, InHand, Save
<1>6. WordInv'
  <2> SUFFICES ASSUME NEW m \in Names
               PROVE  /\ word'[m].word = "closed" => overrides'[m].status = "closed"
                      /\ word'[m].word = "no_match" => overrides'[m].status = "no_match"
                      /\ word'[m].word = "confirmed" =>
                            /\ overrides'[m].confirmed = word'[m].place
                            /\ word'[m].place \in Places
    BY DEF WordInv
  <2>1. CASE m = n
    <3>1. word'[m] = [word |-> w, place |-> p] /\ overrides'[m] = entry
      BY <1>1, <2>1 DEF TypeOK, Save
    <3> QED
      BY <3>1
  <2>2. CASE m # n
    <3>1. word'[m] = word[m] /\ overrides'[m] = overrides[m]
      BY <1>1, <2>2 DEF TypeOK, Save
    <3> QED
      BY <3>1 DEF WordInv
  <2> QED
    BY <2>1, <2>2
<1> QED
  BY <1>3, <1>4, <1>5, <1>6

\* The reviewer's commands, each a save of such an entry.
LEMMA ReviewKeepsInv ==
    ASSUME ResolverInv, Review
    PROVE  ResolverInv'
<1> USE DEF ResolverInv
<1>1. ASSUME NEW n \in Names, MarkClosed(n)
      PROVE  ResolverInv'
  <2>1. Readable /\ overrides[n] \in Verdicts
    BY <1>1 DEF MarkClosed, CanReview, Readable, TypeOK
  <2> DEFINE entry == [overrides[n] EXCEPT !.status = "closed"]
  <2>2. entry \in Verdicts /\ entry.status = "closed"
    BY <2>1 DEF Verdicts
  <2>3. Save(n, entry, "closed", None)
    BY <1>1 DEF MarkClosed
  <2> HIDE DEF entry
  <2> QED
    BY <2>1, <2>2, <2>3, SaveKeepsInv
<1>2. ASSUME NEW n \in Names, MarkNoMatch(n)
      PROVE  ResolverInv'
  <2>1. Readable /\ overrides[n] \in Verdicts
    BY <1>2 DEF MarkNoMatch, CanReview, Readable, TypeOK
  <2> DEFINE entry == [overrides[n] EXCEPT !.status = "no_match", !.confirmed = None]
  <2>2. entry \in Verdicts /\ entry.status = "no_match"
    BY <2>1 DEF Verdicts
  <2>3. Save(n, entry, "no_match", None)
    BY <1>2 DEF MarkNoMatch
  <2> HIDE DEF entry
  <2> QED
    BY <2>1, <2>2, <2>3, SaveKeepsInv
<1>3. ASSUME NEW n \in Names, MarkQuery(n)
      PROVE  ResolverInv'
  <2>1. Readable /\ overrides[n] \in Verdicts
    BY <1>3 DEF MarkQuery, CanReview, Readable, TypeOK
  <2> DEFINE entry == [overrides[n] EXCEPT !.query = TRUE]
             w == word[n].word
             p == word[n].place
  <2>2. /\ entry \in Verdicts
        /\ entry.status = overrides[n].status /\ entry.confirmed = overrides[n].confirmed
    BY <2>1 DEF Verdicts
  <2>3. w \in {"none", "closed", "no_match", "confirmed"} /\ p \in Places \union {None}
    BY DEF TypeOK, Words
  <2>4. /\ w = "closed" => entry.status = "closed"
        /\ w = "no_match" => entry.status = "no_match"
        /\ w = "confirmed" => entry.confirmed = p /\ p \in Places
    BY <2>1, <2>2 DEF WordInv
  <2>5. Save(n, entry, w, p)
    BY <1>3 DEF MarkQuery
  <2> HIDE DEF entry, w, p
  <2> QED
    BY <2>1, <2>2, <2>3, <2>4, <2>5, SaveKeepsInv
<1>4. ASSUME NEW n \in Names, ConfirmTop(n) \/ \E p \in Places : ConfirmPlace(n, p)
      PROVE  ResolverInv'
  <2>1. Readable /\ overrides[n] \in Verdicts
    BY <1>4 DEF ConfirmTop, ConfirmPlace, CanReview, Readable, TypeOK
  <2>2. PICK p \in Places :
            Save(n, [overrides[n] EXCEPT !.confirmed = p], "confirmed", p)
    BY <1>4 DEF ConfirmTop, ConfirmPlace
  <2> DEFINE entry == [overrides[n] EXCEPT !.confirmed = p]
  <2>3. entry \in Verdicts /\ entry.confirmed = p
    BY <2>1 DEF Verdicts
  <2>4. Save(n, entry, "confirmed", p)
    BY <2>2
  <2> HIDE DEF entry
  <2> QED
    BY <2>1, <2>3, <2>4, SaveKeepsInv
<1>5. CASE KillSaving
  <2> USE ResolverAssumption DEF history
  <2>1. TypeOK'
    BY <1>5 DEF TypeOK, KillSaving
  <2>2. RunInv'
    BY <1>5 DEF RunInv, NothingToShow, InHand, KillSaving
  <2>3. PaidInv'
    BY <1>5 DEF PaidInv, NothingToShow, InHand, KillSaving
  <2>4. WordInv'
    BY <1>5 DEF WordInv, Readable, KillSaving
  <2> QED
    BY <2>1, <2>2, <2>3, <2>4
<1> QED
  BY <1>1, <1>2, <1>3, <1>4, <1>5 DEF Review

-----------------------------------------------------------------------------
\* The invariant of the resolver: its runs, what was paid for, and what the
\* reviewer said.
THEOREM ResolverInvariant == Spec => []ResolverInv
<1>1. Init => ResolverInv
  <2> SUFFICES ASSUME Init
               PROVE  ResolverInv
    OBVIOUS
  <2>1. overrides \in [Names -> Verdicts]
    BY DEF Init, NoVerdict, Verdicts
  <2>2. word \in [Names -> Words] /\ \A n \in Names : word[n].word = "none"
    BY DEF Init, Words
  <2>3. TypeOK
    BY <2>1, <2>2 DEF Init, TypeOK
  <2>4. RunInv /\ PaidInv
    BY ResolverAssumption DEF Init, RunInv, PaidInv, NothingToShow, InHand
  <2>5. WordInv
    BY <2>2 DEF WordInv
  <2> QED
    BY <2>3, <2>4, <2>5 DEF ResolverInv
<1>2. ResolverInv /\ [Next]_vars => ResolverInv'
  <2> SUFFICES ASSUME ResolverInv, [Next]_vars
               PROVE  ResolverInv'
    OBVIOUS
  <2>1. CASE UNCHANGED vars
    BY <2>1 DEF vars, history, ResolverInv, TypeOK, RunInv, PaidInv, WordInv, Readable,
                NothingToShow, InHand
  <2>2. CASE StartResolve \/ StartRequery
    BY <2>2, StartKeepsInv
  <2>3. CASE RunStep
    BY <2>3, SearchKeepsInv, EndKeepsInv, CacheKeepsInv, KillKeepsInv DEF RunStep
  <2>4. CASE Review
    BY <2>4, ReviewKeepsInv
  <2> QED
    BY <2>1, <2>2, <2>3, <2>4 DEF Next
<1> QED
  BY <1>1, <1>2, PTL DEF Spec

\* Runs, answer files, payments and verdicts are what the job takes them for
\* (jobs/resolve_google_maps.py).
THEOREM TypeCorrect == Spec => []TypeOK
<1>1. ResolverInv => TypeOK
  BY DEF ResolverInv
<1> QED
  BY <1>1, ResolverInvariant, PTL

\* "Text Search runs AT MOST ONCE per restaurant" (resolve_google_maps.py:4), but
\* for the answers that were lost; also of names that share a file.
THEOREM SearchedAtMostOnce == Spec => []PaidOnce
<1>1. ResolverInv => PaidOnce
  BY DEF ResolverInv, PaidInv, PaidOnce
<1> QED
  BY <1>1, ResolverInvariant, PTL

\* No search or requery contradicts the reviewer (resolve_google_maps.py:13-15).
THEOREM ReviewerNeverContradicted == Spec => []NeverContradicted
<1>1. ResolverInv => NeverContradicted
  <2> SUFFICES ASSUME ResolverInv, NEW n \in Names, HasResolution(n)
               PROVE  /\ word[n].word = "closed" => Resolution(n).status = "closed"
                      /\ word[n].word = "no_match" =>
                            Resolution(n) = Resolved("unresolved", None)
                      /\ word[n].word = "confirmed" =>
                            Resolution(n).place \in {word[n].place, None}
    BY DEF NeverContradicted
  <2>1. Readable
    BY DEF HasResolution
  <2>2. ASSUME word[n].word = "closed"
        PROVE  Resolution(n).status = "closed"
    <3>1. overrides[n].status = "closed"
      BY <2>1, <2>2 DEF ResolverInv, WordInv
    <3>2. Resolution(n) = Resolved("closed", None)
      BY <3>1 DEF Resolution
    <3> QED
      BY <3>2 DEF Resolved
  <2>3. ASSUME word[n].word = "no_match"
        PROVE  Resolution(n) = Resolved("unresolved", None)
    <3>1. overrides[n].status = "no_match"
      BY <2>1, <2>3 DEF ResolverInv, WordInv
    <3> QED
      BY <3>1 DEF Resolution
  <2>4. ASSUME word[n].word = "confirmed"
        PROVE  Resolution(n).place \in {word[n].place, None}
    <3> DEFINE p == word[n].place
               c == files[File[n]].response
    <3>1. overrides[n].confirmed = p /\ p \in Places
      BY <2>1, <2>4 DEF ResolverInv, WordInv
    <3>2. overrides[n].status \in {"none", "closed", "no_match"}
      BY <2>1 DEF ResolverInv, TypeOK, Readable, Verdicts
    <3>3. Interpreted(n, c, p) \in {Resolved("unresolved", None), Resolved("matched", p),
                                    Resolved("low_confidence", None)}
      <4>1. p # None
        BY <3>1, ResolverAssumption
      <4> HIDE DEF p, c
      <4> QED
        BY <4>1 DEF Interpreted
    <3>4. Resolution(n) \in {Resolved("closed", None), Resolved("unresolved", None),
                             Resolved("uncached", None), Interpreted(n, c, p)}
      BY <3>1, <3>2 DEF Resolution
    <3> QED
      BY <3>3, <3>4 DEF Resolved
  <2> QED
    BY <2>2, <2>3, <2>4
<1> QED
  BY <1>1, ResolverInvariant, PTL
=============================================================================
