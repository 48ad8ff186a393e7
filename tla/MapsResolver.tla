---------------------------- MODULE MapsResolver ----------------------------
(***************************************************************************)
(* jobs/resolve_google_maps.py: the job that pays Google once per source   *)
(* name for its Maps identity, keeps the answer in a cache file, and lets  *)
(* a reviewer overrule it.  A resolve or requery run is long (a search,    *)
(* a write, a pause for every name), so its steps interleave with the      *)
(* reviewer's commands, which load and save the overrides file at once.    *)
(* Either can be killed in the middle of a write.                          *)
(*                                                                         *)
(* A cached response is its set of candidates: the places in it that are   *)
(* not streets or districts.  Names that fold to the same slug share a     *)
(* cache file.  The order of the workbook is left open.                    *)
(***************************************************************************)
EXTENDS Naturals

CONSTANTS Names,        \* the workbook's source names
          Places,       \* Google place ids
          Files,        \* the cache files
          File,         \* File[n]: the cache file of n
          Score,        \* Score[n][p]: how alike n and the name of p are
          Threshold,    \* MATCH_THRESHOLD
          MaxCalls,     \* --max-calls
          MaxSearches,  \* bound of the searches of all runs
          MaxVerdicts,  \* bound of the reviewer's commands
          None,         \* no file, no place, no run
          Torn          \* what an interrupted write leaves of a file

NoVerdict == [status |-> "none", confirmed |-> None, query |-> FALSE]

\* An override entry: a status that settles the name, a confirmed candidate, and
\* whether the search text is hand-written.
Verdicts == [status : {"none", "closed", "no_match"},
             confirmed : Places \union {None},
             query : BOOLEAN]

\* A run: its kind, the names still to do, the calls made, and, between a call's
\* answer and its cache file, the name and the candidates.
Runs == [kind : {"resolve", "requery"}, todo : SUBSET Names, calls : Nat,
         name : Names \union {None}, answer : SUBSET Places]

\* The contents of a cache file.
Cached == [response : SUBSET Places]

\* The last thing the reviewer said of a name.
Words == [word : {"none", "closed", "no_match", "confirmed"},
          place : Places \union {None}]

ASSUME ResolverAssumption ==
    /\ File \in [Names -> Files]
    /\ Score \in [Names -> [Places -> Nat]]
    /\ Threshold \in Nat /\ MaxCalls \in Nat
    /\ MaxSearches \in Nat /\ MaxVerdicts \in Nat
    /\ None \notin Names /\ None \notin Places /\ None \notin Runs
    /\ None # Torn
    /\ None \notin Cached /\ Torn \notin Cached
    /\ Torn \notin [Names -> Verdicts]

VARIABLES files,      \* data/maps_cache: the candidates in each file
          overrides,  \* data/maps_overrides.json
          run,        \* the resolve or requery run under way
          paid,       \* paid[n]: searches that resolve runs were billed for n
          lost,       \* lost[n]: those of them whose answer reached no file
          word,       \* word[n]: the last thing the reviewer said of n
          searches,   \* searches of all runs
          said        \* the reviewer's commands

history == <<paid, lost, word>>
vars == <<files, overrides, run, paid, lost, word, searches, said>>

TypeOK == /\ files \in [Files -> Cached \union {None, Torn}]
          /\ overrides \in [Names -> Verdicts] \union {Torn}
          /\ run \in Runs \union {None}
          /\ paid \in [Names -> Nat]
          /\ lost \in [Names -> Nat]
          /\ word \in [Names -> Words]
          /\ searches \in Nat
          /\ said \in Nat

Init == /\ files = [f \in Files |-> None]
        /\ overrides = [n \in Names |-> NoVerdict]
        /\ run = None
        /\ paid = [n \in Names |-> 0]
        /\ lost = [n \in Names |-> 0]
        /\ word = [n \in Names |-> [word |-> "none", place |-> None]]
        /\ searches = 0
        /\ said = 0

-----------------------------------------------------------------------------
\* The first of the candidates with the best score.
Top(n, candidates) ==
    CHOOSE p \in candidates : \A q \in candidates : Score[n][q] <= Score[n][p]

Resolved(status, place) == [status |-> status, place |-> place]

\* Fault: a confirmation that the cache no longer bears out gives way to the score.
InterpretedByScore(n, candidates, confirmed) ==
    IF candidates = {} THEN Resolved("unresolved", None)
    ELSE Resolved("matched", IF confirmed \in candidates THEN confirmed
                                                          ELSE Top(n, candidates))

\* A cached search without a verdict that settles the name: the confirmed place
\* while it is among the candidates, else the best one if there is no confirmation.
Interpreted(n, candidates, confirmed) ==
    CASE candidates = {} -> Resolved("unresolved", None)
      [] candidates # {} /\ confirmed \in candidates -> Resolved("matched", confirmed)
      [] candidates # {} /\ confirmed \notin candidates /\ confirmed # None ->
             Resolved("low_confidence", None)
      [] candidates # {} /\ confirmed = None ->
             LET best == Top(n, candidates)
             IN  Resolved(IF Score[n][best] >= Threshold THEN "matched"
                                                         ELSE "low_confidence", best)

\* What the cache and the overrides make of a name: the status, and the place of
\* a candidate that was chosen.
Resolution(n) ==
    LET cached == files[File[n]]
        verdict == overrides[n]
    IN  CASE verdict.status = "closed" -> Resolved("closed", None)
          [] verdict.status = "no_match" -> Resolved("unresolved", None)
          [] verdict.status = "none" /\ cached = None -> Resolved("uncached", None)
          [] OTHER -> Interpreted(n, cached.response, verdict.confirmed)

\* The names a resolve run has to search: not cached, not closed.
Pending == {n \in Names : files[File[n]] = None /\ overrides[n].status # "closed"}

\* A file that an interrupted write left makes every command that reads it fail.
Readable == overrides # Torn
CacheReadable == \A n \in Names : files[File[n]] # Torn

-----------------------------------------------------------------------------
NewRun(kind, todo) == [kind |-> kind, todo |-> todo, calls |-> 0,
                       name |-> None, answer |-> {}]

\* resolve: the pending names are listed once, at the start.
StartResolve == /\ run = None
                /\ Readable /\ CacheReadable
                /\ run' = NewRun("resolve", Pending)
                /\ UNCHANGED <<files, overrides, history, searches, said>>

\* requery: the names asked for, whatever their files hold.
StartRequery == /\ run = None
                /\ Readable
                /\ \E names \in SUBSET Names \ {{}} : run' = NewRun("requery", names)
                /\ UNCHANGED <<files, overrides, history, searches, said>>

\* Fault: the budget is compared with the calls made before the last one.
WithinBudgetPlusOne == run.kind = "resolve" => run.calls <= MaxCalls

\* A resolve run stops at its budget; a requery makes one call per name.
WithinBudget == run.kind = "resolve" => run.calls < MaxCalls

\* The run is about to search for n.
Searching(n) == /\ run # None
                /\ run.name = None
                /\ n \in run.todo
                /\ WithinBudget
                /\ searches < MaxSearches

Bill(n) == /\ searches' = searches + 1
           /\ paid' = IF run.kind = "resolve" THEN [paid EXCEPT ![n] = @ + 1] ELSE paid

Lose(n) == lost' = IF run.kind = "resolve" THEN [lost EXCEPT ![n] = @ + 1] ELSE lost

\* The search for n is answered.
Search(n) == /\ Searching(n)
             /\ \E candidates \in SUBSET Places :
                   run' = [run EXCEPT !.calls = @ + 1, !.name = n, !.answer = candidates]
             /\ Bill(n)
             /\ UNCHANGED <<files, overrides, lost, word, said>>

\* It is answered, but the answer does not reach the job: the client times out.
SearchLost(n) == /\ Searching(n)
                 /\ run' = None
                 /\ Bill(n)
                 /\ Lose(n)
                 /\ UNCHANGED <<files, overrides, word, said>>

\* Any status but 200 ends the run, and nothing is cached.
SearchRefused(n) == /\ Searching(n)
                    /\ run' = None
                    /\ UNCHANGED <<files, overrides, history, searches, said>>

\* What follows the write: the next name, unless the overrides, read to report the
\* result, cannot be read.
NextName == IF Readable
            THEN [run EXCEPT !.todo = @ \ {run.name}, !.name = None, !.answer = {}]
            ELSE None

\* Fault: only answers with candidates are worth a file.
CacheHits == /\ run # None /\ run.name # None
             /\ files' = IF run.answer = {} THEN files
                         ELSE [files EXCEPT ![File[run.name]] = [response |-> run.answer]]
             /\ run' = NextName
             /\ UNCHANGED <<overrides, history, searches, said>>

\* The answer becomes the cache file.
CacheAnswer == /\ run # None /\ run.name # None
               /\ files' = [files EXCEPT ![File[run.name]] = [response |-> run.answer]]
               /\ run' = NextName
               /\ UNCHANGED <<overrides, history, searches, said>>

\* The run has done its names or spent its budget.
Done == /\ run # None /\ run.name = None
        /\ run.todo = {} \/ ~WithinBudget
        /\ run' = None
        /\ UNCHANGED <<files, overrides, history, searches, said>>

\* The run is killed between two names.
Kill == /\ run # None /\ run.name = None
        /\ run' = None
        /\ UNCHANGED <<files, overrides, history, searches, said>>

\* It is killed between an answer and its file, or in the middle of the write.
KillWithAnswer ==
    /\ run # None /\ run.name # None
    /\ run' = None
    /\ \/ files' = files
       \/ files' = [files EXCEPT ![File[run.name]] = Torn]
    /\ Lose(run.name)
    /\ UNCHANGED <<overrides, paid, word, searches, said>>

-----------------------------------------------------------------------------
\* A command of the reviewer loads the overrides, changes the entry of n and saves.
CanReview == Readable /\ said < MaxVerdicts

Save(n, entry, w, p) == /\ overrides' = [overrides EXCEPT ![n] = entry]
                        /\ word' = [word EXCEPT ![n] = [word |-> w, place |-> p]]
                        /\ said' = said + 1
                        /\ UNCHANGED <<files, run, paid, lost, searches>>

MarkClosed(n) ==
    /\ CanReview
    /\ Save(n, [overrides[n] EXCEPT !.status = "closed"], "closed", None)

\* Fault: the status of the resolution is written for the status of the verdict.
MarkUnresolved(n) ==
    /\ CanReview
    /\ Save(n, [overrides[n] EXCEPT !.status = "unresolved", !.confirmed = None],
            "no_match", None)

MarkNoMatch(n) ==
    /\ CanReview
    /\ Save(n, [overrides[n] EXCEPT !.status = "no_match", !.confirmed = None],
            "no_match", None)

\* mark_query says nothing of the identity: the last word on it stays.
MarkQuery(n) ==
    /\ CanReview
    /\ Save(n, [overrides[n] EXCEPT !.query = TRUE], word[n].word, word[n].place)

\* confirm --place-id p: any cached candidate.
Candidate(n, p) == files[File[n]] \in Cached /\ p \in files[File[n]].response

ConfirmPlace(n, p) ==
    /\ CanReview
    /\ Candidate(n, p)
    /\ Save(n, [overrides[n] EXCEPT !.confirmed = p], "confirmed", p)

\* confirm: the place the name resolves to.  When it resolves to none (a settled
\* name, or a confirmation to renew) the command fails and nothing is saved.
ConfirmTop(n) ==
    /\ CanReview
    /\ \E p \in Places :
          /\ Candidate(n, p)
          /\ Resolution(n).place = p
          /\ Save(n, [overrides[n] EXCEPT !.confirmed = p], "confirmed", p)

\* Any of these is killed in the middle of its write.
KillSaving == /\ CanReview
              /\ overrides' = Torn
              /\ said' = said + 1
              /\ UNCHANGED <<files, run, history, searches>>

-----------------------------------------------------------------------------
RunStep == \/ \E n \in Names : Search(n) \/ SearchLost(n) \/ SearchRefused(n)
           \/ CacheAnswer \/ Done \/ Kill \/ KillWithAnswer

Review == \/ \E n \in Names : MarkClosed(n) \/ MarkNoMatch(n) \/ MarkQuery(n) \/ ConfirmTop(n)
          \/ \E n \in Names, p \in Places : ConfirmPlace(n, p)
          \/ KillSaving

Next == StartResolve \/ StartRequery \/ RunStep \/ Review

Spec == Init /\ [][Next]_vars

-----------------------------------------------------------------------------
\* A name is searched at most once by all resolve runs together, plus once for
\* every answer that a crash or a timeout lost (resolve_google_maps.py:4-6).  A name
\* whose file another name's answer fills while it is pending is still searched, and
\* a name that finds that file filled is not searched at all; neither twice.
PaidOnce == \A n \in Names : paid[n] <= 1 + lost[n]

\* The verdicts a name can have: none unless the overrides can be read, and none of
\* an unsettled name whose file cannot.
HasResolution(n) ==
    Readable /\ (overrides[n].status = "none" => files[File[n]] # Torn)

\* The reviewer's last word is never contradicted, by any later search or requery
\* (resolve_google_maps.py:13-15): a closed name is closed, a rejected one carries
\* no place, and a confirmed one carries that place or none.
NeverContradicted == \A n \in Names : HasResolution(n) =>
    /\ word[n].word = "closed" => Resolution(n).status = "closed"
    /\ word[n].word = "no_match" => Resolution(n) = Resolved("unresolved", None)
    /\ word[n].word = "confirmed" => Resolution(n).place \in {word[n].place, None}

InHand(n) == run # None /\ run.kind = "resolve" /\ run.name = n

\* Every search paid for n was lost, but the one whose answer is in hand.
NothingToShow(n) == InHand(n) \/ paid[n] <= lost[n]

\* Why they hold.  An answered search is for a name still to do, and a resolve run
\* only has names to do whose searches have come to nothing so far; so have those of
\* every name without a file, which are the names that the next run can list.
RunInv == run # None =>
    /\ run.name # None => run.name \in run.todo
    /\ run.kind = "resolve" =>
          /\ run.calls <= MaxCalls
          /\ \A n \in run.todo : NothingToShow(n)

PaidInv == \A n \in Names :
    /\ paid[n] <= 1 + lost[n]
    /\ files[File[n]] = None => NothingToShow(n)

\* The overrides file says what the reviewer said.
WordInv == Readable => \A n \in Names :
    /\ word[n].word = "closed" => overrides[n].status = "closed"
    /\ word[n].word = "no_match" => overrides[n].status = "no_match"
    /\ word[n].word = "confirmed" => /\ overrides[n].confirmed = word[n].place
                                     /\ word[n].place \in Places

ResolverInv == TypeOK /\ RunInv /\ PaidInv /\ WordInv
=============================================================================
