---------------------------- MODULE SliceCRecords ----------------------------
(***************************************************************************)
(* The record of the Slice C recovery: what the owner and the observation  *)
(* verifier post to issue 109 and to the control and activation pull       *)
(* requests, and what the validators of scripts/phase5_slice_c_recovery.py *)
(* accept of it.                                                           *)
(*                                                                         *)
(* The record is one sequence in the order of creation; the number of an   *)
(* entry is its comment or review id, its time and, of a merge, its        *)
(* commit.  Commit 0 is the predecessor control C5C1.  A comment that      *)
(* names another by id and digest names its number.  Comments are not      *)
(* edited, which every validator refuses, and not deleted.  The owner may  *)
(* post any entry, in any order; a validator reads the first n entries and *)
(* asks GitHub for the current attempt of a run.                           *)
(***************************************************************************)
EXTENDS Naturals, Sequences, FiniteSets

CONSTANTS
    Observers,      \* runs of the observation verifier
    Old, New,       \* recovery WIF members of the C4 and of the new control
    Serial0,        \* C5_BOOTSTRAP_STATE_SERIAL
    MaxSerial,      \* bound: serials of the bootstrap state
    MaxHead,        \* bound: heads of a pull request
    MaxGeneration,  \* bound: generations of a claim
    MaxAttempt,     \* bound: attempts of a run
    MaxClock,       \* bound: how often a minute passes
    Smooth,         \* bound: the two merges without a detour
    Limit           \* bound: entries of each kind, and starts of a command or
                    \* run, by how far the record is that of Smooth

VARIABLES
    log,      \* the record
    pull,     \* the control and the activation pull request
    main,     \* head of the protected branch: the number of its merge
    attempt,  \* Observers -> current attempt of the run
    clock     \* minutes that have passed

record == <<log, pull, main, attempt, clock>>

----------------------------------------------------------------------------
Pulls == {"control", "activation"}

\* What a commit of a pull request, or of another one, changes.
Changes == (Pulls \cup {"other"}) \X (1..MaxHead)

PullStates == [status : {"none", "open", "merged"}, head : 0..MaxHead,
               base : Nat, tree : SUBSET Changes]

\* c5_control_implementation_review_body, c5_activation_review_body: a review of a head.
MergeReviews == [kind : {"merge_review"}, pr : Pulls, head : 1..MaxHead, tree : SUBSET Changes]

\* c5_control_merge_authority_body, c5_activation_merge_authority_body
MergeAuthorities == [kind : {"merge_authority"}, pr : Pulls, review : Nat]

\* A merge: merged_at, merge_commit_sha, and the base GitHub shows.
Merges == [kind : {"merge"}, pr : Pulls \cup {"other"}, head : 1..MaxHead,
           base : Nat, tree : SUBSET Changes]

\* c5_control_merge_record_body, c5_activation_record_body
Records == [kind : {"record"}, pr : Pulls, merge : Nat, authority : Nat]

\* c5_wif_repin_review_body, of the saved plan and the structural manifest
RepinReviews == [kind : {"repin_review"}]

\* c5_wif_repin_authority_body
RepinAuthorities == [kind : {"repin_authority"}, review : Nat]

\* c5_attempt_claim_body: its review is the one its authority names.
Claims == [kind : {"claim"}, generation : 1..MaxGeneration, authority : Nat]

\* What an observation has seen: serial of the state, members
\* that are live, lock, recovery objects, and the fresh plan.
Facts == [claim : Nat, observer : Observers, attempt : 1..MaxAttempt,
          serial : Serial0..MaxSerial, live : SUBSET {Old, New},
          unlocked : BOOLEAN, absent : BOOLEAN, reconciliation : {"no_change", "pending"}]

\* c5_wif_repin_observation_body
Observations == [kind : {"observation"}, facts : Facts,
                 observedAt : 0..MaxClock, createdAt : 0..MaxClock]

Outcomes == {"EFFECT_SUCCEEDED", "NO_EFFECT_STABLE", "INCONSISTENT_EFFECT"}

\* c5_wif_repin_terminal_v2_body; second is 0 for none.
Terminals == [kind : {"terminal"}, claim : Nat, first : Nat, second : Nat, outcome : Outcomes]

\* c5_dispatch_authority_body
Dispatches == [kind : {"dispatch"}, terminal : Nat]

Entries == MergeReviews \cup MergeAuthorities \cup Merges \cup Records \cup RepinReviews
           \cup RepinAuthorities \cup Claims \cup Observations \cup Terminals \cup Dispatches

ASSUME MembersDiffer == Old # New

ASSUME BoundsOK ==
    /\ Serial0 \in Nat /\ MaxSerial \in Nat /\ MaxHead \in Nat \ {0}
    /\ MaxGeneration \in Nat /\ MaxAttempt \in Nat \ {0} /\ MaxClock \in Nat

\* The first n entries of a kind
Of(kind, n) == {i \in 1..n : log[i].kind = kind}

Now == Len(log)

Tree(commit) == IF commit = 0 THEN {} ELSE log[commit].tree

----------------------------------------------------------------------------
\* The records of the two merges

\* Mutant: the merged tree is not compared with the reviewed one.
MergedAsReviewed_AnyTree(m, v) == log[m].head = log[v].head

\* The head and the tree of the merge are those the review is of.
MergedAsReviewed(m, v) ==
    /\ log[m].head = log[v].head
    /\ log[m].tree = log[v].tree

\* The one record of a pull request's merge: the review of the merged head,
\* then its merge authority, the merge upon the base, the record.
Recorded(p, r, base, n) ==
    /\ LET m == log[r].merge
           a == log[r].authority
           v == log[a].review
       IN /\ log[m].pr = p /\ log[a].pr = p /\ log[v].pr = p
          /\ log[m].base = base
          /\ MergedAsReviewed(m, v)
          /\ v < a /\ a < m /\ m < r
    /\ {i \in Of("record", n) : log[i].pr = p} = {r}

\* validate_c5_activation_record: k and r record the merge of the control
\* upon C5C1 and that of the activation upon the control.
ActivationRecorded(k, r, n) ==
    /\ Recorded("control", k, 0, n)
    /\ Recorded("activation", r, log[k].merge, n)
    /\ k < log[log[r].authority].review

----------------------------------------------------------------------------
\* Attempts

Generation(c) == log[c].generation

ReviewOf(c) == log[log[c].authority].review

\* validate_c5_attempt_history: each generation once, and none left out.
History(n) ==
    \A c \in Of("claim", n) :
        /\ \A d \in Of("claim", n) : Generation(c) = Generation(d) => c = d
        /\ \A g \in 1..Generation(c) : \E d \in Of("claim", n) : Generation(d) = g

Current(c, n) == \A d \in Of("claim", n) : Generation(d) <= Generation(c)

\* validate_c5_wif_repin_observation: bound to the claim, after it, by an
\* attempt that is still the run's current one.
ObservationHolds(o, c) ==
    /\ log[o].facts.claim = c
    /\ c < o
    /\ log[o].facts.attempt = attempt[log[o].facts.observer]

\* _c5_observation_outcome: the new member alone, and nothing left to change
Succeeded(f) ==
    /\ log[f].facts.unlocked /\ log[f].facts.absent
    /\ log[f].facts.live = {New}
    /\ log[f].facts.reconciliation = "no_change"

\* The late-effect fence: the same facts twice, a minute apart by the
\* verifier's clock and by the comments, and nothing done.
NoEffect(f, s) ==
    /\ log[s].facts = log[f].facts
    /\ log[s].createdAt > log[f].createdAt
    /\ log[s].observedAt > log[f].observedAt
    /\ log[f].facts.unlocked /\ log[f].facts.absent
    /\ log[f].facts.live = {Old}
    /\ log[f].facts.serial = Serial0
    /\ log[f].facts.reconciliation = "pending"

Outcome(f, s) ==
    IF Succeeded(f) THEN "EFFECT_SUCCEEDED"
    ELSE IF s # 0 /\ NoEffect(f, s) THEN "NO_EFFECT_STABLE"
    ELSE "INCONSISTENT_EFFECT"

\* What a terminal says of its observations: a success is seen once.
Concludes(c, f, s, outcome) ==
    /\ ObservationHolds(f, c)
    /\ s # 0 => ObservationHolds(s, c)
    /\ Succeeded(f) => s = 0
    /\ outcome = Outcome(f, s)

\* validate_c5_wif_repin_terminal, but for the chain of its claim
TerminalHolds(t) ==
    /\ log[t].first < t /\ log[t].second < t
    /\ Concludes(log[t].claim, log[t].first, log[t].second, log[t].outcome)

TerminalsOf(c, n) == {t \in Of("terminal", n) : log[t].claim = c}

\* Mutant: any terminal of the predecessor opens the next generation.
MayFollow_AnyOutcome(t, c) == TerminalHolds(t) /\ t < ReviewOf(c)

\* What opens the generation after a terminal: no effect, and then a fresh
\* review.
MayFollow(t, c) ==
    /\ TerminalHolds(t)
    /\ log[t].outcome = "NO_EFFECT_STABLE"
    /\ t < ReviewOf(c)

\* validate_c5_attempt_generation_transition, of one generation
Transition(c, n) ==
    /\ \A d \in Of("claim", n) : Generation(d) < Generation(c) =>
           log[d].authority # log[c].authority /\ ReviewOf(d) # ReviewOf(c)
    /\ \A d \in Of("claim", n) : Generation(d) + 1 = Generation(c) =>
           \E t \in TerminalsOf(d, n) : TerminalsOf(d, n) = {t} /\ MayFollow(t, c)

\* _c5_validate_plan_review_and_authority and the order of the claim
Ordered(c, activated) ==
    activated < ReviewOf(c) /\ ReviewOf(c) < log[c].authority /\ log[c].authority < c

\* validate_c5_terminal_attempt_claim_chain: a transition asks for the
\* predecessor's terminal, and that for its chain, down to generation 1.
Chain(c, n) ==
    /\ c \in Of("claim", n)
    /\ History(n)
    /\ \E k, r \in Of("record", n) :
        /\ ActivationRecorded(k, r, n)
        /\ \A d \in Of("claim", n) :
               Generation(d) <= Generation(c) => Ordered(d, r) /\ Transition(d, n)

\* verify_c5_wif_repin_pre_effect, of the claim that is posted
EffectReady(c, n) == Current(c, n) /\ Chain(c, n)

\* Mutant: the outcome of the terminal is not looked at.
Dispatched_AnyOutcome(t, n) ==
    /\ t \in Of("terminal", n)
    /\ TerminalHolds(t) /\ Chain(log[t].claim, n) /\ Current(log[t].claim, n)

\* validate_c5_dispatch_authority
Dispatched(t, n) ==
    /\ t \in Of("terminal", n)
    /\ TerminalHolds(t) /\ Chain(log[t].claim, n) /\ Current(log[t].claim, n)
    /\ log[t].outcome = "EFFECT_SUCCEEDED"

DispatchValid(n) ==
    \E d \in Of("dispatch", n) :
        Of("dispatch", n) = {d} /\ log[d].terminal < d /\ Dispatched(log[d].terminal, n)

----------------------------------------------------------------------------
RecordInit ==
    /\ log = <<>>
    /\ pull = [p \in Pulls |-> [status |-> "none", head |-> 0, base |-> 0, tree |-> {}]]
    /\ main = 0
    /\ attempt = [o \in Observers |-> 1]
    /\ clock = 0

\* How many of the first entries are those of Smooth.
Agreed ==
    LET smooth == Smooth
    IN CHOOSE n \in 0..Len(smooth) :
           /\ IF n \in {Now, Len(smooth)} THEN TRUE ELSE log[n + 1] # smooth[n + 1]
           /\ \A i \in 1..n : log[i] = smooth[i]

Below(kind, n) == n < Limit[Agreed][kind]

Kinds == {"merge_review", "merge_authority", "merge", "record", "repin_review",
          "repin_authority", "claim", "observation", "terminal", "dispatch"}

\* The kinds of which one more entry is explored.
Room == LET limit == Limit[Agreed]
        IN {kind \in Kinds : Cardinality(Of(kind, Now)) < limit[kind]}

Post(e) == log' = Append(log, e)

\* The activation pins the merged control: its pull request comes after it.
Open(p) ==
    /\ pull[p].status = "none"
    /\ p = "activation" => pull["control"].status = "merged"
    /\ pull' = [pull EXCEPT ![p] = [status |-> "open", head |-> 1, base |-> main,
                                    tree |-> Tree(main) \cup {<<p, 1>>}]]
    /\ UNCHANGED <<log, main, attempt, clock>>

\* A push, upon the branch as it is or upon main; its base read again or not
Push(p) ==
    /\ pull[p].status = "open" /\ pull[p].head < MaxHead
    /\ Below("push", pull["control"].head + pull["activation"].head)
    /\ \E tree \in {pull[p].tree, Tree(main)}, base \in {pull[p].base, main} :
        pull' = [pull EXCEPT ![p].head = @ + 1, ![p].base = base,
                             ![p].tree = (tree \ {<<p, pull[p].head>>})
                                         \cup {<<p, pull[p].head + 1>>}]
    /\ UNCHANGED <<log, main, attempt, clock>>

ReviewMerge(p) ==
    /\ pull[p].status = "open"
    /\ Post([kind |-> "merge_review", pr |-> p, head |-> pull[p].head, tree |-> pull[p].tree])
    /\ UNCHANGED <<pull, main, attempt, clock>>

AuthoriseMerge(v) ==
    /\ Post([kind |-> "merge_authority", pr |-> log[v].pr, review |-> v])
    /\ UNCHANGED <<pull, main, attempt, clock>>

\* The merge has the changes of main and of the head.
Merge(p) ==
    /\ pull[p].status = "open"
    /\ Post([kind |-> "merge", pr |-> p, head |-> pull[p].head, base |-> pull[p].base,
             tree |-> Tree(main) \cup pull[p].tree])
    /\ pull' = [pull EXCEPT ![p].status = "merged"]
    /\ main' = Now + 1
    /\ UNCHANGED <<attempt, clock>>

\* Another pull request is merged.
MergeOther(i) ==
    /\ <<"other", i>> \notin Tree(main)
    /\ Post([kind |-> "merge", pr |-> "other", head |-> i, base |-> main,
             tree |-> Tree(main) \cup {<<"other", i>>}])
    /\ main' = Now + 1
    /\ UNCHANGED <<pull, attempt, clock>>

RecordMerge(m, a) ==
    /\ log[m].pr # "other"
    /\ Post([kind |-> "record", pr |-> log[m].pr, merge |-> m, authority |-> a])
    /\ UNCHANGED <<pull, main, attempt, clock>>

\* The saved plan names the activation.
ReviewRepin ==
    /\ pull["activation"].status = "merged"
    /\ Post([kind |-> "repin_review"])
    /\ UNCHANGED <<pull, main, attempt, clock>>

AuthoriseRepin(v) ==
    /\ Post([kind |-> "repin_authority", review |-> v])
    /\ UNCHANGED <<pull, main, attempt, clock>>

PostClaim(g, a) ==
    /\ Post([kind |-> "claim", generation |-> g, authority |-> a])
    /\ UNCHANGED <<pull, main, attempt, clock>>

\* c5_terminal_body_from_observation_comments makes it; a second observation
\* that is not the later one concludes nothing that none would not.
PostTerminal(f, s) ==
    LET c == log[f].facts.claim
        outcome == Outcome(f, s)
    IN /\ Concludes(c, f, s, outcome)
       /\ Post([kind |-> "terminal", claim |-> c, first |-> f, second |-> s,
                outcome |-> outcome])
    /\ UNCHANGED <<pull, main, attempt, clock>>

\* c5_dispatch_authority_body makes it.
PostDispatch(t) ==
    /\ Dispatched(t, Now)
    /\ Post([kind |-> "dispatch", terminal |-> t])
    /\ UNCHANGED <<pull, main, attempt, clock>>

\* A minute passes; only the time between two observations matters.
Wait ==
    /\ clock < MaxClock
    /\ Of("observation", Now) # {}
    /\ clock' = clock + 1
    /\ UNCHANGED <<log, pull, main, attempt>>

Governance(room) ==
    \/ \E p \in Pulls : Open(p) \/ Push(p)
    \/ "merge_review" \in room /\ \E p \in Pulls : ReviewMerge(p)
    \/ "merge_authority" \in room /\ \E v \in Of("merge_review", Now) : AuthoriseMerge(v)
    \/ "merge" \in room /\ (MergeOther(1) \/ \E p \in Pulls : Merge(p))
    \/ "record" \in room /\ \E m \in Of("merge", Now), a \in Of("merge_authority", Now) :
           RecordMerge(m, a)

Attempts(room) ==
    \/ "repin_review" \in room /\ ReviewRepin
    \/ "repin_authority" \in room /\ \E v \in Of("repin_review", Now) : AuthoriseRepin(v)
    \/ "claim" \in room /\ \E g \in 1..MaxGeneration, a \in Of("repin_authority", Now) :
           PostClaim(g, a)
    \/ "terminal" \in room /\ \E f \in Of("observation", Now),
                                s \in Of("observation", Now) \cup {0} :
           (s = 0 \/ f < s) /\ PostTerminal(f, s)
    \/ "dispatch" \in room /\ \E t \in Of("terminal", Now) : PostDispatch(t)

RecordNext == LET room == Room IN Governance(room) \/ Attempts(room) \/ Wait

=============================================================================
