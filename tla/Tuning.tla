-------------------------------- MODULE Tuning -------------------------------
(***************************************************************************)
(* From a recorded value to a live one: rows of tuning_history start as     *)
(* "paper" (tuning/promote.py record_tuning), whatever value they hold, and *)
(* become "live" by a request of the operator alone (api/routes_tuning.py), *)
(* which needs a confirmation of just that (api/confirm.py).  Requests run  *)
(* at once and share nothing but the tables; the token is committed before  *)
(* the promotion begins.                                                    *)
(***************************************************************************)
EXTENDS Integers, FiniteSets, SequencesExt

CONSTANTS
  Requests,   \* requests of the operator
  Tokens,     \* confirmations that can be issued
  Values,     \* values that callers record
  MaxRows,    \* bound: rows of the history
  MaxEntries  \* bound: entries others append to the audit chain beside the rows' own

ASSUME TuningAssumption == {MaxRows, MaxEntries} \subseteq Nat

\* REQUIRED_WALK_FORWARD_KEYS.  An evidence is the set of those it answers: that
\* they have an answer is all that is ever asked of it.
Keys == {"folds", "in_sample_metric", "out_of_sample_metric"}

ValidEvidence(walk_forward) == Keys \subseteq walk_forward

Actions == {"tuning_promote", "manual_order"}

VARIABLES
  history,  \* tuning_history in its order
  tokens,   \* the table of confirmations
  requests, \* where each request is
  audit,    \* the number of the newest entry of the audit chain
  used,     \* history: how many requests a token let pass
  raced     \* history: tokens that one request read while another was using it

tuningVars == <<history, tokens, requests, audit, used, raced>>

Ids == 1..MaxRows

\* tuning_history_ids is a list, which may name a row twice.
Bodies == [{1} -> Ids] \cup [{1, 2} -> Ids]

Times(ids, id) == Cardinality({k \in DOMAIN ids : ids[k] = id})

Unissued == [issued |-> FALSE, consumed |-> FALSE, expired |-> FALSE,
             action |-> "tuning_promote", payload |-> <<>>]

NoRequest == [pc |-> "idle", token |-> <<>>, ids |-> <<>>, seq |-> 0]

TuningInit ==
  /\ history = <<>>
  /\ tokens = [t \in Tokens |-> Unissued]
  /\ requests = [r \in Requests |-> NoRequest]
  /\ audit = 0
  /\ used = [t \in Tokens |-> 0]
  /\ raced = {}

Row(new_value, walk_forward, applies_to, source, by) ==
  [new_value |-> new_value, walk_forward |-> walk_forward, applies_to |-> applies_to,
   source |-> source, by |-> by]

-----------------------------------------------------------------------------

\* Any value is taken, but only with its evidence, and on paper.
Record(value, walk_forward) ==
  /\ Len(history) < MaxRows
  /\ ValidEvidence(walk_forward)
  /\ history' = Append(history, Row(value, walk_forward, "paper", 0, <<>>))
  /\ audit' = audit + 1
  /\ UNCHANGED <<tokens, requests, used, raced>>

\* Other writers of the audit chain.
OtherEntry ==
  /\ audit < Len(history) + MaxEntries
  /\ audit' = audit + 1
  /\ UNCHANGED <<history, tokens, requests, used, raced>>

\* A request without a token: one is issued for the action and the body, whose
\* list is sorted first.
Issue(t, action, payload) ==
  /\ ~ tokens[t].issued
  /\ \A i, j \in DOMAIN payload : i < j => payload[i] <= payload[j]
  /\ tokens' = [tokens EXCEPT ![t] =
       [Unissued EXCEPT !.issued = TRUE, !.action = action, !.payload = payload]]
  /\ UNCHANGED <<history, requests, audit, used, raced>>

Expire(t) ==
  /\ tokens[t].issued /\ ~ tokens[t].expired
  /\ tokens' = [tokens EXCEPT ![t].expired = TRUE]
  /\ UNCHANGED <<history, requests, audit, used, raced>>

\* The hash of the sorted list: its order is not part of what is confirmed.
Same(payload, ids) == \A id \in Ids : Times(payload, id) = Times(ids, id)

\* Fault: a token that was used is as good as a new one.
AcceptsUsed(t, action, payload) ==
  /\ tokens[t].issued /\ ~ tokens[t].expired
  /\ tokens[t].action = action /\ Same(tokens[t].payload, payload)

\* Fault: a token issued for another action is accepted.
AcceptsAnyAction(t, action, payload) ==
  /\ tokens[t].issued /\ ~ tokens[t].consumed /\ ~ tokens[t].expired
  /\ Same(tokens[t].payload, payload)

Accepts(t, action, payload) ==
  /\ tokens[t].issued /\ ~ tokens[t].consumed /\ ~ tokens[t].expired
  /\ tokens[t].action = action
  /\ Same(tokens[t].payload, payload)

\* consume() reads and checks the token ...
ReadToken(r, t, ids) ==
  /\ requests[r].pc = "idle"
  /\ Accepts(t, "tuning_promote", ids)
  /\ requests' = [requests EXCEPT ![r] = [NoRequest EXCEPT !.pc = "consume", !.token = <<t>>, !.ids = ids]]
  /\ raced' = IF \E other \in Requests : requests[other].pc = "consume" /\ requests[other].token = <<t>>
              THEN raced \cup {t} ELSE raced
  /\ UNCHANGED <<history, tokens, audit, used>>

\* ... and commits its use, without looking again.
CommitToken(r) ==
  LET t == requests[r].token[1] IN
  /\ requests[r].pc = "consume"
  /\ tokens' = [tokens EXCEPT ![t].consumed = TRUE]
  /\ used' = [used EXCEPT ![t] = @ + 1]
  /\ requests' = [requests EXCEPT ![r].pc = "promote"]
  /\ UNCHANGED <<history, audit, raced>>

Promotable(ids) ==
  \A k \in DOMAIN ids : ids[k] \in DOMAIN history /\ ValidEvidence(history[ids[k]].walk_forward)

\* An unknown id and a row without its evidence fail the request, its token gone.
Promote(r) ==
  /\ requests[r].pc = "promote"
  /\ requests' = [requests EXCEPT
       ![r] = IF Promotable(@.ids) THEN [@ EXCEPT !.pc = "commit", !.seq = audit] ELSE NoRequest]
  /\ UNCHANGED <<history, tokens, audit, used, raced>>

\* The places of a list from the first to the last.
InOrder(places) ==
  CHOOSE p \in [1..Cardinality(places) -> places] : \A i, j \in DOMAIN p : i < j => p[i] < p[j]

\* What the list names that is on paper, in its order.
Papers(ids) ==
  LET places == {k \in DOMAIN ids : history[ids[k]].applies_to = "paper"} IN
  [i \in 1..Cardinality(places) |-> ids[InOrder(places)[i]]]

\* Each row that is not live already becomes a new one with its own audit entry;
\* whoever appended to the chain in the meantime rolls it all back.
CommitPromotion(r) ==
  LET papers == Papers(requests[r].ids)
      live   == [k \in DOMAIN papers |->
        LET row == history[papers[k]] IN
        Row(row.new_value, row.walk_forward, "live", papers[k], requests[r].token)]
  IN
  /\ requests[r].pc = "commit"
  /\ requests' = [requests EXCEPT ![r] = NoRequest]
  /\ IF papers # <<>> /\ audit # requests[r].seq
     THEN UNCHANGED <<history, audit>>
     ELSE /\ Len(history) + Len(papers) <= MaxRows
          /\ history' = history \o live
          /\ audit' = audit + Len(papers)
  /\ UNCHANGED <<tokens, used, raced>>

\* The process ends, or the connection to the database does.
Interrupted(r) ==
  /\ requests[r].pc # "idle"
  /\ requests' = [requests EXCEPT ![r] = NoRequest]
  /\ UNCHANGED <<history, tokens, audit, used, raced>>

TuningNext ==
  \/ \E value \in Values, walk_forward \in SUBSET Keys : Record(value, walk_forward)
  \/ OtherEntry
  \/ \E t \in Tokens :
       \/ Expire(t)
       \/ \E action \in Actions, payload \in Bodies : Issue(t, action, payload)
  \/ \E r \in Requests :
       \/ \E t \in Tokens, ids \in Bodies : ReadToken(r, t, ids)
       \/ CommitToken(r) \/ Promote(r) \/ CommitPromotion(r) \/ Interrupted(r)

TuningSpec == TuningInit /\ [][TuningNext]_tuningVars

-----------------------------------------------------------------------------

\* A live row is what a row on paper is, value and evidence, and the
\* operator confirmed just that: the token it was made with was issued for a
\* promotion whose list names that row, and its use was committed first, whatever
\* other requests, failures and rollbacks came in between (promote.py:3-10,
\* confirm.py:51-56).  That the value was searched for nobody checks.
LiveIsConfirmed ==
  \A id \in DOMAIN history : history[id].applies_to = "live" =>
    \E source \in DOMAIN history, t \in Tokens :
      /\ history[id] = Row(history[source].new_value, history[source].walk_forward,
                          "live", source, <<t>>)
      /\ history[source].applies_to = "paper"
      /\ ValidEvidence(history[source].walk_forward)
      /\ tokens[t].consumed /\ tokens[t].action = "tuning_promote"
      /\ Times(tokens[t].payload, source) > 0

\* A token lets one request pass (confirm.py:4), unless another read it before the
\* first had committed its use; so a confirmation never makes a row live more
\* often than it named the row.
ConfirmedOnce ==
  \A t \in Tokens \ raced :
    /\ used[t] <= 1
    /\ \A id \in Ids :
         Cardinality({k \in DOMAIN history : history[k].by = <<t>> /\ history[k].source = id})
           <= Times(tokens[t].payload, id)

=============================================================================
