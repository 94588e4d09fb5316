------------------------------- MODULE SetupForm -------------------------------
(***************************************************************************)
(* The form that adds a node (packages/web/src/components/Setup.tsx:48-116, *)
(* 202-231): a draft, a test of it, and what the test found, without which  *)
(* the draft cannot be saved.  The fields stay open while a request is      *)
(* under way.  Of the credentials the one of the chosen kind is kept.       *)
(***************************************************************************)
EXTENDS Integers, FiniteSets

CONSTANTS Host, Secret, Null

VARIABLES
  draft,   \* [host, secret], each Null while blank
  tested,  \* the test under way: [draft, edited]; Null when there is none ("testing")
  sent,    \* the request to save under way; Null when there is none ("saving")
  outcome, \* what the last test or request said, and of which draft: [ok, name, draft, edited]; Null for none ("result")
  added,   \* what the page says it has added: [named, saved, edited], with the host that was saved
           \* and whether the draft had been edited during its test, which the page does not keep
  accepted \* hosts the server has taken; the page does not know

vars == <<draft, tested, sent, outcome, added, accepted>>

\* A node is named by its hostname or its address: both stand for the node.
Draft == [host : Host \cup {Null}, secret : Secret \cup {Null}]
CanSubmit == draft.host # Null /\ draft.secret # Null

Init ==
  /\ draft = [host |-> Null, secret |-> Null]
  /\ tested = Null /\ sent = Null /\ outcome = Null
  /\ added = {} /\ accepted = {}

\* An edit made while a test is under way is remembered with it.
MarkEdited == tested' = IF tested = Null THEN Null ELSE [tested EXCEPT !.edited = TRUE]

\* Mutant: what a test has found outlives an edit.
Edit_KeepsResult(d) ==
  /\ draft' = d
  /\ MarkEdited
  /\ UNCHANGED <<sent, outcome, added, accepted>>

\* set(): of one field at a time.
Edit(d) ==
  /\ draft' = d
  /\ outcome' = Null
  /\ MarkEdited
  /\ UNCHANGED <<sent, added, accepted>>

Test ==
  /\ CanSubmit /\ tested = Null
  /\ tested' = [draft |-> draft, edited |-> FALSE]
  /\ outcome' = Null
  /\ UNCHANGED <<draft, sent, added, accepted>>

\* The answer, or the failure of the request, is shown whatever the draft is by then.  A node
\* that answers tells its name, unless its output was cut off.
TestAnswers(ok, name) ==
  /\ tested # Null
  /\ name # Null => ok /\ name = tested.draft.host
  /\ outcome' = [ok |-> ok, name |-> name, draft |-> tested.draft, edited |-> tested.edited]
  /\ tested' = Null
  /\ UNCHANGED <<draft, sent, added, accepted>>

Save ==
  /\ CanSubmit /\ sent = Null
  /\ outcome # Null /\ outcome.ok
  /\ sent' = [draft |-> draft, of |-> outcome]
  /\ UNCHANGED <<draft, tested, outcome, added, accepted>>

\* Saved: the page names the node as the test did that was shown when Save was pressed, or else
\* as the draft does.  The host is blanked, the credentials stay for the next; a host typed
\* meanwhile is lost.
Saved ==
  /\ sent # Null
  /\ accepted' = accepted \cup {sent.draft.host}
  /\ added' = added \cup
       {[named |-> IF sent.of.name # Null THEN sent.of.name ELSE sent.draft.host,
         saved |-> sent.draft.host, edited |-> sent.of.edited]}
  /\ draft' = [draft EXCEPT !.host = Null]
  /\ MarkEdited
  /\ outcome' = Null /\ sent' = Null

\* Refused, or unanswered: then the server may have taken it.
NotSaved(taken) ==
  /\ sent # Null
  /\ outcome' = [ok |-> FALSE, name |-> Null, draft |-> sent.draft, edited |-> FALSE]
  /\ accepted' = IF taken THEN accepted \cup {sent.draft.host} ELSE accepted
  /\ sent' = Null
  /\ UNCHANGED <<draft, tested, added>>

Next ==
  \/ \E h \in Host \cup {Null} : h # draft.host /\ Edit([host |-> h, secret |-> draft.secret])
  \/ \E s \in Secret \cup {Null} : s # draft.secret /\ Edit([host |-> draft.host, secret |-> s])
  \/ Test
  \/ \E ok \in BOOLEAN, name \in Host \cup {Null} : TestAnswers(ok, name)
  \/ Save
  \/ Saved
  \/ \E taken \in BOOLEAN : NotSaved(taken)

-----------------------------------------------------------------------------
\* A node is saved as it was tested, with success, and the page then names the node that the
\* server has taken, unless the draft was edited while that test was under way: then the answer
\* to the old draft unlocks the new one, although "any edit invalidates a previous check"
\* (Setup.tsx:57), and the page says that it added the node that was tested (Setup.tsx:105).
SavedWasTested ==
  /\ sent # Null => sent.of.ok /\ (sent.of.draft = sent.draft \/ sent.of.edited)
  /\ \A a \in added : a.saved \in accepted /\ (a.named = a.saved \/ a.edited)
================================================================================
