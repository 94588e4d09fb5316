------------------------------ MODULE ControlPanel ------------------------------
(***************************************************************************)
(* The control panel of the page (packages/web/src/components/              *)
(* ControlsView.tsx): an operation is previewed by the server, shown in a   *)
(* dialog, and carried out once it is confirmed there.  Answers arrive in   *)
(* any order, or not at all, and the page lets the operator go on           *)
(* meanwhile.  The node's containers may change between plan and deed.      *)
(***************************************************************************)
EXTENDS Integers, Sequences, SequencesExt, FiniteSets, FiniteSetsExt

CONSTANTS
  Container, Image,
  Req,     \* requests under way at a time
  LogSize, \* entries of the log (6)
  MaxOps,  \* bounds what is asked in all
  Null

VARIABLES
  defined, \* of each container its image; external, as is how it is defined
  allowed, \* control operations are enabled on the server
  status,  \* what the page knows of that: "unknown", "on" or "off"
  picker,  \* container and image of the open image picker: [target, image]
  pending, \* the operation in the dialog: [op, plan], or Null
  busy,
  reqs,    \* requests: [sort, op, shown, did]; sort "preview" or "confirm", Null when free
  log,     \* the newest first: [ok, did]
  asked

vars == <<defined, allowed, status, picker, pending, busy, reqs, log, asked>>

Op == {<<action, c>> : action \in {"start", "stop", "restart"}, c \in Container}
      \cup {<<"swap", c, i>> : c \in Container, i \in Image}

\* What the server says an operation would do: for a swap, from which image.
Plan == Op \cup {<<"swap", c, i, j>> : c \in Container, i, j \in Image}
PlanOf(op) == IF op[1] = "swap" THEN Append(op, defined[op[2]]) ELSE op

\* Null is neither an operation under way nor what one was shown.
Asking == [sort : {"preview", "confirm"}, op : Op, shown : Plan \cup {Null}, did : Plan \cup {Null}]
PanelAssumption == Null \notin Asking /\ LogSize \in Nat

Free(r) == reqs[r] = Null
Ask(r, sort, op, shown) ==
  /\ Free(r) /\ asked < MaxOps
  /\ asked' = asked + 1
  /\ reqs' = [reqs EXCEPT ![r] = [sort |-> sort, op |-> op, shown |-> shown, did |-> Null]]
Note(ok, did) == log' = SubSeq(<<[ok |-> ok, did |-> did]>> \o log, 1, Min({LogSize, Len(log) + 1}))

Init ==
  /\ defined \in [Container -> Image]
  /\ allowed \in BOOLEAN
  /\ status = "unknown"
  /\ picker = [target |-> Null, image |-> Null]
  /\ pending = Null /\ busy = FALSE
  /\ reqs = [r \in Req |-> Null] /\ log = <<>> /\ asked = 0

\* The answer to GET /api/control; without one the page takes it for off.
Learn(known) ==
  /\ status = "unknown"
  /\ status' = IF known /\ allowed THEN "on" ELSE "off"
  /\ UNCHANGED <<defined, allowed, picker, pending, busy, reqs, log, asked>>

\* "Change image": the picker opens at the container or closes; the image typed last stays in it.
Pick(c) ==
  /\ status # "unknown"
  /\ picker' = [picker EXCEPT !.target = IF picker.target = c THEN Null ELSE c]
  /\ UNCHANGED <<defined, allowed, status, pending, busy, reqs, log, asked>>
TypeImage(i) ==
  /\ picker.target # Null
  /\ picker' = [picker EXCEPT !.image = i]
  /\ UNCHANGED <<defined, allowed, status, pending, busy, reqs, log, asked>>

\* previewAction() and previewSwap(), up to their await.
PreviewAction(r, op) ==
  /\ status = "on" /\ op[1] # "swap"
  /\ Ask(r, "preview", op, Null)
  /\ UNCHANGED <<defined, allowed, status, picker, pending, busy, log>>
PreviewSwap(r) ==
  /\ picker.target # Null /\ picker.image # Null
  /\ Ask(r, "preview", <<"swap", picker.target, picker.image>>, Null)
  /\ UNCHANGED <<defined, allowed, status, picker, pending, busy, log>>

\* The server plans a preview; it plans a confirmed operation again, and carries it out.
Serve(r) ==
  /\ ~Free(r) /\ reqs[r].did = Null
  /\ reqs[r].sort = "confirm" => allowed
  /\ reqs' = [reqs EXCEPT ![r].did = PlanOf(reqs[r].op)]
  /\ defined' = IF reqs[r].sort = "confirm" /\ reqs[r].op[1] = "swap"
                THEN [defined EXCEPT ![reqs[r].op[2]] = reqs[r].op[3]] ELSE defined
  /\ UNCHANGED <<allowed, status, picker, pending, busy, log, asked>>

\* A preview is answered: the dialog shows it, whatever it showed before.
PreviewAnswers(r) ==
  /\ ~Free(r) /\ reqs[r].sort = "preview" /\ reqs[r].did # Null
  /\ pending' = [op |-> reqs[r].op, plan |-> reqs[r].did]
  /\ reqs' = [reqs EXCEPT ![r] = Null]
  /\ UNCHANGED <<defined, allowed, status, picker, busy, log, asked>>
\* It is answered with an error, or not at all; the former leaves a note.
PreviewFails(r, answered) ==
  /\ ~Free(r) /\ reqs[r].sort = "preview"
  /\ IF answered THEN Note(FALSE, Null) ELSE log' = log
  /\ reqs' = [reqs EXCEPT ![r] = Null]
  /\ UNCHANGED <<defined, allowed, status, picker, pending, busy, asked>>

\* confirm(), up to its await.
Confirm(r) ==
  /\ pending # Null /\ ~busy /\ status = "on"
  /\ Ask(r, "confirm", pending.op, pending.plan)
  /\ busy' = TRUE
  /\ UNCHANGED <<defined, allowed, status, picker, pending, log>>

\* Mutant: the dialog that is closed takes the running operation with it.
Cancel_Idle ==
  /\ pending # Null
  /\ pending' = Null /\ busy' = FALSE
  /\ UNCHANGED <<defined, allowed, status, picker, reqs, log, asked>>

\* Cancel closes the dialog; what is confirmed goes on.
Cancel ==
  /\ pending # Null
  /\ pending' = Null
  /\ UNCHANGED <<defined, allowed, status, picker, busy, reqs, log, asked>>

\* The answer to a confirmed operation, or the failure of its request, whether it was carried out or
\* not; the dialog is closed, also one that shows another operation by now.  What the server does
\* after a failure is the matter of ContainerControl.
ConfirmAnswers(r, ok) ==
  /\ ~Free(r) /\ reqs[r].sort = "confirm"
  /\ ok => reqs[r].did # Null
  /\ Note(ok, reqs[r].did)
  /\ busy' = FALSE /\ pending' = Null
  /\ reqs' = [reqs EXCEPT ![r] = Null]
  /\ UNCHANGED <<defined, allowed, status, picker, asked>>

\* Somebody else changes a container.
Elsewhere(c, i) ==
  /\ defined[c] # i
  /\ defined' = [defined EXCEPT ![c] = i]
  /\ UNCHANGED <<allowed, status, picker, pending, busy, reqs, log, asked>>

Next ==
  \/ \E known \in BOOLEAN : Learn(known)
  \/ \E c \in Container : Pick(c)
  \/ \E i \in Image : TypeImage(i)
  \/ \E r \in Req, op \in Op : PreviewAction(r, op)
  \/ \E r \in Req : PreviewSwap(r)
  \/ \E r \in Req : Serve(r)
  \/ \E r \in Req : PreviewAnswers(r)
  \/ \E r \in Req, answered \in BOOLEAN : PreviewFails(r, answered)
  \/ \E r \in Req : Confirm(r)
  \/ Cancel
  \/ \E r \in Req, ok \in BOOLEAN : ConfirmAnswers(r, ok)
  \/ \E c \in Container, i \in Image : Elsewhere(c, i)

-----------------------------------------------------------------------------
\* Nothing is carried out that the dialog did not show before it was confirmed
\* (ControlsView.tsx:4-7): what was done differs from what was shown at most by the image that a
\* swap replaces, since the server plans again (index.ts:444).  The page has one operation under way
\* at a time and knows it, whatever dialogs were closed and opened meanwhile, and calls done
\* only what was.
ConfirmedWasShown ==
  LET confirmed == {r \in Req : ~Free(r) /\ reqs[r].sort = "confirm"}
  IN /\ Cardinality(confirmed) = IF busy THEN 1 ELSE 0
     /\ \A r \in confirmed : reqs[r].did # Null =>
          /\ allowed
          /\ SubSeq(reqs[r].did, 1, Len(reqs[r].op)) = SubSeq(reqs[r].shown, 1, Len(reqs[r].op))
     /\ \A i \in DOMAIN log : log[i].ok => log[i].did # Null
================================================================================
