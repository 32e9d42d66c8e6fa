--------------------------- MODULE SnapshotWrites ---------------------------
(***************************************************************************)
(* What the tools that write the Inputs document of a draft promise its    *)
(* reviewer, without calls, tokens or a network.  A change of the document *)
(* that is not people's doing is a write some dry run has shown, made to   *)
(* the whole document as the draft had it at one moment, when it was what  *)
(* the caller expected.  They do not promise that it still is that when it *)
(* is replaced: whoever wrote in between is overwritten.                   *)
(***************************************************************************)
EXTENDS Naturals

CONSTANTS
  Draft,           \* the workspaces the MCP may write
  Document,        \* the documents people may write
  NoDoc,           \* the draft has no document of its own
  Expects(_, _),   \* Expects(p, doc): the write p may be made to doc
  Result(_, _)     \* Result(p, doc): the document p makes of doc

VARIABLES
  wsState,     \* [Draft -> state, or "absent"]
  overlay,     \* [Draft -> document, or NoDoc]
  mainline,    \* the document of a draft that has none
  edits,       \* how often people changed a document
  previewed,   \* the writes that dry runs have shown: <<tool, draft, args>>
  held         \* writes on their way, with the document each was made to

swVars == <<wsState, overlay, mainline, edits, previewed, held>>

DocOf(w) == IF overlay[w] = NoDoc THEN mainline ELSE overlay[w]

Init ==
  /\ wsState \in [Draft -> {"absent", "PENDING"}]
  /\ overlay = [w \in Draft |-> NoDoc]
  /\ mainline \in Document
  /\ edits = 0
  /\ previewed = {}
  /\ held = {}

Preview ==
  /\ \E p \in previewed' : previewed' = previewed \cup {p}
  /\ UNCHANGED <<wsState, overlay, mainline, edits, held>>

(* The document is read, found to be what is expected, and changed.        *)
Take(p) ==
  /\ Expects(p, DocOf(p[2]))
  /\ held' = held \cup {[write |-> p, before |-> DocOf(p[2])]}
  /\ UNCHANGED <<wsState, overlay, mainline, edits, previewed>>

(* Then it replaces whatever the draft has by now, or never arrives.       *)
Put(h) ==
  /\ wsState[h.write[2]] # "absent"
  /\ overlay' = [overlay EXCEPT ![h.write[2]] = Result(h.write, h.before)]
  /\ held' \in {held, held \ {h}}
  /\ UNCHANGED <<wsState, mainline, edits, previewed>>

Lose(h) ==
  /\ held' = held \ {h}
  /\ UNCHANGED <<wsState, overlay, mainline, edits, previewed>>

PeopleEdit(w, doc) ==
  /\ wsState[w] = "PENDING"
  /\ overlay' = [overlay EXCEPT ![w] = doc]
  /\ edits' = edits + 1
  /\ UNCHANGED <<wsState, mainline, previewed, held>>

MainlineMoves(doc) ==
  /\ mainline' = doc
  /\ edits' = edits + 1
  /\ UNCHANGED <<wsState, overlay, previewed, held>>

Submit(w) ==
  /\ wsState[w] = "PENDING"
  /\ wsState' = [wsState EXCEPT ![w] = "SUBMITTED"]
  /\ mainline' = DocOf(w)
  /\ UNCHANGED <<overlay, edits, previewed, held>>

Delete(w) ==
  /\ wsState[w] = "PENDING"
  /\ wsState' = [wsState EXCEPT ![w] = "absent"]
  /\ overlay' = [overlay EXCEPT ![w] = NoDoc]
  /\ UNCHANGED <<mainline, edits, previewed, held>>

Create(w) ==
  /\ wsState[w] = "absent"
  /\ wsState' = [wsState EXCEPT ![w] = "PENDING"]
  /\ edits' = edits + 1
  /\ UNCHANGED <<overlay, mainline, previewed, held>>

Next ==
  \/ Preview
  \/ \E p \in previewed : Take(p)
  \/ \E h \in held : Put(h) \/ Lose(h)
  \/ \E w \in Draft, doc \in Document : PeopleEdit(w, doc)
  \/ \E doc \in Document : MainlineMoves(doc)
  \/ \E w \in Draft : Submit(w) \/ Delete(w) \/ Create(w)

Spec == Init /\ [][Next]_swVars

=============================================================================
