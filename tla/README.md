# The tools of cloudvision-mcp, modelled, checked and proved

`src/` is an MCP server for Arista CloudVision: an assistant calls its tools,
and each tool asks or changes something over CloudVision's REST and gRPC APIs.
The tools that write (the Studios tools) may only prepare work in a *draft
workspace*, show what they would do before doing it, and compare before they
set. Of the tools that read, some read for minutes, with retries and from
several sources, while what they read changes. This directory states what both
are worth when several processes write at once, people work in the same drafts,
requests outlive the calls that sent them, answers get lost, cables are moved
and configurations change.

## Reading order

| file | what it is |
| --- | --- |
| `WriteCall.tla` | what every write tool shares: gates, preview token, life of a call |
| `WorkspaceTools.tla` | `create_cvp_workspace`, `delete_cvp_workspace`, `build_cvp_workspace` |
| `PreviewedWrites.tla` | what those three promise, with no calls, tokens or network |
| `SnapshotWrites.tla` | what the tools that write a whole Inputs document promise, with no calls, tokens or network |
| `AccessInterfaceTools.tla` | the three compare-and-set tools of the access interface studio |
| `StudioTools.tla` | `create_cvp_studio`, `delete_cvp_studio`, `assign_cvp_studio_tags` |
| `MssInputs.tla` | `set_cvp_mss_policy_inputs`: batches of operations on the MSS document |
| `PathInputs.tla` | `set_cvp_studio_inputs`: one row of any studio's Inputs |
| `ToolDispatch.tla` | `GroupedTool.execute`, the disable list, the rate limiter |
| `ConfigFetch.tla` | `device.config`: identification, three sources of the text, retries |
| `ReadServer.tla` | a process that serves reads: the two above composed |
| `LldpProbe.tla` | one LLDP probe: candidate paths, answers, rows |
| `TopologyScan.tla` | `topology.map` and `topology.lldp`: walk, probes, links, graph |
| `*_proofs.tla`, `Positions.tla` | theorems and their proofs; lemmas about least positions that four of them share |
| `MC*.tla`, `*.cfg` | the instances TLC checks |
| `PROJECT.json` | components, runs, mutants, hazards, findings, theorems, and the map from definitions to lines |

`WorkspaceTools`, `AccessInterfaceTools`, `StudioTools`, `MssInputs` and
`PathInputs` each EXTEND `WriteCall`. The first is shown to implement
`PreviewedWrites` (`Promise == INSTANCE PreviewedWrites WITH previewed <-
issued`), `AccessInterfaceTools` and `MssInputs` to implement `SnapshotWrites`,
where the requests that are still on the wire are the writes that are *held*
(`held <- {Held(q) : q \in Outstanding}`). `ReadServer` EXTENDS `ToolDispatch` and `ConfigFetch` and composes
their steps; `TopologyScan` EXTENDS `LldpProbe`.

## Inventory of the system

Paths are relative to `src/cvp_mcp/`.

| component | state | operations | modelled in |
| --- | --- | --- | --- |
| `write_access.py` | none; reads the environment | write gate, preview token, workspace id check | `WriteCall` |
| `grpc/resource_write.py` | none | one POST or DELETE through allowlists of paths, values and keys | every write module (not the allowlists) |
| `grpc/uri_fetch.py` | none | GET, POST, DELETE; NDJSON streams; concurrent POSTs | what a read may deliver, in the module that reads |
| `grpc/studios_write.py` | none | create, delete, build; description, profile, VLANs | `WorkspaceTools`, `AccessInterfaceTools` |
| `grpc/studio_crud.py`, `grpc/studio_tags.py` | none | create and delete a studio in a draft; replace its tag query | `StudioTools` |
| `grpc/studio_mss_inputs.py`, `grpc/inputs_digest.py` | none | operations on the MSS document, compared by digest | `MssInputs` |
| `grpc/studio_inputs_generic.py` | none | write of one row of any studio's Inputs | `PathInputs` |
| `grouped_tool.py`, `tool_access.py`, `tool_groups.py`, `register_grouped.py`, `schema_fields.py` | fixed at start | help, unknown actions, required arguments, disabled tools, rate limit | `ToolDispatch`, `WriteCall` |
| `rate_limit.py` | time stamps of recent calls, per process | allow or deny | `ToolDispatch` |
| `grpc/config.py`, `config_async_flow.py`, `config_connector.py`, `tools/device.py` | none | fetch a running configuration | `ConfigFetch` |
| `grpc/network_map.py`, `grpc/lldp.py`, `grpc/connector.py`, `tools/topology.py` | none | map of the network, LLDP of one device | `TopologyScan`, `LldpProbe` |
| `grpc/studios.py` | none | read workspaces, studios, inputs, builds | the steps of the write tools that read |
| `grpc/inventory.py`, `interfaces.py`, `device_resolve.py`, `hostname_resolve.py` | none | inventory, port lists, lookups by name | steps of `TopologyScan` and `ConfigFetch` |
| endpoint search, events, overlay, routing, flow, bugs, lifecycle, probes, compliance | none | one query and a reshaping | not modelled |
| `cloudvision_mcp.py`, `env.py`, `errors.py`, `transport_security_config.py` | configuration | start-up | not modelled |

Almost all state that matters is *outside* the program: in CloudVision
(workspaces, builds, studios, Inputs documents, the mainline, the datasets of
devices), in the network, and in the hands of callers (preview tokens). The only
state of a process is its rate limiter. A process serves one call at a time: the
tools are synchronous functions that the event loop calls. Concurrency comes
from other processes of the server, from people in CloudVision's UI, from the
build engine, from requests still on the wire after their caller has stopped
waiting, and from the network itself.

What is hard here, and where each is bitten is in `PROJECT.json` under
`hazards`:

* **read, then write.** Each write tool GETs, decides, and POSTs or DELETEs
  without a condition that CloudVision could test.
* **two GETs for one fact.** Studios, tag queries and Inputs rows are looked for
  in the draft and then on the mainline; things move from one to the other.
* **late requests.** After the 60 s timeout the caller is told the write failed;
  the request may still take effect, after other calls or a restart.
* **the token has no memory.** It is a digest of tool name and arguments: no
  nonce, no expiry, good for any process.
* **whole-document writes.** The comparison is of a leaf, an entry or a digest,
  the write is of the whole document.
* **silent loss.** The NDJSON helper skips a line without a result unwarned.
* **batches.** What an operation of a batch leaves dangling another may mend.
* **the window at its limit.** Calls that are denied, or exactly a period old.
* **three sources.** A text from the one must not pass for that of another
  device, another time, or for whole when it was cut.
* **a moving target.** A map takes thousands of probes; the ends of a cable are
  probed at different times, and answers come without ports.

## The models

### WriteCall

A process is a record `call[c]` whose `pc` walks `idle -> preflight -> ... ->
await -> idle`, with the GETs its tool makes in between. A step runs from one
HTTP answer to the next request: inside a process nothing else runs meanwhile,
so the last GET, the checks on its answer, the token check and the sending are
one action.

| definition | code |
| --- | --- |
| `DispatchRefusals` | `GroupedTool.execute` before the member is called |
| `writes[c]` | `CLOUDVISION_MCP_ALLOW_WRITES`; changes only in `Restart` |
| `PreviewToken`, `CheckPreviewToken` | the digest, taken to be its own preimage (no collisions) |
| `ValidateWorkspaceId`, `Draft`, `Foreign` | ids with the prefix `ws-mcp-`; all others |
| `Confirm` | `no`, `yes`, and `truthy`: the code tests `confirm is not True`, and once the truth of `confirm` |
| `Gate` | the end of each tool: dry run, refused, or sent |
| `late`, `GiveUp`, `Restart` | the request survives its caller |
| `stale` | **history**: what this call read was changed by somebody else since |

`stale` is what makes races expressible as state predicates. It is set on calls
and requests whenever another call, a person or the engine changes what they
had read; no guard of any model reads it. In the modules with drafts and
documents a second history variable, `touched`, is the set of drafts people
changed themselves (a submission touches all of them, as it changes the
mainline under them): what a draft *people left alone* holds is the tools' doing.

### WorkspaceTools

State: `wsState` (absent, PENDING, SUBMITTED, ABANDONED), `responses`
(`responses.values`), `running` (what the engine really executes; the code
cannot see it). Actions of the tools: `Invoke`, `Preflight`, then `Applied`
(carried out; the answer may still be lost), `Rejected` or `GiveUp`.
Environment: `OperatorSubmitsOrAbandons`, `EntryAppears`, `BuildFinishes`,
`AppliedLate`, `DroppedLate`, `Restart`.

CloudVision is modelled from how the code uses it, and permissively: it is taken
to accept a DELETE in any state, and a create of an existing workspace as a
mere rename; a build needs a pending workspace and an id not used there.
`EagerEntry` is the set of builds that `responses.values` names as soon as they
are accepted; the others it names later, or when they end. The code cannot know
which is which, and `UnracedBuildIsAlone` can only speak of the former.

### AccessInterfaceTools

One action sequence covers the description, the profile and the VLAN tool: a
leaf of the tree, what the caller expects there, the new value. State: one
`overlay` per draft (or `NoDoc`), the `mainline`. `ReadWorkspace` is the GET of
workspace and studio, `ReadDocument` the GET of `Inputs/all`, the comparison,
the lint of the new tree, the tree diff, and the gate. `Streams` is what the
NDJSON helper may deliver: the whole, or a part with a warning, or, if
`SilentLoss`, a part without one. `Blank` stands for whatever the tools read as
the empty string: no key, null, white space.

A port is a trunk if its `EffectiveMode` says so: its own mode, else that of its
profile, else of the profile's parent and so on; profiles may be defined twice,
have no parent that exists, or loop. The list of profiles (`PortProfiles`) and
the port's own mode (`PortMode`) are constants: none of these tools writes them.
`ProfileLists` are the lists a tree may have, over which
`ModeIsOfTheNearestProfile` speaks of the walk.
What changes is which profile a port has.

### StudioTools

State: `studio[w][s]` and `query[w][s]` for each draft and the mainline, a row
of the draft shadowing the mainline's. After `ReadWorkspace`, create and delete
make the two GETs of `_read_studio_anywhere` (`ReadDraftStudio`,
`ReadMainlineStudio`; a removed row is a 404 like one that never was), an assign
the one GET of `AssignedTags/all` (`ReadAssignedTags`), where a missing row
means the empty query. `InUse` is CloudVision's flag, taken to be "the query in
force is not empty". People put studios, assign queries, submit (`Merge`),
delete and recreate drafts meanwhile. `stale` follows what each call has read so
far: a change of the draft's studio does not make a call stale that has not
asked for it yet.

### MssInputs

A document is a record of its four collections, each a function from names to
entries or `Absent`, with the accepted groups and the monitors beside them, or
it is `Malformed`. `NormalizeOperations` checks a batch before any HTTP; `Apply`
folds `Step` over it, the first error winning; `CheckResult` judges the
references of the whole result and what the batch itself wrote. A digest is the
document it is the digest of; callers know the digests of what they could read
(`KnownDigests`). People may leave documents behind that the tool would not.

### PathInputs

A document is a function from the paths of its leaves to values.
`ChangedLeafPaths` compares two as the code does, reporting the container where
a container stands against a leaf; `LeafViolations` asks of each reported path
that its last name be allowed and none be forbidden; `Introduced` is the lint,
which subtracts the words found in the present document. The rows of the draft
are read first (`ReadDraftRows`), and only if it has none those of the mainline
(`ReadMainlineRows`). A POST copies the mainline's rows into a draft that has
none and replaces the row at its path. There is no expected value: the token
covers the new document only.

### ToolDispatch, ConfigFetch, ReadServer

`Execute(k)` asks the bucket of a limited tool (`Allow`: prune, compare, stamp)
after help, unknown actions, missing arguments and the disable list had their
say. A bucket is the set of numbered stamps of the calls it admitted; `ran` is
the history of all of them since the process started. `Tick` is the clock.

`ConfigFetch` is one call of `device.config` step by step: `Identify` (REST
inventory, `GetOne`, the stream by hostname, any of which may fail, with the
URIs asked for under the name that was given), `FetchUri`, the compliance
service for each key of the device with up to `MaxAttempts` attempts
(`GetConfig`, `TryAgain`, `NextKey`), and the `Connector`; `TooLate` is the
caller's own timeout. `version[d]` counts the configurations a device had. A
text is a device, a version and whether it is whole, cut, or something else.

`ReadServer` lets a process serve one call at a time: while a fetch is under way
only it, the clock and the devices move, or the process restarts with empty
buckets.

### LldpProbe, TopologyScan

The wiring is a set of segments of endpoints; `Heard` is what a port hears. A
probe tries its `PortPaths` in order and takes the first `Answers` that has
something. `connector.get` merges the notifications of an answer key by key and
without their paths: below a wildcard over neighbours one row remains, without
its port, in which `msap` (chassis and port together) is that of one neighbour
and `ethAddr`, another key, possibly that of another (`MergedRow`,
`MergedRows`). In a tree the neighbours are nested below one key, which a later
notification replaces whole, so its rows stay whole (`WholeTree`). The system
name is left out of rows: the map looks at it only where both MACs are missing,
and a neighbour always has its chassis. `TopologyScan` walks devices
and ports (`NextDevice`, `ListPorts`, `ProbePort`, `ProbeIndex`, `DeviceDone`),
merges edges into links by their `CanonicalLinkKey`
(`MergeBidirectionalEdges`), reads the inventory again and draws the graph
(`BuildLinks`, `BuildNodes` in `MapDone`); the sweep of one device tries the
wildcards over all ports first (`FullTree`), then its ports (`SweepPort`).
`Recabled`, `StreamingChanges` and faults of any read happen meanwhile. `heard`
is the history of who heard whom since the call began, `quiet` says that nothing
changed and nothing failed.


## Runs

The passing runs. Each property is stated in a comment in its module, and each
has a mutant in `PROJECT.json`: a plausible bug in one definition under which
TLC finds that property violated.

| run | instance | checks | states |
| --- | --- | --- | --- |
| `ws_one` | 1 process, 1 draft and 1 foreign workspace, 2 build ids of which 1 is named eagerly, 1 late request, fairness | `TypeOK`, `OnlyPreviewedDrafts`, `PreflightStillHolds`, `UnracedBuildIsAlone`, `KeepsPromise`, `CallAnswered`, `BuildsUnblock` | 224,985 |
| `port_safety` | 1 process, 1 draft, 1 port, 2 late requests, 2 edits by people | `TypeOK`, `UnracedWriteIsCompareAndSet`, `DraftHoldsOnlyPreviews`, `ModeIsOfTheNearestProfile`, `KeepsPromise` | 445,149 |
| `studio_safety` | 1 process, 1 draft, 1 studio, 2 templates of which 1 is disruptive, 2 queries | `TypeOK`, `UnracedWriteIsGuarded`, `DraftHoldsOnlyPreviews`, `ProtectedStudiosStay` | 1,176,010 |
| `mss_safety` | 1 process, 1 draft, 2 previews, batches of up to 3 operations, good and bad ones | `TypeOK`, `UnracedWriteDoesAsSaid`, `DraftDocumentsAreWhole`, `DraftIsAPreviewedDocument`, `KeepsPromise` | 560,552 |
| `path_safety` | 1 process, 1 draft, 1 preview, 8 small trees | `TypeOK`, `UnracedWriteChangesOnlyNamed`, `ForbiddenLeavesStay`, `WordsAreOfTheMainline`, `RowsWerePreviewed` | 555,822 |
| `topology` | 3 switches and a host, 2 ports each, 6 wirings, 4 kinds of map call, 1 change, 1 fault | `TypeOK`, `RowsWereHeard`, `VerifiedSidesHeardEachOther`, `QuietMapIsComplete`, `QuietSweepMissesNoPort`, `OneNodePerDevice` | 350,145 |
| `reads` | 1 process, 3 devices, 3 attempts, time up to 5 | `TypeOK`, `AtMostRateInAnyWindow`, `DeniedOnlyWhenFull`, `TextIsOfTheTarget`, `ComplianceTextIsOfTheCall`, `FullMeansWhole`, `SearchEnds` | 608,381 |

The runs that end in a violation are the findings below: `ws_refused`,
`port_lost_update` (2 processes), `port_silent_loss`, `topology_self_link` and
`topology_mixed_rows`.

What the safety runs ask, in a sentence each:

* **workspaces**: nothing is sent that was not previewed; what the last GET said
  still holds when the request is carried out, unless somebody changed it in
  between; a build does not start beside one that `responses.values` names.
* **port, studios, MSS, paths**: a write that nobody raced changes what its
  preview said and nothing else, against the value the caller expected where
  the tool has one; a draft people left alone holds only what previews explain.
  `ModeIsOfTheNearestProfile` compares the walk along parent profiles with a
  definition by distance for every list of up to three profiles over three
  names, with loops, doubles and parents that do not exist.
* **what a race cannot do** (`KeepsPromise` of `port_safety` and `mss_safety`):
  raced or not, and however late, what replaces a document is a previewed change
  of the whole document as its draft had it at one moment, and at that moment
  it was what the caller expected. What a race can do is lose what came between.
* **reads**: no window of a period ever holds more calls than the limit, and no
  call is denied that fits; a text is a text of the device that was meant, no
  older than the call where the compliance service gave it, and whole where the
  answer calls it full.
* **topology**: what is reported of a port was said on it during the call, by one
  neighbour or, merged, by several; the two sides of a verified link heard each
  other; a map of a network that kept still misses no cable; a device has one
  node. As a merged row is nobody's own (finding 5), the second speaks of links
  whose two sides are each of one neighbour, and only a merged row may make a
  second node. A probe that answers with the row of another port, a walk that
  skips one, or two reads of the inventory that differ are excused by nothing.
  The wirings `Hub` and `PortMacHub` are there for the merge: in the first a
  neighbour without `ethAddr` gets that of the host beside it, in the second the
  host's chassis can stand beside a port's MAC of a switch.

**Bounds.** `MaxLate` bounds the requests in flight behind their callers'
backs: one suffices for a late request to meet a newer call of the same process,
and `port_safety` has two, so late requests also meet each other. A late request
is a write by somebody else as far as a call is concerned, so one process with
late requests and people who edit meets every kind of pair of a read and a
write; two processes are needed only where both must be *callers*, in
`port_lost_update`. Two build ids let a build meet another. One port with a
profile and a VLAN list is the smallest tree with siblings *and* with the
dependence of one leaf on another. `MaxEdits` bounds changes by people (one in
`studio_safety`, `mss_safety` and `path_safety`); it also keeps a draft from
being recreated for ever. `MaxPreviews` bounds the tokens that are issued, and
`MaxOperations` a batch: three operations are enough to delete an entry, put it
back and reference it. `Foreign` is a draft of somebody: PENDING at the start of
the `ws` runs, so that its state may change. `topology` probes remote indices up
to `ExtraLimit` 2 (8 in the code): the first index that is not the ordinary
probe. `reads` starts fetches only while the clock is at its start: the clock
and buckets have no part in a fetch nor it in them. Time 5 is two periods and a
tick, so that a stamp expires and its place is taken. `VIEW NoCodes` forgets the
code of the last answer, which no action and no property of those runs reads.
The theorems have none of these bounds.

Deadlock is checked in all runs: people and callers can always act.

**Fairness.** In `ws_one` (`MCFairSpec`): `WF(CallProgress(c))`, a started call
takes its next step, as each GET and each POST has a 60 s timeout and there is
no retry loop; `WF(EngineProgress(w, r))`, the build engine names and ends the
builds it runs. The latter is an assumption about CloudVision, and what
`BuildsUnblock` shows under it is that the *code* recognises the end, successful
or not. In `reads`: a fetch takes its next step while it asks the configuration
URI (`urlopen` with 60 s) or the compliance service (60 s and 180 s per request,
in `config.py` and `config_async_flow.py`; the caller's own limit of four times
`RPC_TIMEOUT` ends nothing by itself, as the pool is left only when its thread
has ended). No such step is assumed of the identification nor of the Connector:
`stub.GetOne(req)` (`inventory.py:101`) and `client.get(query)`
(`connector.py:41`) have no timeout, and one that is never answered holds the
process for good. `SearchEnds` therefore promises of the two sources between
them that the search over them ends, and no more: that the server becomes free
again is not a property of this code. Nobody is obliged to call, submit, restart
or deliver a late request.

## Findings

1. `RefusedChangesNothing`: `_refused` says "no HTTP mutate happened", but it also
   wraps `resource_write_failed`, after the request was sent. A "refused",
   "dry_run" create can have created the workspace.
2. `PreservesSiblings`: "description CAS; preserve siblings"; two processes that
   read the same tree and write different leaves are both accepted and the
   second reverts the first.
3. `UnracedWriteIsCompareAndSet` under `SilentLoss` (a bug): the NDJSON helper
   skips a line that parses but has no result, with no warning, and the load
   then patches the mainline's document and posts it over the draft's.
4. `VerifiedLinksJoinTwoDevices` (a bug): the target of a confirmed link is
   looked up by what side b *hears*, and that is side a; the link is drawn from
   side a to side a, and the graph loses the cable it has just confirmed.
5. `EdgesAreOfOneNeighbor` (a bug): the edge of a port that hears several
   neighbours can carry the chassis and port of one and the `ethAddr` of another,
   an adjacency that does not exist. The docstring of `get_device_path_keyed`
   tells of this merge; the LLDP probes still use `get`.

A smaller disagreement has no run, as `DispatchRefusals` and `Absent` say it
outright: the phase 2 spec lets `""` stand for an unset leaf; the dispatcher
counts `""` as missing and refuses, so the compare-and-set tools cannot set the
first value of a leaf over MCP.

Where 3 is concerned, the code is `SilentLoss = TRUE`. The passing runs of the
tools that write documents, and the theorems marked below, are for
`SilentLoss = FALSE`: a CloudVision that never sends a line without a result, or
a helper that warned of it.

## Proofs

All theorems are for any sets of processes, drafts, workspaces, values, leaves,
devices, batches and any bounds, under the ASSUMEs of the modules
(`WriteCallAssumption`, `WorkspaceToolsAssumption`, `AccessInterfaceAssumption`
and so on: the constants are what their names say and do not overlap where the
code could tell them apart). TLC evaluates these on every run.

| module | theorem | states |
| --- | --- | --- |
| `WorkspaceTools_proofs` | `TypeCorrect` | `[]TypeOK`; in particular no build leaves without an id |
| | `WritesArePreviewed` | `[]OnlyPreviewedDrafts` |
| | `PreflightLasts` | `[]PreflightStillHolds` |
| | `BuildsAreAlone` | `[]UnracedBuildIsAlone` |
| | `Implements` | `Spec => KeepsPromise`, the refinement of `PreviewedWrites` |
| | `AcceptedMeansDone` | `AcceptedWriteIsDone`, an action property |
| `AccessInterfaceTools_proofs` | `TypeCorrect` | `[]TypeOK` |
| | `CompareAndSet` | `~SilentLoss`: `[]UnracedWriteIsCompareAndSet` |
| | `DraftsArePreviewed` | `[]DraftHoldsOnlyPreviews`, whatever is lost |
| | `ModesAreOfTheNearest` | `[]ModeIsOfTheNearestProfile` |
| | `Implements` | `~SilentLoss`: `Spec => KeepsPromise`, the refinement of `SnapshotWrites` |
| | `AcceptedMeansSwapped` | `~SilentLoss`: `AcceptedWriteIsTheSwap`, an action property |
| `StudioTools_proofs` | `TypeCorrect` | `[]TypeOK` |
| | `WritesAreGuarded` | `~SilentLoss`: `[]UnracedWriteIsGuarded` |
| | `DraftsArePreviewed` | `[]DraftHoldsOnlyPreviews` |
| | `ProtectedStay` | `[]ProtectedStudiosStay` |
| | `AcceptedMeansWritten` | `~SilentLoss`: `AcceptedWriteIsTheStudio`, an action property |
| `MssInputs_proofs` | `TypeCorrect` | `[]TypeOK` |
| | `WritesDoAsSaid` | `~SilentLoss`: `[]UnracedWriteDoesAsSaid` |
| | `DraftsWhole` | `[]DraftDocumentsAreWhole` |
| | `DraftsPreviewed` | `[]DraftIsAPreviewedDocument` |
| | `Implements` | `~SilentLoss`: `Spec => KeepsPromise`, the refinement of `SnapshotWrites` |
| | `AcceptedMeansApplied` | `~SilentLoss`: `AcceptedWriteAppliesTheBatch`, an action property |
| `PathInputs_proofs` | `TypeCorrect` | `[]TypeOK` |
| | `UnracedNamed` | `~SilentLoss`: `[]UnracedWriteChangesOnlyNamed` |
| | `ForbiddenStay` | `[]ForbiddenLeavesStay` |
| | `WordsStay` | `[]WordsAreOfTheMainline` |
| | `RowsPreviewed` | `[]RowsWerePreviewed` |
| | `AcceptedMeansReplaced` | `~SilentLoss`: `AcceptedWriteReplacesTheRow`, an action property |
| `ReadServer_proofs` | `TypeCorrect` | `[]TypeOK` |
| | `RateWindow`, `DeniedWhenFull` | `[]AtMostRateInAnyWindow`, `[]DeniedOnlyWhenFull` |
| | `TextOfTheTarget`, `ComplianceTextOfTheCall`, `FullIsWhole` | `[]TextIsOfTheTarget`, `[]ComplianceTextIsOfTheCall`, `[]FullMeansWhole` |
| `TopologyScan_proofs` | `TypeCorrect` | `[]TypeOK` |
| | `EveryRowWasHeard` | `[]RowsWereHeard` |
| | `VerifiedLinksAreCables` | `[]VerifiedSidesHeardEachOther` |
| | `EveryCableIsALink` | `[]QuietMapIsComplete` |
| | `EveryPortIsSwept` | `[]QuietSweepMissesNoPort` |
| | `DevicesHaveOneNode` | `[]OneNodePerDevice` |

Each module proves one inductive invariant (theorem `Invariance`), with a lemma
per action or per group of actions that disturb the same part, and derives the
properties from it.

*WorkspaceTools.* `OnlyPreviewedDrafts` and `PreflightStillHolds` speak of
requests on the wire; they are not inductive, as nothing in them says where a
request came from. `PendingCalls` adds that a call in its preflight names a
draft, fits its tool, holds a token that was issued if it is confirmed, and is
not stale; `SoundRequests` strengthens the two for every outstanding request.
`RunningIsOpen` (whatever is named eagerly and runs has an open entry) is what
makes the code's view of `responses.values` say something about the engine.
`Implements` uses `SoundRequests`: the effect of a sound request is a `Create`,
`Delete` or `Build` of `PreviewedWrites`, or no change.

*AccessInterfaceTools.* `PendingCalls` adds that a call past its first GET that
is not stale has a PENDING draft. `SoundRequests` says of a request that is not
stale that it is the compare-and-set asked for *now*, and of any request for a
draft people left alone that its body is explained by previews. For the latter
to survive a read, the documents it is read from must be explained too:
`SoundOverlays`.

`ModesAreOfTheNearest` compares two recursive functions on one list of profiles.
The walk is over pairs of names seen and name to look at, and exists because what
is left of it (`Left`) gets less (`WalkExists`); the line of ancestors is over
positions (`LineExists`). The walk ends at the
least place where there is no profile, a mode, or a name met before (`WalkEnds`,
by `FirstNumber`: a list has no more names than places, so there is such a
place). Up to there the walk is at the k-th ancestor after k steps
(`WalkFollowsLine`). If it ends at a mode, that is the nearest on the line
(`NearestProfileCounts`); if it ends without one it says that there is none
(`WalkIsBlank`), and nobody on the line has one, as the line has left the
profiles or goes round among those already met (`NobodyHasMode`).

*What an accepted answer means* (all five write modules). The invariants speak of
requests; these theorems speak of the step in which CloudVision acts. Only
`Applied` answers "accepted" (`AcceptedIsApplied`); the request of an unraced
call is what `SoundRequest` says; so in that very step what was promised is done
and nothing else is. Without "unraced" each of the five is false, as
`port_lost_update` shows of one of them. They are stated and proved in the proof
modules and have no run of their own.

*Refinements of SnapshotWrites* (`AccessInterfaceTools`, `MssInputs`). Writes are
held from the gate of a confirmed call to their effect or loss. `SoundRequest`
ties the body of a request to the document it was made from, so that the effect
is the `Put` of what is held; marking requests as stale changes nothing held;
`ReadDocument` takes the document of that step, which needs that every loss of
the stream is warned of. Two equal writes on the wire are one that is held, so a
`Put` may leave it held.

*StudioTools.* As above, but what a call has read so far grows with its `pc`: the
invariant says of a call past each GET that, unless it is stale, what it read is
what is there.

*MssInputs.* What has to be shown of a batch is a statement about a fold. After
`i` operations the document differs from the one before the batch only at
entries that operations up to `i` name, and whatever stands there stands as the
last of them left it; this is proved of the recursive function that applies the
batch by the least `i` at which it would fail. `DraftsWhole` needs a document
that is whole *relative to the mainline*: references may dangle only where they
dangle there, as people are not bound by `CheckResult`.

*PathInputs.* The lint and the leaf check look at differing paths of two trees.
The proof takes the least position at which the path of a changed leaf enters
what `ChangedLeafPaths` reports (lemma `FirstPosition` of `Positions`), so a
forbidden name on the path of any leaf that changes was seen by
`LeafViolations`. Documents are the same when they are faithfully copied:
`Faithful` relates the rows of a draft to those of the mainline they were
copied from.

*ReadServer.* The buckets forget stamps that are a period old; the invariant says
that every stamp of the last period is still in the bucket, so that the calls in
any window that ends now can be counted there. For a fetch: whatever was found so
far belongs to the device meant (its keys, its serial), and the version it is of
lies between the one asked for and the present one.

*TopologyScan.* A finished map is a function of its edges, so the invariant is about
these and where the walk stands. Ports it has not come to are `Ahead`. No edge is of
such a port; every edge was said on its port, by one neighbour or merged from
several (`MergedFacts`); a port has no two edges of one `Signature`
(`SoundEdges`), as what it has seen is kept until the walk leaves it (`Reached`); and
on a quiet network every port no longer ahead that hears one switch has its edge
(`Covers`). That step needs that a probe which never raised finds something if
there is something to hear (`ProbeAnswers`): among the candidates, and before the
first that could return a status nobody parses, there is one that is sure to answer
(`ProbePaths`). Two edges of one key name the same two devices and port numbers
(`KeyFacts`), whoever the rows are merged from. Unless something else heard
during the call looks the same (`Ambiguous`: crossed cables, or a merged row that
names the end of a cable), they are therefore of the same two ends
(`KeyIsCable`): the two sides of one cable, or the same edge twice, which
`SoundEdges` excludes. On a quiet network the edges of a cable are the only ones
of their key (`CableIsOneLink`). A node that is not a serial is the MAC or the
chassis of a remote nobody matched; of a whole row both are of one device, so
that device is not in the inventory (`UnmatchedRemote`).

Only model-checked: liveness (`CallAnswered`, `BuildsUnblock`,
`SearchEnds`; outside the prover's reach, as ENABLED is) and the five
violations. Every invariant the passing runs check has a theorem.

## Assumptions to keep in mind

* CloudVision carries out a request at most once and whole; it may do so in more
  states than the tools ask for.
* Digests do not collide, and a token is learnt only from a dry run.
* `uuid4` gives an id nobody used. With finitely many ids the model takes a used
  one when all are used; the theorems do not need freshness.
* `in_use` of a studio says that the query in force is not empty.
* The first write of a path into a draft copies the mainline's rows; the order of
  named list entries means nothing.
* The compliance service resolves serials and host names and gives the
  configuration as of the timestamp it was asked for; the Connector notifies the
  neighbours below a wildcard in any order.
* The rate limiter is per process, and a restart empties it; a process runs one
  tool at a time, on one event loop.
* People's edits in the access interface studio are of values, not of the shape
  of the tree.

## Not modelled

* The allowlists of `resource_write.py`: no tool of this code sends anything
  outside them; they are a second line of defence.
* Which words the lint forbids, the syntax of VLAN lists, the lists of VLAN
  mismatches, error texts, schemas, the advisory warnings of the MSS tool: a
  refusal is a choice, a valid list a member of `ValidList`.
* How attributes of a merged link are blended, and the Mermaid, table and
  containerlab renderings of a map: layout of a graph that is modelled.
* The NDJSON parser and the concurrent POST helper themselves: the modules that
  read have what they may deliver. (Of several POSTs, one that raises leaves `None`
  and no error: a hazard, listed without a property.)
* Endpoint search and the other reads, start-up, transport, credentials: no
  state of their own and one query each; every one is listed in `PROJECT.json`
  with its reason.

## Plan

Done: the modules above with their runs and proofs. Left, in order of weight:

1. The NDJSON parser against "a complete stream is delivered, an incomplete one
   warned of", and the batch POST helper, over bounded inputs.
2. Endpoint search: which of the sources wins for a host that moves meanwhile.
