----------------------------- MODULE Providers ------------------------------
(***************************************************************************)
(* Model providers that are added, changed and removed while requests run, *)
(* and the model selected by default.                                      *)
(*                                                                         *)
(*   norax/runtime/model_management.py  ModelManagementMixin               *)
(*   norax/config/provider_store.py     ProviderStore                      *)
(*   norax/gateway_client/__init__.py   GatewayRouter                      *)
(*                                                                         *)
(* An edit writes one or two files, then changes the live routes, and      *)
(* writes the files back when the router refuses.  Edits exclude each      *)
(* other; requests, selections of the default model, shutdown and the      *)
(* death of the process come between their steps.  Writing a file may fail *)
(* before it is replaced or after it (fsync of the directory).  Reading    *)
(* one succeeds: that list_runtime and runtime_settings take a file they   *)
(* cannot read for an empty one is left out.                               *)
(***************************************************************************)
EXTENDS Naturals, Sequences, FiniteSets

CONSTANTS
    Names,          \* custom providers
    Queries,        \* concurrent requests to them
    MaxEdits,       \* bound: edits asked for
    MaxChoices,     \* bound: selections of the default model
    MaxRestarts,    \* bound: restarts
    None

ASSUME ProvidersAssumption ==
    /\ MaxEdits \in Nat /\ MaxChoices \in Nat /\ MaxRestarts \in Nat
    /\ \A nr \in 1..MaxChoices, p \in Names \cup {None} : None # [nr |-> nr, provider |-> p]

VARIABLES
    metaFile,       \* providers.json: the row of each provider
    keyFile,        \* provider-secrets.json, 0 for no key
    modelFile,      \* runtime-settings.json: default_model
    asked,          \* the edits that wait for _provider_mutation_lock
    edit,           \* the edit that holds it
    live,           \* GatewayRouter._providers: the client of each provider
    lease,          \* per request: the client it leased
    retired,        \* _retired_clients
    openClients,           \* the clients of this process that were not closed
    phase,          \* "up", "draining" or "closed" (the router is)
    model,          \* default_model
    pendingModel,        \* _pending_default_model
    persistTask,    \* _default_model_persist_task: the selection that started it
    writer,         \* per selection: the task that it started
    edits, choices, restarts,
    split,           \* history: the process died between the two files of an edit
    spoiled,        \* history: a file was replaced although its write failed, or not restored
    unsaved         \* history: selections whose write failed

diskVars  == <<metaFile, keyFile>>
routeVars == <<live, retired, openClients>>
modelVars == <<modelFile, model, pendingModel, persistTask, writer, choices, unsaved>>
providerVars ==
    <<diskVars, asked, edit, routeVars, lease, phase, modelVars, edits, restarts, split, spoiled>>

(* A row carries the number of the edit that wrote it and, as a ghost, the *)
(* key meant for it; a key is the number of the edit that supplied it.  A  *)
(* client is built from a row and a key.                                   *)
NoRow   == [version |-> 0, on |-> FALSE, key |-> 0]
NoEdit  == [name |-> None]
NoTask  == [at |-> "none", choice |-> None]

Client(n, row, key) == [name |-> n, version |-> row.version, key |-> key]

(* The clients that the files describe: Runtime.from_config. *)
Configured ==
    [n \in Names |-> IF metaFile[n].on THEN Client(n, metaFile[n], keyFile[n]) ELSE None]

LiveClients == {live[n] : n \in Names} \ {None}

ProvidersInit ==
    /\ metaFile = [n \in Names |-> NoRow] /\ keyFile = [n \in Names |-> 0]
    /\ asked = <<>> /\ edit = NoEdit
    /\ live = [n \in Names |-> None] /\ retired = {} /\ openClients = {}
    /\ lease = [q \in Queries |-> None]
    /\ phase = "up"
    /\ model = [nr |-> 0, provider |-> None] /\ modelFile = model
    /\ pendingModel = None /\ persistTask = 0
    /\ writer = [i \in 1..MaxChoices |-> NoTask]
    /\ edits = 0 /\ choices = 0 /\ restarts = 0
    /\ split = FALSE /\ spoiled = FALSE /\ unsaved = {}

-----------------------------------------------------------------------------
(* Requests *)

Leased(k) == \E q \in Queries : lease[q] = k

LeaseClient(n, q) ==
    /\ phase # "closed"
    /\ lease[q] = None /\ live[n] # None
    /\ lease' = [lease EXCEPT ![q] = live[n]]
    /\ UNCHANGED <<diskVars, asked, edit, routeVars, phase, modelVars, edits, restarts, split, spoiled>>

KeepRetired(k) == UNCHANGED <<retired, openClients>>     \* mutant: the last lease closes nothing
CloseRetired(k) ==
    IF k \in retired /\ ~\E q \in Queries : lease'[q] = k
      THEN retired' = retired \ {k} /\ openClients' = openClients \ {k}
      ELSE UNCHANGED <<retired, openClients>>

ReleaseClient(q) ==
    /\ lease[q] # None
    /\ lease' = [lease EXCEPT ![q] = None]
    /\ CloseRetired(lease[q])
    /\ UNCHANGED <<diskVars, asked, edit, live, phase, modelVars, edits, restarts, split, spoiled>>

(* _retire_client: a client in use stays open until its last lease. *)
CloseAtOnce(k) == retired' = retired /\ openClients' = openClients \ {k}   \* mutant
Retire(k) ==
    IF k # None /\ Leased(k)
      THEN retired' = retired \cup {k} /\ openClients' = openClients
      ELSE retired' = retired \ {k} /\ openClients' = openClients \ {k}

-----------------------------------------------------------------------------
(* Edits *)

(* kind: "on" and "off" are upserts with that value of enabled; key: what  *)
(* the caller supplied, "keep" when nothing.                               *)
EditRequests == [name : Names, kind : {"on", "off"}, key : {"keep", "new", "clear"}]
             \cup [name : Names, kind : {"remove"}, key : {"clear"}]

AskEdit ==
    /\ phase = "up" /\ edits < MaxEdits
    /\ edits' = edits + 1
    /\ \E r \in EditRequests : asked' = Append(asked, [r |-> r, version |-> edits'])
    /\ UNCHANGED <<diskVars, edit, routeVars, lease, phase, modelVars, restarts, split, spoiled>>

(* The row and the key on disk; an orphan key is not of the provider. *)
Previous(n)    == [row |-> metaFile[n], key |-> keyFile[n]]
PreviousKey(n) == IF metaFile[n] = NoRow THEN 0 ELSE keyFile[n]

InUse(n) == model.provider = n

(* Reasons for an edit to end before its first write. *)
Refused(r) ==
    IF r.kind = "remove"
      THEN metaFile[r.name] = NoRow \/ InUse(r.name)
      ELSE \/ metaFile[r.name] = NoRow /\ live[r.name] # None
           \/ r.kind = "off" /\ InUse(r.name)

KeyFor(r, v) ==
    CASE r.key = "keep"  -> PreviousKey(r.name)
      [] r.key = "new"   -> v
      [] r.key = "clear" -> 0

RowFor(r, v) ==
    IF r.kind = "remove" THEN NoRow
    ELSE [version |-> v, on |-> r.kind = "on", key |-> KeyFor(r, v)]

(* upsert commits the key before the row, remove the row before the key. *)
Files(r) ==
    CASE r.kind = "remove" -> <<"row", "key">>
      [] r.key = "keep"    -> <<"row">>
      [] OTHER             -> <<"key", "row">>

BeginEdit ==
    /\ edit = NoEdit /\ asked # <<>>
    /\ asked' = Tail(asked)
    /\ LET r == Head(asked).r  v == Head(asked).version IN
       IF Refused(r) THEN UNCHANGED <<edit, openClients>>
       ELSE LET k == IF r.kind = "on" THEN Client(r.name, RowFor(r, v), KeyFor(r, v)) ELSE None IN
            /\ edit' = [name |-> r.name, kind |-> r.kind, row |-> RowFor(r, v),
                        key |-> KeyFor(r, v), todo |-> Files(r), written |-> {},
                        was |-> Previous(r.name), client |-> k, undo |-> FALSE,
                        at |-> IF r.kind = "on" THEN "discover" ELSE "store"]
            /\ openClients' = openClients \cup ({k} \ {None})
    /\ UNCHANGED <<diskVars, live, retired, lease, phase, modelVars, edits, restarts, split, spoiled>>

(* An edit that fails closes the client it had made. *)
Abort == edit' = NoEdit /\ openClients' = openClients \ {edit.client} /\ UNCHANGED <<live, retired>>

Discover ==
    /\ edit # NoEdit /\ edit.at = "discover"
    /\ \/ edit' = [edit EXCEPT !.at = "store"] /\ UNCHANGED routeVars
       \/ Abort
    /\ UNCHANGED <<diskVars, asked, lease, phase, modelVars, edits, restarts, split, spoiled>>

(* The files after replacing those of F by row and key. *)
Replace(F, row, key) ==
    /\ metaFile' = IF "row" \in F THEN [metaFile EXCEPT ![edit.name] = row] ELSE metaFile
    /\ keyFile' = IF "key" \in F THEN [keyFile EXCEPT ![edit.name] = key] ELSE keyFile

WriteFile ==
    /\ edit # NoEdit /\ edit.at = "store"
    /\ Replace({Head(edit.todo)}, edit.row, edit.key)
    /\ LET rest == [edit EXCEPT !.todo = Tail(@), !.written = @ \cup {Head(edit.todo)}] IN
       CASE rest.todo # <<>> -> edit' = rest /\ UNCHANGED routeVars
         [] rest.todo = <<>> /\ ~edit.undo -> edit' = [rest EXCEPT !.at = "route"] /\ UNCHANGED routeVars
         [] rest.todo = <<>> /\ edit.undo -> Abort
    /\ UNCHANGED <<asked, lease, phase, modelVars, edits, restarts, split, spoiled>>

(* A write fails: the file written before it is put back. *)
NotPutBack == {}                                  \* mutant: the second file fails alone
PutBack == edit.written

WriteFails ==
    /\ edit # NoEdit /\ edit.at = "store"
    /\ \/ Replace(PutBack, edit.was.row, edit.was.key) /\ spoiled' = (spoiled \/ edit.undo)
       \/ (* the file was replaced before its write failed *)
          /\ IF Head(edit.todo) = "row"
               THEN /\ metaFile' = [metaFile EXCEPT ![edit.name] = edit.row]
                    /\ keyFile' = IF "key" \in PutBack
                                    THEN [keyFile EXCEPT ![edit.name] = edit.was.key] ELSE keyFile
               ELSE /\ keyFile' = [keyFile EXCEPT ![edit.name] = edit.key]
                    /\ metaFile' = IF "row" \in PutBack
                                     THEN [metaFile EXCEPT ![edit.name] = edit.was.row] ELSE metaFile
          /\ spoiled' = TRUE
       \/ (* putting back fails, too *)
          /\ edit.written # {}
          /\ UNCHANGED diskVars /\ spoiled' = TRUE
    /\ Abort
    /\ UNCHANGED <<asked, lease, phase, modelVars, edits, restarts, split>>

Committed == edit' = NoEdit

(* _restore_custom_provider writes the previous row and key, or removes.   *)
NoRestore == Abort                                \* mutant
Restore ==
    LET was == edit.was IN
    /\ edit' = [edit EXCEPT !.at = "store", !.undo = TRUE, !.written = {},
                            !.row = was.row, !.key = IF was.row = NoRow THEN 0 ELSE was.key,
                            !.todo = IF was.row = NoRow THEN <<"row", "key">> ELSE <<"key", "row">>,
                            !.was = [row |-> edit.row, key |-> keyFile[edit.name]]]
    /\ UNCHANGED routeVars

(* The routes change, unless the router was closed meanwhile. *)
Route ==
    /\ edit # NoEdit /\ edit.at = "route"
    /\ IF phase = "closed" /\ (edit.kind = "on" \/ live[edit.name] # None)
         THEN Restore
         ELSE /\ Committed
              /\ live' = [live EXCEPT ![edit.name] = edit.client]
              /\ Retire(live[edit.name])
    /\ UNCHANGED <<diskVars, asked, lease, phase, modelVars, edits, restarts, split, spoiled>>

-----------------------------------------------------------------------------
(* The default model *)

Busy(i) == i # 0 /\ writer[i].at \in {"new", "writing"}

SelectModel(p) ==
    /\ choices < MaxChoices
    /\ choices' = choices + 1
    /\ model' = [nr |-> choices', provider |-> p]
    /\ pendingModel' = model'
    /\ IF Busy(persistTask) THEN UNCHANGED <<persistTask, writer>>
       ELSE /\ persistTask' = choices'
            /\ writer' = [writer EXCEPT ![choices'].at = "new"]
    /\ UNCHANGED <<diskVars, asked, edit, routeVars, lease, phase, modelFile, edits, restarts, split, spoiled, unsaved>>

(* The loop of _persist_pending. *)
TakesOne(i) ==                                    \* mutant: no loop
    writer' = [writer EXCEPT ![i] = IF @.at = "writing" \/ pendingModel = None THEN [at |-> "done", choice |-> None]
                                    ELSE [at |-> "writing", choice |-> pendingModel]]
Turns(i) ==
    writer' = [writer EXCEPT ![i] = IF pendingModel = None THEN [at |-> "done", choice |-> None]
                                    ELSE [at |-> "writing", choice |-> pendingModel]]

StartWriter(i) ==
    /\ writer[i].at = "new"
    /\ Turns(i) /\ pendingModel' = None
    /\ UNCHANGED <<diskVars, asked, edit, routeVars, lease, phase, modelFile, model, persistTask,
                   choices, unsaved, edits, restarts, split, spoiled>>

WriteModel(i) ==
    /\ writer[i].at = "writing"
    /\ \/ modelFile' = writer[i].choice /\ UNCHANGED unsaved
       \/ modelFile' \in {modelFile, writer[i].choice} /\ unsaved' = unsaved \cup {writer[i].choice}
    /\ Turns(i) /\ pendingModel' = None
    /\ UNCHANGED <<diskVars, asked, edit, routeVars, lease, phase, model, persistTask,
                   choices, edits, restarts, split, spoiled>>

(* The done callback of the task. *)
Forgotten(i) == 0                                 \* mutant: forgets a newer task
Unreferenced(i) == IF persistTask = i THEN 0 ELSE persistTask

WriterFinished(i) ==
    /\ writer[i].at = "done"
    /\ writer' = [writer EXCEPT ![i].at = "over"]
    /\ persistTask' = Unreferenced(i)
    /\ UNCHANGED <<diskVars, asked, edit, routeVars, lease, phase, modelFile, model, pendingModel,
                   choices, unsaved, edits, restarts, split, spoiled>>

-----------------------------------------------------------------------------
(* Shutdown and restart *)

DrainProviders ==
    /\ phase = "up" /\ phase' = "draining"
    /\ UNCHANGED <<diskVars, asked, edit, routeVars, lease, modelVars, edits, restarts, split, spoiled>>

(* GatewayRouter.aclose, after waiting a bounded time for the edits. *)
CloseRouter ==
    /\ phase = "draining" /\ phase' = "closed"
    /\ openClients' = openClients \ (LiveClients \cup retired)
    /\ retired' = {}
    /\ UNCHANGED <<diskVars, asked, edit, live, lease, modelVars, edits, restarts, split, spoiled>>

(* The process ends, at any time, and starts from its files. *)
RestartProcess ==
    /\ restarts < MaxRestarts
    /\ restarts' = restarts + 1
    /\ split' = (split \/ (edit # NoEdit /\ edit.at = "store" /\ edit.written # {}))
    /\ asked' = <<>> /\ edit' = NoEdit
    /\ live' = Configured /\ openClients' = {Configured[n] : n \in Names} \ {None} /\ retired' = {}
    /\ lease' = [q \in Queries |-> None]
    /\ phase' = "up"
    /\ model' = modelFile /\ pendingModel' = None /\ persistTask' = 0
    /\ writer' = [i \in 1..MaxChoices |-> NoTask]
    /\ UNCHANGED <<diskVars, modelFile, edits, choices, spoiled, unsaved>>

ProvidersNext ==
    \/ AskEdit \/ BeginEdit \/ Discover \/ WriteFile \/ WriteFails \/ Route
    \/ \E q \in Queries : ReleaseClient(q) \/ \E n \in Names : LeaseClient(n, q)
    \/ \E p \in Names \cup {None} : SelectModel(p)
    \/ \E i \in 1..MaxChoices : StartWriter(i) \/ WriteModel(i) \/ WriterFinished(i)
    \/ DrainProviders \/ CloseRouter \/ RestartProcess

ProvidersSpec == ProvidersInit /\ [][ProvidersNext]_providerVars

-----------------------------------------------------------------------------
(* Properties *)

(* Between edits the router serves what the files describe, whichever step *)
(* of the edits before failed and was undone; and once no task is left to  *)
(* write it, the default model on disk is the one selected last, unless    *)
(* its own write failed.  Not promised: after a process died between the   *)
(* two files, or a file was replaced by a write that failed.               *)
FilesInStep ==
    /\ edit = NoEdit /\ ~split /\ ~spoiled => live = Configured
    /\ (\A i \in 1..MaxChoices : ~Busy(i)) => modelFile = model \/ model \in unsaved

(* Whenever the process dies, every provider in the file has the key that  *)
(* was saved with it: a secret without its provider stays out of reach.    *)
SavedWithItsKey ==
    edit = NoEdit /\ ~spoiled =>
      \A n \in Names : metaFile[n] # NoRow => keyFile[n] = metaFile[n].key

(* A client that a request still uses was not closed under it, unless the  *)
(* router is; and every client that was replaced, removed or never came to *)
(* be routed is closed when its last request ends: none leaks.             *)
ClientsAccounted ==
    /\ phase # "closed" => \A q \in Queries : lease[q] # None => lease[q] \in openClients
    /\ phase # "closed" => LiveClients \subseteq openClients
    /\ \A k \in openClients :
         \/ k \in LiveClients
         \/ k \in retired /\ Leased(k)
         \/ edit # NoEdit /\ edit.client = k
=============================================================================
