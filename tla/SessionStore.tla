---------------------------- MODULE SessionStore ----------------------------
(***************************************************************************)
(* What a session leaves behind: the conversation memory (memory.py), whose *)
(* last items are mirrored in one file per session, and the run documents   *)
(* of state/state_store.py as the operations on sessions                    *)
(* (handlers/session_handlers.py) see and change them.  Left out: secret    *)
(* redaction, encryption and clipping of what is stored, and the text the   *)
(* memory is rendered to.                                                   *)
(***************************************************************************)
EXTENDS Integers, FiniteSets, SequencesExt, Idempotency, Lists

CONSTANTS
    RawIds, KeyOfRaw,   \* session ids as given, and what is left of their characters
    Items,              \* memory items: [role, calls, answers]
    MemoryLimit,        \* max_items_per_session
    MaxMishaps,         \* bound: failed writes and crashes of the memory, unwritten summaries
    RunIds, NamedSessions,   \* fresh run ids; sessions clients name
    Keys, NoKeyGiven,   \* idempotency keys, NoKeyGiven among them
    Texts,              \* messages of runs
    MetaKeys,
    KeyCap              \* idempotency_registry_max_entries

ASSUME SessionStoreAssumption ==
    /\ IsFiniteSet(RawIds) /\ MemoryLimit \in Nat \ {0} /\ MaxMishaps \in Nat
    /\ NoKeyGiven \in Keys /\ KeyCap \in Nat
    /\ \A i \in Items : i.role \in {"user", "assistant", "tool", "plan"} /\ IsFiniteSet(i.calls)

-----------------------------------------------------------------------------
(* Conversation memory.                                                    *)

VARIABLES
    memory,     \* [key -> items], oldest first
    file,       \* [key -> items in its file]
    unsaved,    \* history: keys with an item that was not written
    mishaps
memoryVars == <<memory, file, unsaved, mishaps>>

MemoryKeys == {KeyOfRaw[s] : s \in RawIds}
Trimmed(items) == Latest(items, MemoryLimit)

MemoryInit ==
    /\ memory = [k \in MemoryKeys |-> <<>>] /\ file = memory
    /\ unsaved = {} /\ mishaps = 0

Synthetic(id) == [role |-> "tool", calls |-> {}, answers |-> {id}]

(* Calls no item answered, when the first n items have been read: a tool's
   item settles what it answers, a user's whatever is open. *)
Settles(item, id) == item.role = "user" \/ (item.role = "tool" /\ id \in item.answers)
OpenAfter(items, n) ==
    {id \in UNION {items[j].calls : j \in 1..n} :
        \E j \in 1..n : /\ items[j].role = "assistant" /\ id \in items[j].calls
                       /\ \A i \in j + 1 .. n : ~Settles(items[i], id)}

(* repair_orphaned_tool_calls: what is open before a user's message, or at
   the end, gets a synthetic answer there. *)
Answered(open) == [n \in 1 .. Cardinality(open) |-> Synthetic(SetToSeq(open)[n])]
OwedBefore(items, n) == IF items[n].role = "user" THEN OpenAfter(items, n - 1) ELSE {}
Repaired(items) ==
    LET read[n \in 0..Len(items)] ==
          IF n = 0 THEN <<>> ELSE Append(read[n - 1] \o Answered(OwedBefore(items, n)), items[n])
    IN read[Len(items)] \o Answered(OpenAfter(items, Len(items)))

(* sanitize_session_history: of two items of one speaker in a row, with no
   tool's or plan's between, the later goes. *)
Repeats(items, n) ==
    n > 1 /\ items[n].role \in {"user", "assistant"} /\ items[n].role = items[n - 1].role
Sanitized(items) == OnlyAt(items, {n \in DOMAIN items : ~Repeats(items, n)})

(* add: memory first, then the file, which is rewritten when it is too long. *)
AddItem(s, item) ==
    LET k == KeyOfRaw[s] IN
    /\ memory' = [memory EXCEPT ![k] = Trimmed(Append(@, item))]
    /\ \/ file' = [file EXCEPT ![k] = Trimmed(Append(@, item))] /\ UNCHANGED <<unsaved, mishaps>>
       \/ /\ mishaps < MaxMishaps /\ mishaps' = mishaps + 1
          /\ unsaved' = unsaved \union {k} /\ UNCHANGED file

RewriteMemoryOnly(k, items) ==
    /\ memory' = [memory EXCEPT ![k] = Trimmed(items)]
    /\ UNCHANGED <<file, unsaved, mishaps>>

\* The file becomes what memory holds.
Rewrite(k, items) ==
    /\ memory' = [memory EXCEPT ![k] = Trimmed(items)]
    /\ file' = [file EXCEPT ![k] = Trimmed(items)]
    /\ unsaved' = unsaved \ {k} /\ UNCHANGED mishaps
Repair(s) ==
    LET k == KeyOfRaw[s] IN Repaired(memory[k]) # memory[k] /\ Rewrite(k, Repaired(memory[k]))
Sanitize(s) ==
    LET k == KeyOfRaw[s] IN Sanitized(memory[k]) # memory[k] /\ Rewrite(k, Sanitized(memory[k]))

(* clear_all passes over the files it cannot remove. *)
ClearMemory ==
    /\ memory' = [k \in MemoryKeys |-> <<>>]
    /\ \E stuck \in SUBSET MemoryKeys :
         /\ mishaps' = mishaps + Cardinality(stuck) /\ mishaps' <= MaxMishaps
         /\ file' = [k \in MemoryKeys |-> IF k \in stuck THEN file[k] ELSE <<>>]
         /\ unsaved' = {k \in stuck : file[k] # <<>>}

(* A restart loads the files.  A crash while one is rewritten loses it. *)
Load(files) == memory' = [k \in MemoryKeys |-> Trimmed(files[k])] /\ file' = files /\ unsaved' = {}
RestartMemory == Load(file) /\ UNCHANGED mishaps
CrashInRewrite(s) ==
    /\ Len(file[KeyOfRaw[s]]) = MemoryLimit
    /\ mishaps < MaxMishaps /\ mishaps' = mishaps + 1
    /\ Load([file EXCEPT ![KeyOfRaw[s]] = <<>>])

MemoryNext ==
    \/ \E s \in RawIds : (\E i \in Items : AddItem(s, i)) \/ Repair(s) \/ Sanitize(s) \/ CrashInRewrite(s)
    \/ ClearMemory \/ RestartMemory

-----------------------------------------------------------------------------
(* Run documents and the operations on sessions.                           *)

VARIABLES
    docs,       \* [run -> document, or NoDoc]
    recent,     \* runs with a document, the last written first
    snaps,      \* [run -> status in its summary snapshot, or "none"]
    torn,       \* history: runs whose snapshot could not be written
    answered,   \* idempotency registries "run", "patch" and "reset"
    reply,      \* the run and session of the last answer
    started,    \* history: [key -> runs started with it]
    dropped     \* history: keys whose entry was pruned
docVars == <<docs, recent, snaps, torn, answered, reply, started, dropped>>

Doc(own, status, meta) == [session |-> own, status |-> status, meta |-> meta]
NoDoc == Doc("none", "none", {})
Reply(r, s) == [run |-> r, session |-> s]
NoReplyYet == Reply("none", "none")
Stored == {r \in RunIds : docs[r] # NoDoc}

DocsInit ==
    /\ docs = [r \in RunIds |-> NoDoc] /\ recent = <<>> /\ snaps = [r \in RunIds |-> "none"] /\ torn = {}
    /\ answered = [run |-> <<>>, patch |-> <<>>, reset |-> <<>>] /\ reply = NoReplyYet
    /\ started = [k \in Keys |-> {}] /\ dropped = {}

\* _write_run: the document is replaced and is the latest.
Put(r, doc) == docs' = [docs EXCEPT ![r] = doc] /\ recent' = <<r>> \o Without(recent, r)

(* Session views over list_runs, the latest run first. *)
PlacesOf(s) == {i \in DOMAIN recent : docs[recent[i]].session = s}
RunAt(places) == IF places = {} THEN "none" ELSE recent[FirstAt(places)]
LatestRun(s) == RunAt(PlacesOf(s))
Shown(s, activeOnly) ==
    RunAt({i \in PlacesOf(s) : activeOnly => docs[recent[i]].status = "active"})

\* lookup_or_raise and register, in the registry ns; a key not given is neither.
Entry(ns, k) == IF k = NoKeyGiven THEN {} ELSE Hits(answered[ns], k)
Register(ns, k, print, value) ==
    IF k = NoKeyGiven THEN UNCHANGED <<answered, dropped>>
    ELSE \E left \in Registered(answered[ns], [key |-> k, print |-> print, value |-> value], KeyCap) :
         /\ answered' = [answered EXCEPT ![ns] = left]
         /\ dropped' = dropped \union (({e.key : e \in ToSet(answered[ns])} \union {k}) \ {e.key : e \in ToSet(left)})

\* An entry with the same fingerprint is the answer, another one a conflict.
Replay(ns, k, print) ==
    /\ \E e \in Entry(ns, k) : reply' = IF e.print = print THEN e.value ELSE NoReplyYet
    /\ UNCHANGED <<docs, recent, snaps, torn, answered, started, dropped>>

(* sessions.send runs in the session, sessions.spawn in a new one, named here
   after the run.  Both keep their answers in the registry of runs. *)
StartRun(op, s, text, k) ==
    \E r \in RunIds \ Stored :
        LET own == IF op = "spawn" THEN r ELSE s
            value == Reply(r, own)
        IN /\ Entry("run", k) = {}
           /\ Put(r, Doc(own, "active", IF op = "spawn" THEN {"parent"} ELSE {}))
           /\ Register("run", k, <<s, text>>, value)
           /\ started' = IF k = NoKeyGiven THEN started ELSE [started EXCEPT ![k] = @ \union {r}]
           /\ reply' = value /\ UNCHANGED <<snaps, torn>>
Start(op, s, text, k) == Replay("run", k, <<s, text>>) \/ StartRun(op, s, text, k)

(* sessions.patch and sessions.reset change the document of the latest run. *)
ChangeMeta(op, s, keys, k) ==
    \/ Replay(op, k, <<s, keys>>)
    \/ /\ Entry(op, k) = {} /\ LatestRun(s) # "none"
       /\ LET r == LatestRun(s)
              meta == IF op = "reset" THEN {} ELSE docs[r].meta \union keys
              value == Reply(r, s)
          IN /\ Put(r, Doc(s, docs[r].status, meta))
             /\ Register(op, k, <<s, keys>>, value) /\ reply' = value
       /\ UNCHANGED <<snaps, torn, started>>

(* What the background run writes: events and tasks, which are not modelled,
   and its end.  The summary is
   written after the document, and may fail. *)
Rewritten(r) ==
    /\ docs[r] # NoDoc /\ Put(r, docs[r])
    /\ UNCHANGED <<snaps, torn, answered, reply, started, dropped>>
Mark(r, status) ==
    /\ docs[r] # NoDoc /\ Put(r, Doc(docs[r].session, status, docs[r].meta))
    /\ \/ snaps' = [snaps EXCEPT ![r] = status] /\ torn' = torn \ {r}
       \/ torn' = torn \union {r} /\ Cardinality(torn') <= MaxMishaps /\ UNCHANGED snaps
    /\ UNCHANGED <<answered, reply, started, dropped>>

DocsNext ==
    \/ \E s \in NamedSessions, k \in Keys :
         \/ \E op \in {"send", "spawn"}, text \in Texts : Start(op, s, text, k)
         \/ ChangeMeta("patch", s, MetaKeys, k) \/ ChangeMeta("reset", s, {}, k)
    \/ \E r \in RunIds :
         \/ Rewritten(r) \/ Mark(r, "completed") \/ Mark(r, "failed")

-----------------------------------------------------------------------------
StoreInit == MemoryInit /\ DocsInit
StoreNext == (MemoryNext /\ UNCHANGED docVars) \/ (DocsNext /\ UNCHANGED memoryVars)
StoreSpec == StoreInit /\ [][StoreNext]_<<memoryVars, docVars>>

SessionStoreTypeOK ==
    /\ \A k \in MemoryKeys : Len(memory[k]) <= MemoryLimit /\ Len(file[k]) <= MemoryLimit
    /\ unsaved \subseteq MemoryKeys /\ mishaps \in 0 .. MaxMishaps
    /\ ToSet(recent) = Stored /\ IsInjective(recent)
    /\ \A ns \in DOMAIN answered : Len(answered[ns]) <= KeyCap

(* The file of a session holds what is remembered, unless a write failed, and
   after a repair every call of a tool is answered before the user's next
   message, which another repair does not change. *)
MemorySound ==
    \A k \in MemoryKeys :
        /\ k \notin unsaved => file[k] = memory[k]
        /\ \A items \in {Repaired(memory[k])} :
             /\ Repaired(items) = items /\ OpenAfter(items, Len(items)) = {}
             /\ \A n \in DOMAIN items : items[n].role = "user" => OpenAfter(items, n - 1) = {}
        /\ Sanitized(Sanitized(memory[k])) = Sanitized(memory[k])

(* A snapshot tells the status of its document unless it could not be
   written; a session is listed with the run it is resolved to; an answer
   names a run of its session, also when it is replayed; and a key starts
   one run as long as its entry is kept. *)
SessionsSound ==
    /\ \A r \in RunIds : r \notin torn /\ snaps[r] # "none" => docs[r].status = snaps[r]
    /\ \A r \in RunIds : docs[r] # NoDoc /\ docs[r].status # "active" /\ r \notin torn => snaps[r] # "none"
    /\ \A s \in NamedSessions : /\ Shown(s, FALSE) = LatestRun(s)
                           /\ LatestRun(s) # "none" /\ docs[LatestRun(s)].status = "active"
                                => Shown(s, TRUE) = LatestRun(s)
    /\ reply.run # "none" => docs[reply.run].session = reply.session
    /\ \A k \in Keys \ {NoKeyGiven} : Cardinality(started[k]) > 1 => k \in dropped

(* What sessions leave behind: their items and their documents. *)
SessionStoreSound == SessionStoreTypeOK /\ MemorySound /\ SessionsSound
=============================================================================
