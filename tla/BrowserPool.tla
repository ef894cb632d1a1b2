---------------------------- MODULE BrowserPool ----------------------------
(***************************************************************************)
(* The pool of browser contexts (browser_pool.py) and the browser tools    *)
(* that use it (tools.py).  A tool gets its context under the pool's lock  *)
(* and uses it without; whose context it gets is the key the model names,  *)
(* or "default" (tool_registry.py, tools.py).  Who takes entries out of    *)
(* the table does so under the lock, and closes them without it, one after *)
(* another; only the eviction in get_context keeps the lock meanwhile.     *)
(* The browser itself (Playwright) is external.  Left out: pages' content  *)
(* and the filter of their requests.                                       *)
(***************************************************************************)
EXTENDS Integers, SequencesExt

CONSTANTS
    Users,          \* tool calls
    PoolKeys,       \* keys a model may name
    DefaultKey,
    MaxContexts,
    Contexts        \* contexts ever made

Nothing3 == "nothing"

\* Who closes contexts outside the lock: the eviction loop, sockets, the shutdown.
Closers == {"loop", "sockets", "shutdown"}

ASSUME BrowserPoolAssumption ==
    /\ MaxContexts \in Nat \ {0} /\ DefaultKey \in PoolKeys
    /\ Nothing3 \notin Users \union Contexts

VARIABLES
    browser,    \* "none", "up", "crashed" or "closed"
    table,      \* sequence of [key, ctx], least recently used first
    open,       \* contexts that are open in the browser
    poolLock,   \* user that holds _lock, or Nothing3
    user,       \* [user -> [key, at, ctx]]
    shutAt,     \* where the shutdown is
    idle,       \* how many entries were not used for longer than the time to live
    closing,    \* [closer -> contexts it took out of the table and has not closed yet]
    leaked      \* history: open contexts whose making or closing broke off
poolVars == <<browser, table, open, poolLock, user, shutAt, idle, closing, leaked>>

InTable == {table[n].ctx : n \in DOMAIN table}
KeysIn == {table[n].key : n \in DOMAIN table}
PlaceOf(key) == CHOOSE n \in DOMAIN table : table[n].key = key
\* An entry is taken out; the idle ones are the first.
TakeOut(n) == idle' = IF n <= idle THEN idle - 1 ELSE idle
InClosing == UNION {closing[k] : k \in Closers}
Fresh == Contexts \ (open \union InTable \union InClosing \union leaked \union {user[u].ctx : u \in Users})

\* No one knows of these contexts any more.
Abandons(contexts) == leaked' = leaked \union (contexts \cap open)

Visit(key, at, ctx) == [key |-> key, at |-> at, ctx |-> ctx]

PoolInit ==
    /\ browser = "none" /\ table = <<>> /\ open = {} /\ poolLock = Nothing3
    /\ user = [u \in Users |-> Visit(DefaultKey, "new", Nothing3)]
    /\ shutAt = "no" /\ idle = 0 /\ closing = [k \in Closers |-> {}] /\ leaked = {}

To(u, place) == user' = [user EXCEPT ![u] = Visit(user[u].key, place, user[u].ctx)]
\* A tool's call is over, with an answer or an error.
Ends(u) == user' = [user EXCEPT ![u] = Visit(DefaultKey, "over", Nothing3)]

(* get_context, in the parts its awaits make of it. *)
CallTool2(u, key) ==
    /\ user[u].at = "new" /\ user' = [user EXCEPT ![u] = Visit(key, "waiting", Nothing3)]
    /\ UNCHANGED <<browser, table, open, poolLock, shutAt, idle, closing, leaked>>
\* The context of the call's key, or the lock to make one.
LooksUp(u) ==
    IF user[u].key \in KeysIn
    THEN \E n \in {PlaceOf(user[u].key)} :
           /\ user' = [user EXCEPT ![u] = Visit(user[u].key, "using", table[n].ctx)]
           /\ table' = Append(RemoveAt(table, n), table[n]) /\ TakeOut(n) /\ UNCHANGED poolLock
    ELSE To(u, "evicting") /\ poolLock' = u /\ UNCHANGED <<table, idle>>
EnterPool(u) ==
    /\ user[u].at = "waiting" /\ poolLock = Nothing3
    /\ IF shutAt # "no" THEN Ends(u) /\ UNCHANGED <<table, poolLock, idle>>
       ELSE IF browser = "none" THEN To(u, "starting") /\ poolLock' = u /\ UNCHANGED <<table, idle>>
       ELSE LooksUp(u)
    /\ UNCHANGED <<browser, open, shutAt, closing, leaked>>
(* A browser that starts is there for good, even when it crashes; one that
   does not start leaves the lock free for the next attempt. *)
EnsureBrowser(u) ==
    /\ user[u].at = "starting"
    /\ browser' = "up" /\ To(u, "evicting")
    /\ UNCHANGED <<table, open, poolLock, shutAt, idle, closing, leaked>>
StartFails2(u) ==
    /\ user[u].at = "starting"
    /\ Ends(u) /\ poolLock' = Nothing3
    /\ UNCHANGED <<browser, table, open, shutAt, idle, closing, leaked>>

HasSpaceForOneMore == Len(table) <= MaxContexts

HasSpace == Len(table) < MaxContexts

(* The eviction keeps the lock; a close that fails is only logged. *)
EvictOldest(u) ==
    /\ user[u].at = "evicting" /\ ~HasSpace
    /\ table' = Tail(table) /\ TakeOut(1)
    /\ \/ open' = open \ {table[1].ctx} /\ UNCHANGED leaked
       \/ Abandons({table[1].ctx}) /\ UNCHANGED open
    /\ UNCHANGED <<browser, poolLock, user, shutAt, closing>>
(* The tool's time limit may pass while the old context is being closed. *)
EvictBreaksOff(u) ==
    /\ user[u].at = "evicting" /\ ~HasSpace
    /\ table' = Tail(table) /\ TakeOut(1) /\ Abandons({table[1].ctx})
    /\ Ends(u) /\ poolLock' = Nothing3
    /\ UNCHANGED <<browser, open, shutAt, closing>>
NewContext(u) ==
    /\ user[u].at = "evicting" /\ HasSpace /\ browser = "up"
    /\ Fresh # {}
    /\ \E c \in {CHOOSE c \in Fresh : TRUE} :
         open' = open \union {c} /\ user' = [user EXCEPT ![u] = Visit(user[u].key, "making", c)]
    /\ UNCHANGED <<browser, table, poolLock, shutAt, idle, closing, leaked>>
NewContextFails(u) ==
    /\ user[u].at = "evicting" /\ HasSpace
    /\ Ends(u) /\ poolLock' = Nothing3
    /\ UNCHANGED <<browser, table, open, shutAt, idle, closing, leaked>>
PageReady(u) ==
    /\ user[u].at = "making"
    /\ table' = Append(table, [key |-> user[u].key, ctx |-> user[u].ctx])
    /\ To(u, "using") /\ poolLock' = Nothing3
    /\ UNCHANGED <<browser, open, shutAt, idle, closing, leaked>>

(* new_page and route come after new_context; a failure or the tool's time
   limit in between loses the context. *)
PageFails(u) ==
    /\ user[u].at = "making"
    /\ Abandons({user[u].ctx}) /\ Ends(u)
    /\ poolLock' = Nothing3
    /\ UNCHANGED <<browser, table, open, shutAt, idle, closing>>

(* The tool works on the page, without the lock; a page whose context was
   closed meanwhile raises. *)
UsePage(u) ==
    /\ user[u].at = "using"
    /\ Ends(u)
    /\ UNCHANGED <<browser, table, open, poolLock, shutAt, idle, closing, leaked>>

\* The one that was used least recently is idle next.
GrowIdle ==
    /\ idle < Len(table) /\ idle' = idle + 1
    /\ UNCHANGED <<browser, table, open, poolLock, user, shutAt, closing, leaked>>

Takes(closer, contexts) == closing' = [closing EXCEPT ![closer] = @ \union contexts]

(* The loop's next round begins when it has closed what it took out. *)
EvictIdle ==
    /\ poolLock = Nothing3 /\ idle > 0 /\ shutAt = "no" /\ closing["loop"] = {}
    /\ table' = SubSeq(table, idle + 1, Len(table)) /\ idle' = 0
    /\ Takes("loop", {table[n].ctx : n \in 1 .. idle})
    /\ UNCHANGED <<browser, open, poolLock, user, shutAt, leaked>>
(* A socket that closes closes the contexts named like its sessions. *)
CloseSession(session) ==
    /\ poolLock = Nothing3 /\ session \in KeysIn
    /\ \E n \in {PlaceOf(session)} : table' = RemoveAt(table, n) /\ Takes("sockets", {table[n].ctx}) /\ TakeOut(n)
    /\ UNCHANGED <<browser, open, poolLock, user, shutAt, leaked>>
(* _close_entry: the context is closed, or its closing fails or is cut off. *)
CloseEntry(closer) ==
    /\ \E c \in closing[closer] :
         /\ closing' = [closing EXCEPT ![closer] = @ \ {c}]
         /\ \/ open' = open \ {c} /\ UNCHANGED leaked
            \/ Abandons({c}) /\ UNCHANGED open
    /\ UNCHANGED <<browser, table, poolLock, user, shutAt, idle>>

BrowserCrashes ==
    /\ browser = "up" /\ browser' = "crashed" /\ open' = {} /\ leaked' = {}
    /\ UNCHANGED <<table, poolLock, user, shutAt, idle, closing>>
(* The loop is cancelled, wherever it is in closing what it took out. *)
ShutBegins ==
    /\ shutAt = "no" /\ shutAt' = "waiting"
    /\ closing' = [closing EXCEPT !["loop"] = {}] /\ Abandons(closing["loop"])
    /\ UNCHANGED <<browser, table, open, poolLock, user, idle>>
ShutClears ==
    /\ shutAt = "waiting" /\ poolLock = Nothing3
    /\ shutAt' = "closing" /\ table' = <<>> /\ idle' = 0 /\ Takes("shutdown", InTable)
    /\ UNCHANGED <<browser, open, poolLock, user, leaked>>
(* Closing the browser closes what is still open in it. *)
ShutEnds ==
    /\ shutAt = "closing" /\ closing["shutdown"] = {} /\ shutAt' = "done"
    /\ browser' = (IF browser = "none" THEN "none" ELSE "closed") /\ open' = {} /\ leaked' = {}
    /\ UNCHANGED <<table, poolLock, user, idle, closing>>

PoolNext ==
    \/ \E u \in Users :
         \/ \E key \in PoolKeys : CallTool2(u, key)
         \/ EnterPool(u) \/ EnsureBrowser(u) \/ StartFails2(u) \/ EvictOldest(u) \/ EvictBreaksOff(u) \/ NewContext(u) \/ NewContextFails(u)
         \/ PageReady(u) \/ PageFails(u) \/ UsePage(u)
    \/ \E session \in PoolKeys \ {DefaultKey} : CloseSession(session)
    \/ \E closer \in Closers : CloseEntry(closer)
    \/ GrowIdle \/ EvictIdle \/ BrowserCrashes \/ ShutBegins \/ ShutClears \/ ShutEnds
PoolSpec == PoolInit /\ [][PoolNext]_poolVars

(* What the event loop runs when it is ready; the browser answers in time. *)
UserStep(u) ==
    \/ EnterPool(u) \/ EnsureBrowser(u) \/ StartFails2(u) \/ EvictOldest(u) \/ EvictBreaksOff(u)
    \/ NewContext(u) \/ NewContextFails(u) \/ PageReady(u) \/ PageFails(u) \/ UsePage(u)
ShutStep == ShutClears \/ ShutEnds

-----------------------------------------------------------------------------
BrowserPoolTypeOK ==
    /\ open \subseteq Contexts /\ leaked \subseteq open /\ idle \in 0 .. Len(table)
    /\ closing \in [Closers -> SUBSET Contexts]
    /\ poolLock \in Users \union {Nothing3}

(* The table keeps its limit and a context for each key.  A context that was
   taken out to be closed, or was lost, is not in the table: no later call gets
   it, and no two closers have it.  What is open beyond the table is with a
   closer, or being made, or was lost when its making or closing broke off;
   after the shutdown nothing is open.  Two calls that use one context asked
   for it by one key (browser_pool.py). *)
BrowserPoolSound ==
    /\ BrowserPoolTypeOK
    /\ Len(table) <= MaxContexts
    /\ \A m, n \in DOMAIN table : m # n => table[m].key # table[n].key /\ table[m].ctx # table[n].ctx
    /\ InTable \cap (InClosing \union leaked) = {}
    /\ \A k, l \in Closers : k # l => closing[k] \cap (closing[l] \union leaked) = {}
    /\ \A c \in open : c \in InTable \union InClosing \union leaked \/ \E u \in Users : user[u].at = "making" /\ user[u].ctx = c
    /\ browser = "up" => InTable \subseteq open
    /\ shutAt = "done" => (open = {} /\ table = <<>>)
    /\ \A u, v \in Users : (user[u].at = "using" /\ user[v].at = "using" /\ user[u].ctx = user[v].ctx) => user[u].key = user[v].key

(* At rest: no call waits for the pool or its browser, what was taken out of
   the table is dealt with, and a shutdown that began has ended: the lock of
   browser_pool.py is released on every path. *)
PoolQuiet ==
    /\ \A u \in Users : user[u].at \in {"new", "over"}
    /\ InClosing = {}
    /\ shutAt \in {"no", "done"}
=============================================================================
