-------------------------- MODULE ToolCalls_proofs --------------------------
(***************************************************************************)
(* Proofs about the tools of an agent, for every value of the constants:   *)
(* the policy that admits a call, its retries, the registration of MCP     *)
(* servers and the streams their calls share (ToolInvoke), and the loop    *)
(* with its budget, its gatekeeper and its results (ToolLoop).             *)
(***************************************************************************)
EXTENDS ToolCalls, Lists_proofs

-----------------------------------------------------------------------------
(* ToolInvoke: the policy.  What is denied holds for every request, so it   *)
(* needs no invariant.                                                      *)

LEMMA PolicyParts ==
    ASSUME NEW allow, NEW deny, NEW also
    PROVE  /\ Policy(allow, deny, also).allow = allow /\ Policy(allow, deny, also).deny = deny
           /\ Policy(allow, deny, also).also = also
BY DEF Policy

LEMMA DenyingParts ==
    ASSUME NEW w, NEW d
    PROVE  LET v == DenyingToo(w, d)
           IN  /\ v.allow = w.allow /\ v.deny = w.deny \union d /\ v.also = w.also /\ v.override = w.override
               /\ v.agent = w.agent /\ v.preset = w.preset /\ v.runtime = w.runtime /\ v.model = w.model
               /\ v.depth = w.depth /\ v.socket = w.socket /\ v.vision = w.vision
BY DEF DenyingToo, Wish

\* What an override leaves of the layers' denials, and what it adds.
LEMMA OverriddenKeeps ==
    ASSUME NEW w
    PROVE  /\ Layered(w).deny \subseteq Overridden(w).deny \union w.override.allow
           /\ Overridden(w).also \subseteq w.override.also
<1>1. Layered(w).also = {}
  BY PolicyParts DEF Layered
<1>2. CASE w.override = Nothing
  BY <1>1, <1>2 DEF Overridden
<1>3. CASE w.override # Nothing
  <2>1. /\ Overridden(w).deny = (Layered(w).deny \ Named(w)) \union w.override.deny
        /\ Overridden(w).also = w.override.also
    BY <1>3, PolicyParts DEF Overridden
  <2> QED
    BY <2>1 DEF Named
<1> QED
  BY <1>2, <1>3

LEMMA ResolvedKeeps ==
    ASSUME NEW w
    PROVE  /\ Resolved(w).allow = Overridden(w).allow /\ Resolved(w).deny = Overridden(w).deny
           /\ Resolved(w).also = IF Added(w) = {} THEN Overridden(w).also ELSE Added(w)
<1>1. CASE Added(w) = {}
  BY <1>1 DEF Resolved
<1>2. CASE Added(w) # {}
  BY <1>2, PolicyParts DEF Resolved
<1> QED
  BY <1>1, <1>2

\* The adapter of the agent denies more and adds nothing.
LEMMA ForAgentKeeps ==
    ASSUME NEW w
    PROVE  /\ Resolved(w).deny \union w.agent.deny \subseteq ForAgent(w).deny
           /\ ForAgent(w).also \subseteq Resolved(w).also
<1>1. Resolved(w).deny \subseteq WithOwn(w).deny /\ WithOwn(w).also \subseteq Resolved(w).also
  BY PolicyParts DEF WithOwn
<1>2. WithOwn(w).deny \union w.agent.deny \subseteq ForAgent(w).deny /\ ForAgent(w).also \subseteq WithOwn(w).also
  <2>1. CASE w.agent.readOnly
    BY <2>1, PolicyParts DEF ForAgent
  <2>2. CASE ~w.agent.readOnly /\ w.agent.deny # {}
    BY <2>2, PolicyParts DEF ForAgent
  <2>3. CASE ~w.agent.readOnly /\ w.agent.deny = {}
    BY <2>3 DEF ForAgent
  <2> QED
    BY <2>1, <2>2, <2>3
<1> QED
  BY <1>1, <1>2

Base(w) == Narrowed(IF w.vision THEN Catalog ELSE Catalog \ {Vision}, ConfigAllow)

LEMMA AllowedIs ==
    ASSUME NEW w
    PROVE  Allowed(w) = (Requested(Base(w), ForAgent(w).allow) \union Known(ForAgent(w).also)) \ Denied(ForAgent(w))
BY DEF Allowed, Base

LEMMA AllowedFits ==
    ASSUME NEW w
    PROVE  /\ Allowed(w) \subseteq Base(w) \union Known(ForAgent(w).also)
           /\ Base(w) \subseteq Catalog /\ Base(w) \subseteq Narrowed(Catalog, ConfigAllow)
           /\ Allowed(w) \cap ForAgent(w).deny = {} /\ Allowed(w) \cap ConfigDeny = {}
<1>1. Base(w) \subseteq Catalog /\ Base(w) \subseteq Narrowed(Catalog, ConfigAllow)
  BY DEF Base, Narrowed
<1>2. Requested(Base(w), ForAgent(w).allow) \subseteq Base(w)
  BY DEF Requested
<1>3. \A t \in Catalog : t \in ForAgent(w).deny \union ConfigDeny => t \in Denied(ForAgent(w))
  BY DEF Denied, Known
<1>4. Known(ForAgent(w).also) \subseteq Catalog
  BY DEF Known
<1> QED
  BY <1>1, <1>2, <1>3, <1>4, AllowedIs

\* More denied by the request is more denied in the end, and nothing else.
LEMMA DenyingLess ==
    ASSUME NEW w, NEW d
    PROVE  Allowed(DenyingToo(w, d)) \subseteq Allowed(w)
<1> DEFINE v == DenyingToo(w, d)
<1>1. /\ v.allow = w.allow /\ v.deny = w.deny \union d /\ v.also = w.also /\ v.override = w.override
      /\ v.agent = w.agent /\ v.preset = w.preset /\ v.runtime = w.runtime /\ v.model = w.model
      /\ v.depth = w.depth /\ v.socket = w.socket /\ v.vision = w.vision
  BY DenyingParts
<1> HIDE DEF v
<1>2. Layered(v).allow = Layered(w).allow /\ Layered(w).deny \subseteq Layered(v).deny /\ Layered(v).also = Layered(w).also
  BY <1>1, PolicyParts DEF Layered, DepthDeny
<1>3. Overridden(v).allow = Overridden(w).allow /\ Overridden(w).deny \subseteq Overridden(v).deny
      /\ Overridden(v).also = Overridden(w).also
  <2>1. CASE w.override = Nothing
    BY <1>1, <1>2, <2>1 DEF Overridden
  <2>2. CASE w.override # Nothing
    BY <1>1, <1>2, <2>2, PolicyParts DEF Overridden, Named
  <2> QED
    BY <2>1, <2>2
<1>4. Added(v) = Added(w)
  BY <1>1 DEF Added
<1>5. Resolved(v).allow = Resolved(w).allow /\ Resolved(w).deny \subseteq Resolved(v).deny
      /\ Resolved(v).also = Resolved(w).also
  BY <1>3, <1>4, ResolvedKeeps
<1>6. WithOwn(v).allow = WithOwn(w).allow /\ WithOwn(w).deny \subseteq WithOwn(v).deny
      /\ WithOwn(v).also = WithOwn(w).also
  <2>1. CASE w.agent.flow
    BY <1>1, <1>5, <2>1, PolicyParts DEF WithOwn
  <2>2. CASE ~w.agent.flow
    BY <1>1, <1>5, <2>2 DEF WithOwn
  <2> QED
    BY <2>1, <2>2
<1>7. ForAgent(v).allow = ForAgent(w).allow /\ ForAgent(w).deny \subseteq ForAgent(v).deny
      /\ ForAgent(v).also = ForAgent(w).also
  <2>1. CASE w.agent.readOnly
    BY <1>1, <1>6, <2>1, PolicyParts DEF ForAgent
  <2>2. CASE ~w.agent.readOnly /\ w.agent.deny # {}
    BY <1>1, <1>6, <2>2, PolicyParts DEF ForAgent
  <2>3. CASE ~w.agent.readOnly /\ w.agent.deny = {}
    BY <1>1, <1>6, <2>3 DEF ForAgent
  <2> QED
    BY <2>1, <2>2, <2>3
<1>8. Base(v) = Base(w)
  BY <1>1 DEF Base
<1>9. Denied(ForAgent(w)) \subseteq Denied(ForAgent(v))
  BY <1>7 DEF Denied, Known
<1>10. Allowed(v) \subseteq Allowed(w)
  <2>1. Requested(Base(v), ForAgent(v).allow) = Requested(Base(w), ForAgent(w).allow)
    BY <1>7, <1>8
  <2>2. Known(ForAgent(v).also) = Known(ForAgent(w).also)
    BY <1>7
  <2> QED
    BY <1>9, <2>1, <2>2, AllowedIs
<1> QED
  BY <1>10 DEF v

LEMMA DenialsAlwaysHold == DenialsHold
<1> DEFINE w == wish
<1>1. Allowed(w) \subseteq Catalog \ (ConfigDeny \union w.agent.deny)
  <2>1. Known(ForAgent(w).also) \subseteq Catalog
    BY DEF Known
  <2> QED
    BY <2>1, AllowedFits, ForAgentKeeps
<1>2. Allowed(w) \cap Layered(w).deny \subseteq w.override.allow
  BY AllowedFits, ForAgentKeeps, ResolvedKeeps, OverriddenKeeps
<1>3. ASSUME NEW t \in Allowed(w), t \notin Narrowed(Catalog, ConfigAllow)
      PROVE  t \in w.override.also \/ (t \in w.also /\ (w.socket => t \notin NeverAdded))
  <2>1. t \in ForAgent(w).also
    BY <1>3, AllowedFits DEF Known
  <2>2. t \in Resolved(w).also
    BY <2>1, ForAgentKeeps
  <2>3. CASE Added(w) = {}
    BY <2>2, <2>3, ResolvedKeeps, OverriddenKeeps
  <2>4. CASE Added(w) # {}
    <3>1. t \in Added(w)
      BY <2>2, <2>4, ResolvedKeeps
    <3> QED
      BY <3>1 DEF Added
  <2> QED
    BY <2>3, <2>4
<1>4. \A d \in Denials : Allowed(DenyingToo(w, d)) \subseteq Allowed(w)
  BY DenyingLess
<1> QED
  BY <1>1, <1>2, <1>3, <1>4 DEF DenialsHold

-----------------------------------------------------------------------------
(* ToolInvoke: one call and its retries *)

InvokeInv ==
    /\ pc \in {"ready", "runs", "asks", "reruns", "pauses", "ok", "error", "raw", "cut"}
    /\ tool \in Kinds /\ attempt \in 1 .. Attempts
    /\ begun \in Nat /\ stray \in Nat /\ spared \in {0, 1} /\ granted \in {0, 1}
    /\ begun <= (IF pc = "ready" THEN attempt - 1 ELSE attempt) + granted
    /\ stray <= (IF pc \in {"runs", "reruns"} THEN begun - 1 ELSE begun)
    /\ granted = 1 => pc \in {"reruns", "ok", "error", "raw", "cut"}
    /\ pc = "pauses" => attempt < Attempts
    /\ spared = 1 => pc = "error"

LEMMA AttemptsNumber == ASSUME tool \in Kinds PROVE Attempts \in Nat \ {0} /\ tool.retries \in Nat
BY ToolInvokeAssumption DEF Attempts

LEMMA InvokeStart == InvokeInit => InvokeInv
<1> SUFFICES ASSUME InvokeInit PROVE InvokeInv
  OBVIOUS
<1>1. Attempts \in Nat \ {0}
  BY AttemptsNumber DEF InvokeInit
<1> QED
  BY <1>1 DEF InvokeInit, InvokeInv

LEMMA InvokeKept == InvokeInv /\ [InvokeNext]_invokeVars => InvokeInv'
<1> SUFFICES ASSUME InvokeInv, [InvokeNext]_invokeVars PROVE InvokeInv'
  OBVIOUS
<1>1. Attempts \in Nat \ {0}
  BY AttemptsNumber DEF InvokeInv
<1>2. ASSUME tool' = tool PROVE Attempts' = Attempts
  BY <1>2 DEF Attempts
<1>3. CASE Begin
  BY <1>1, <1>2, <1>3 DEF Begin, InvokeInv
<1>4. CASE Return
  BY <1>1, <1>2, <1>4 DEF Return, InvokeInv
<1>5. CASE TimesOut
  BY <1>1, <1>2, <1>5 DEF TimesOut, Strays, InvokeInv
<1>6. ASSUME NEW err, AfterError(err), pc \in {"runs", "asks"}, UNCHANGED <<tool, attempt, begun, stray, granted>>
      PROVE  InvokeInv'
  <2>1. \/ pc' = "pauses" /\ attempt < Attempts
        \/ pc' = "error"
    BY <1>6 DEF AfterError
  <2>2. spared' \in {0, 1} /\ (spared' = 1 => pc' = "error")
    BY <1>6, ToolInvokeAssumption DEF AfterError, InvokeInv, Retries
  <2>3. granted = 0
    BY <1>6 DEF InvokeInv
  <2> QED
    BY <1>1, <1>2, <1>6, <2>1, <2>2, <2>3 DEF InvokeInv
<1>7. ASSUME NEW err, Err(err) PROVE InvokeInv'
  <2>1. CASE err = "unsupported" /\ tool.shell
    BY <1>1, <1>2, <1>7, <2>1 DEF Err, InvokeInv
  <2>2. CASE ~(err = "unsupported" /\ tool.shell)
    BY <1>6, <1>7, <2>2 DEF Err
  <2> QED
    BY <2>1, <2>2
<1>8. CASE Approve
  BY <1>1, <1>2, <1>8 DEF Approve, InvokeInv
<1>9. CASE Decline
  BY <1>6, <1>9 DEF Decline
<1>10. CASE RerunFails
  BY <1>1, <1>2, <1>10 DEF RerunFails, Strays, InvokeInv
<1>11. CASE Escapes
  BY <1>1, <1>2, <1>11 DEF Escapes, InvokeInv
<1>12. CASE PauseEnds
  BY <1>1, <1>2, <1>12 DEF PauseEnds, InvokeInv
<1>13. CASE StrayEnds
  BY <1>1, <1>2, <1>13 DEF StrayEnds, InvokeInv
<1>14. CASE CutInvoke
  BY <1>1, <1>2, <1>14 DEF CutInvoke, Strays, InvokeInv
<1>15. CASE UNCHANGED invokeVars
  BY <1>2, <1>15 DEF invokeVars, InvokeInv
<1> QED
  BY <1>3, <1>4, <1>5, <1>7, <1>8, <1>9, <1>10, <1>11, <1>12, <1>13, <1>14, <1>15 DEF InvokeNext, InvokeStep

LEMMA InvokeInvSound == InvokeInv => AttemptsBounded
BY AttemptsNumber DEF InvokeInv, AttemptsBounded

-----------------------------------------------------------------------------
(* ToolInvoke: the registration of MCP tools *)

\* The servers are connected in order, by the holder of the lock.
RegisterInv ==
    /\ joined \in Seq(ToSet(Servers)) /\ Len(joined) <= Len(Servers)
    /\ \A i \in 1 .. Len(joined) : joined[i] = Servers[i]
    /\ found \subseteq ToSet(joined) /\ (ready => offered = found)
    /\ offered \subseteq ToSet(Servers)
    /\ place \in [Requests -> {"new", "linking", "listing", "telling", "done", "cut"}]
    /\ \A r \in Requests : place[r] \in {"linking", "listing", "telling"} <=> initLock = r
    /\ \A r \in Requests : place[r] \in {"linking", "listing"} => ~ready
    /\ \A r \in Requests : place[r] = "linking" => Len(joined) < Len(Servers)
    /\ \A r \in Requests : place[r] = "listing" => joined # <<>>

LEMMA ServersFit ==
    /\ Servers \in Seq(ToSet(Servers)) /\ Len(Servers) \in Nat \ {0} /\ DOMAIN Servers = 1 .. Len(Servers)
    /\ \A i \in 1 .. Len(Servers) : Servers[i] \in ToSet(Servers)
    /\ \A i, j \in 1 .. Len(Servers) : Servers[i] = Servers[j] => i = j
<1>1. Servers \in Seq(ToSet(Servers)) /\ Servers # <<>>
  BY ToolInvokeAssumption
<1>2. Len(Servers) \in Nat \ {0} /\ DOMAIN Servers = 1 .. Len(Servers)
  BY <1>1
<1>3. \A i \in 1 .. Len(Servers) : Servers[i] \in ToSet(Servers)
  BY <1>2 DEF ToSet
<1>4. \A i, j \in DOMAIN Servers : Servers[i] = Servers[j] => i = j
  BY ToolInvokeAssumption DEF IsInjective
<1> QED
  BY <1>1, <1>2, <1>3, <1>4

LEMMA RegisterStart == McpInitInit => RegisterInv
<1> SUFFICES ASSUME McpInitInit PROVE RegisterInv
  OBVIOUS
<1>1. /\ ready = FALSE /\ initLock = Nobody /\ joined = <<>> /\ found = {} /\ offered = {}
      /\ place = [r \in Requests |-> "new"]
  BY DEF McpInitInit
<1>2. Nobody \notin Requests
  BY ToolInvokeAssumption
<1> QED
  BY <1>1, <1>2, ServersFit DEF RegisterInv

\* What a request that has the lock does: it moves on, or lets go.
LEMMA HolderMoves ==
    ASSUME RegisterInv, NEW r \in Requests, initLock = r, initLock' = r,
           NEW to \in {"linking", "listing", "telling"}, Goes(r, to)
    PROVE  /\ place' \in [Requests -> {"new", "linking", "listing", "telling", "done", "cut"}]
           /\ place'[r] = to /\ \A q \in Requests \ {r} : place'[q] = place[q] /\ place[q] \notin {"linking", "listing", "telling"}
           /\ \A q \in Requests : place'[q] \in {"linking", "listing", "telling"} <=> initLock' = q
BY DEF RegisterInv, Goes

LEMMA HolderLeaves ==
    ASSUME RegisterInv, NEW r \in Requests, initLock = r, initLock' = Nobody, NEW to \in {"done", "cut"}, Goes(r, to)
    PROVE  /\ place' \in [Requests -> {"new", "linking", "listing", "telling", "done", "cut"}]
           /\ \A q \in Requests : place'[q] \notin {"linking", "listing", "telling"}
           /\ \A q \in Requests : initLock' # q
BY ToolInvokeAssumption DEF RegisterInv, Goes

LEMMA RegisterKept == RegisterInv /\ [McpInitNext]_mcpInitVars => RegisterInv'
<1> SUFFICES ASSUME RegisterInv, [McpInitNext]_mcpInitVars PROVE RegisterInv'
  OBVIOUS
<1> USE ServersFit
<1>1. ASSUME NEW r \in Requests, EnsureDone(r) PROVE RegisterInv'
  <2>1. place[r] = "new" /\ place' = [place EXCEPT ![r] = "done"] /\ UNCHANGED <<ready, initLock, joined, found, offered>>
    BY <1>1 DEF EnsureDone, Goes
  <2> QED
    BY <2>1 DEF RegisterInv
<1>2. ASSUME NEW r \in Requests, Ensure(r) PROVE RegisterInv'
  <2>1. place[r] = "new" /\ ~ready /\ initLock = Nobody /\ initLock' = r /\ joined' = joined
    BY <1>2 DEF Ensure
  <2>2. \A q \in Requests : place[q] \notin {"linking", "listing", "telling"}
    BY <2>1, ToolInvokeAssumption DEF RegisterInv
  <2>3. CASE joined = <<>> /\ found' = {} /\ Goes(r, "linking") /\ UNCHANGED <<ready, offered>>
    <3>1. place' = [place EXCEPT ![r] = "linking"] /\ Len(joined) = 0
      BY <2>3 DEF Goes
    <3> QED
      BY <2>1, <2>2, <2>3, <3>1 DEF RegisterInv
  <2>4. CASE joined # <<>> /\ found' = found /\ Goes(r, "telling") /\ Offer
    <3>1. place' = [place EXCEPT ![r] = "telling"] /\ ready' = TRUE /\ offered' = found
      BY <2>4 DEF Goes, Offer
    <3>2. found \subseteq ToSet(Servers)
      BY DEF RegisterInv, ToSet
    <3> QED
      BY <2>1, <2>2, <2>4, <3>1, <3>2 DEF RegisterInv
  <2> QED
    BY <1>2, <2>3, <2>4 DEF Ensure
<1>3. ASSUME NEW r \in Requests, Connect(r) PROVE RegisterInv'
  <2>1. /\ place[r] = "linking" /\ joined' = Append(joined, Servers[Len(joined) + 1]) /\ Goes(r, "listing")
        /\ UNCHANGED <<ready, initLock, found, offered>>
    BY <1>3 DEF Connect
  <2>2. initLock = r /\ ~ready /\ Len(joined) < Len(Servers)
    BY <2>1 DEF RegisterInv
  <2>3. /\ joined' \in Seq(ToSet(Servers)) /\ Len(joined') = Len(joined) + 1 /\ Len(joined') <= Len(Servers)
        /\ \A i \in 1 .. Len(joined) : joined'[i] = joined[i]
        /\ joined'[Len(joined) + 1] = Servers[Len(joined) + 1]
    BY <2>1, <2>2 DEF RegisterInv
  <2>4. joined' # <<>> /\ \A i \in 1 .. Len(joined') : joined'[i] = Servers[i]
    BY <2>3 DEF RegisterInv
  <2>5. DOMAIN joined = 1 .. Len(joined) /\ DOMAIN joined' = 1 .. Len(joined) + 1 /\ Len(joined) \in Nat
    BY <2>3 DEF RegisterInv
  <2>6. ToSet(joined) \subseteq ToSet(joined')
    BY <2>3, <2>5 DEF ToSet
  <2>7. found' \subseteq ToSet(joined') /\ found' = found
    BY <2>1, <2>6 DEF RegisterInv
  <2> QED
    BY <2>1, <2>2, <2>3, <2>4, <2>7, HolderMoves DEF RegisterInv
<1>4. ASSUME NEW r \in Requests, ListTools(r) PROVE RegisterInv'
  <2>1. place[r] = "listing" /\ found' = found \union {Last(joined)} /\ initLock' = initLock /\ joined' = joined
    BY <1>4 DEF ListTools
  <2>2. initLock = r /\ ~ready /\ joined # <<>>
    BY <2>1 DEF RegisterInv
  <2>3. found' \subseteq ToSet(joined') /\ ToSet(joined) \subseteq ToSet(Servers)
    BY <2>1, <2>2 DEF RegisterInv, ToSet, Last
  <2>4. CASE Len(joined) < Len(Servers)
    <3>1. Goes(r, "linking") /\ UNCHANGED <<ready, offered>>
      BY <1>4, <2>4 DEF ListTools
    <3> QED
      BY <2>1, <2>2, <2>3, <2>4, <3>1, HolderMoves DEF RegisterInv
  <2>5. CASE ~(Len(joined) < Len(Servers))
    <3>1. Goes(r, "telling") /\ ready' = TRUE /\ offered' = found'
      BY <1>4, <2>5 DEF ListTools, Offer
    <3> QED
      BY <2>1, <2>2, <2>3, <3>1, HolderMoves DEF RegisterInv
  <2> QED
    BY <2>4, <2>5
<1>5. ASSUME NEW r \in Requests, Told(r) PROVE RegisterInv'
  <2>1. /\ place[r] = "telling" /\ Goes(r, "done") /\ initLock' = Nobody
        /\ UNCHANGED <<ready, joined, found, offered>>
    BY <1>5 DEF Told
  <2>2. initLock = r
    BY <2>1 DEF RegisterInv
  <2> QED
    BY <2>1, <2>2, HolderLeaves DEF RegisterInv
<1>6. ASSUME NEW r \in Requests, InitFails(r) PROVE RegisterInv'
  <2>1. /\ initLock' = Nobody /\ initLock = r /\ UNCHANGED <<joined, found, offered>>
        /\ Goes(r, "done") \/ Goes(r, "cut")
        /\ ready' = FALSE \/ ready' = ready
    BY <1>6 DEF InitFails, RegisterInv
  <2> QED
    BY <2>1, HolderLeaves DEF RegisterInv
<1>7. CASE UNCHANGED mcpInitVars
  BY <1>7 DEF mcpInitVars, RegisterInv
<1> QED
  BY <1>1, <1>2, <1>3, <1>4, <1>5, <1>6, <1>7 DEF McpInitNext, McpInitStep

LEMMA RegisterInvSound ==
    RegisterInv => RegistrationSound /\ ToSet(joined) \subseteq ToSet(Servers) /\ offered \subseteq ToSet(Servers)
<1> SUFFICES ASSUME RegisterInv
             PROVE  RegistrationSound /\ ToSet(joined) \subseteq ToSet(Servers) /\ offered \subseteq ToSet(Servers)
  OBVIOUS
<1>1. DOMAIN joined = 1 .. Len(joined) /\ 1 .. Len(joined) \subseteq 1 .. Len(Servers)
  BY ServersFit DEF RegisterInv
<1>2. ToSet(joined) \subseteq ToSet(Servers)
  BY <1>1 DEF RegisterInv, ToSet
<1>3. IsInjective(joined)
  BY <1>1, ServersFit DEF RegisterInv, IsInjective
<1> QED
  BY <1>2, <1>3 DEF RegisterInv, RegistrationSound

-----------------------------------------------------------------------------
(* ToolInvoke: calls that share a stream *)

Streams == [alive : BOOLEAN, next : Nat, holder : McpCalls \union {Nobody}, asked : Seq(Nat), pipe : Seq(Nat)]
CallStates ==
    [at : {"new", "queued", "reads", "failed", "again", "answered", "error", "cut"},
     link : Nat, attempt : Nat, id : Nat, got : Seq(Nat)]

\* A stream is held by the call that reads it, and by no other.
StreamsInv ==
    /\ links \in Seq(Streams) /\ link \in DOMAIN links
    /\ call \in [McpCalls -> CallStates]
    /\ \A c \in McpCalls : call[c].link \in DOMAIN links
    /\ \A c \in McpCalls : call[c].at = "answered" => call[c].got = <<call[c].link, call[c].id>>
    /\ \A c \in McpCalls : \A k \in DOMAIN links :
         links[k].holder = c <=> call[c].at = "reads" /\ call[c].link = k

LEMMA StreamParts ==
    ASSUME NEW a \in BOOLEAN, NEW n \in Nat, NEW h \in McpCalls \union {Nobody}, NEW q \in Seq(Nat), NEW p \in Seq(Nat)
    PROVE  /\ Stream(a, n, h, q, p) \in Streams
           /\ Stream(a, n, h, q, p).alive = a /\ Stream(a, n, h, q, p).next = n /\ Stream(a, n, h, q, p).holder = h
           /\ Stream(a, n, h, q, p).asked = q /\ Stream(a, n, h, q, p).pipe = p
BY DEF Stream, Streams

LEMMA StreamFields ==
    ASSUME NEW s \in Streams
    PROVE  /\ s.alive \in BOOLEAN /\ s.next \in Nat /\ s.holder \in McpCalls \union {Nobody}
           /\ s.asked \in Seq(Nat) /\ s.pipe \in Seq(Nat)
BY DEF Streams

LEMMA CallParts ==
    ASSUME NEW w \in {"new", "queued", "reads", "failed", "again", "answered", "error", "cut"},
           NEW l \in Nat, NEW n \in Nat, NEW id \in Nat, NEW got \in Seq(Nat)
    PROVE  /\ McpCall(w, l, n, id, got) \in CallStates
           /\ McpCall(w, l, n, id, got).at = w /\ McpCall(w, l, n, id, got).link = l
           /\ McpCall(w, l, n, id, got).attempt = n /\ McpCall(w, l, n, id, got).id = id
           /\ McpCall(w, l, n, id, got).got = got
BY DEF McpCall, CallStates

LEMMA CallFields ==
    ASSUME NEW c \in CallStates
    PROVE  /\ c.at \in {"new", "queued", "reads", "failed", "again", "answered", "error", "cut"}
           /\ c.link \in Nat /\ c.attempt \in Nat /\ c.id \in Nat /\ c.got \in Seq(Nat)
BY DEF CallStates

LEMMA StreamsFit ==
    ASSUME StreamsInv
    PROVE  /\ DOMAIN links = 1 .. Len(links) /\ Len(links) \in Nat
           /\ \A k \in DOMAIN links : links[k] \in Streams
           /\ \A c \in McpCalls : call[c] \in CallStates /\ call[c].link \in DOMAIN links /\ LinkOf(c) \in Streams
<1>1. DOMAIN links = 1 .. Len(links) /\ Len(links) \in Nat /\ \A k \in DOMAIN links : links[k] \in Streams
  BY DEF StreamsInv
<1>2. \A c \in McpCalls : call[c] \in CallStates /\ call[c].link \in DOMAIN links
  BY DEF StreamsInv
<1> QED
  BY <1>1, <1>2 DEF LinkOf

LEMMA WithStream ==
    ASSUME StreamsInv, NEW k \in DOMAIN links, NEW s \in Streams
    PROVE  /\ With(k, s) \in Seq(Streams) /\ DOMAIN With(k, s) = DOMAIN links
           /\ With(k, s)[k] = s /\ \A j \in DOMAIN links \ {k} : With(k, s)[j] = links[j]
<1>1. DOMAIN links = 1 .. Len(links) /\ links \in Seq(Streams)
  BY DEF StreamsInv
<1> QED
  BY <1>1 DEF With

LEMMA StreamsStart == McpInit => StreamsInv
<1> SUFFICES ASSUME McpInit PROVE StreamsInv
  OBVIOUS
<1>1. NewLink \in Streams /\ NewLink.holder = Nobody
  BY DEF NewLink, Stream, Streams
<1>2. McpCall("new", 1, 1, 0, <<>>) \in CallStates /\ McpCall("new", 1, 1, 0, <<>>).at = "new" /\ McpCall("new", 1, 1, 0, <<>>).link = 1
  BY DEF McpCall, CallStates
<1>3. links = <<NewLink>> /\ link = 1 /\ call = [c \in McpCalls |-> McpCall("new", 1, 1, 0, <<>>)]
  BY DEF McpInit
<1>4. links \in Seq(Streams) /\ DOMAIN links = {1} /\ links[1] = NewLink
  BY <1>1, <1>3
<1>5. Nobody \notin McpCalls
  BY ToolInvokeAssumption
<1> QED
  BY <1>1, <1>2, <1>3, <1>4, <1>5 DEF StreamsInv

\* A step of a call on a stream: the holder stays right if it does for the call.
LEMMA StreamStep ==
    ASSUME StreamsInv, NEW k \in DOMAIN links, NEW s \in Streams, links' = With(k, s), link' = link,
           NEW c \in McpCalls, NEW next \in CallStates, Becomes(c, next), next.link \in DOMAIN links,
           next.at = "answered" => next.got = <<next.link, next.id>>,
           \A d \in McpCalls \ {c} : s.holder = d <=> links[k].holder = d,
           s.holder = c <=> next.at = "reads" /\ next.link = k,
           \A j \in DOMAIN links \ {k} : links[j].holder = c <=> next.at = "reads" /\ next.link = j
    PROVE  StreamsInv'
<1>1. /\ links' \in Seq(Streams) /\ DOMAIN links' = DOMAIN links
      /\ links'[k] = s /\ \A j \in DOMAIN links \ {k} : links'[j] = links[j]
  BY WithStream
<1>2. /\ call' \in [McpCalls -> CallStates] /\ call'[c] = next /\ \A d \in McpCalls \ {c} : call'[d] = call[d]
  BY DEF Becomes, StreamsInv
<1>3. \A d \in McpCalls : call'[d].link \in DOMAIN links'
  BY <1>1, <1>2 DEF StreamsInv
<1>4. \A d \in McpCalls : call'[d].at = "answered" => call'[d].got = <<call'[d].link, call'[d].id>>
  BY <1>2 DEF StreamsInv
<1>5. \A d \in McpCalls : \A j \in DOMAIN links' : links'[j].holder = d <=> call'[d].at = "reads" /\ call'[d].link = j
  <2> SUFFICES ASSUME NEW d \in McpCalls, NEW j \in DOMAIN links
               PROVE  links'[j].holder = d <=> call'[d].at = "reads" /\ call'[d].link = j
    BY <1>1
  <2>1. CASE d = c
    BY <2>1, <1>1, <1>2
  <2>2. CASE d # c
    <3>1. call'[d] = call[d] /\ (links[j].holder = d <=> call[d].at = "reads" /\ call[d].link = j)
      BY <2>2, <1>2 DEF StreamsInv
    <3> QED
      BY <3>1, <2>2, <1>1
  <2> QED
    BY <2>1, <2>2
<1>6. link' \in DOMAIN links'
  BY <1>1 DEF StreamsInv
<1> QED
  BY <1>1, <1>2, <1>3, <1>4, <1>5, <1>6 DEF StreamsInv

\* A call that lets go of its stream, or never held one.
LEMMA StreamLeft ==
    ASSUME StreamsInv, NEW c \in McpCalls, NEW pipe \in Seq(Nat), Releases(c, pipe), link' = link,
           NEW next \in CallStates, Becomes(c, next), next.link = call[c].link, next.at # "reads",
           next.at = "answered" => next.got = <<next.link, next.id>>
    PROVE  StreamsInv'
<1> DEFINE s == Stream(LinkOf(c).alive, LinkOf(c).next, Left(c), LinkOf(c).asked, pipe)
<1>1. LinkOf(c) \in Streams /\ call[c].link \in DOMAIN links /\ links[call[c].link] = LinkOf(c)
  BY StreamsFit DEF LinkOf
<1>2. Left(c) \in McpCalls \union {Nobody} /\ Left(c) # c
      /\ \A d \in McpCalls \ {c} : Left(c) = d <=> LinkOf(c).holder = d
  BY <1>1, StreamFields, ToolInvokeAssumption DEF Left
<1>a. /\ LinkOf(c).alive \in BOOLEAN /\ LinkOf(c).next \in Nat /\ LinkOf(c).asked \in Seq(Nat)
      /\ LinkOf(c).pipe \in Seq(Nat)
  BY <1>1, StreamFields
<1>3. s \in Streams /\ s.holder = Left(c)
  BY <1>a, <1>2 DEF Stream, Streams
<1>4. links' = With(call[c].link, s)
  BY DEF Releases
<1>5. \A j \in DOMAIN links \ {call[c].link} : links[j].holder # c
  BY DEF StreamsInv
<1> HIDE DEF s
<1> QED
  BY <1>1, <1>2, <1>3, <1>4, <1>5, StreamStep

\* A step of a stream alone leaves its holder.
LEMMA StreamAlone ==
    ASSUME StreamsInv, NEW k \in DOMAIN links, NEW s \in Streams, s.holder = links[k].holder,
           links' = With(k, s), link' = link, call' = call
    PROVE  StreamsInv'
<1>1. /\ links' \in Seq(Streams) /\ DOMAIN links' = DOMAIN links
      /\ \A j \in DOMAIN links : links'[j].holder = links[j].holder
  BY WithStream
<1> QED
  BY <1>1 DEF StreamsInv

LEMMA NextCall ==
    ASSUME StreamsInv, NEW c \in McpCalls,
           NEW where \in {"new", "queued", "reads", "failed", "again", "answered", "error", "cut"}, Moves(c, where)
    PROVE  \E next \in CallStates :
             /\ Becomes(c, next) /\ next.at = where /\ next.link = call[c].link /\ next.id = call[c].id
             /\ next.got = call[c].got /\ next.attempt = call[c].attempt
<1> DEFINE next == McpCall(where, call[c].link, call[c].attempt, call[c].id, call[c].got)
<1>1. /\ call[c].link \in Nat /\ call[c].attempt \in Nat /\ call[c].id \in Nat /\ call[c].got \in Seq(Nat)
  BY StreamsFit, CallFields
<1>2. /\ next \in CallStates /\ next.at = where /\ next.link = call[c].link /\ next.id = call[c].id
      /\ next.got = call[c].got /\ next.attempt = call[c].attempt
  BY <1>1 DEF McpCall, CallStates
<1>3. Becomes(c, next)
  BY DEF Moves
<1> HIDE DEF next
<1> QED
  BY <1>2, <1>3

LEMMA DrawKept == ASSUME StreamsInv, NEW c \in McpCalls, Draw(c) PROVE StreamsInv'
<1> DEFINE k == IF call[c].at = "new" THEN link ELSE call[c].link
           l == links[k]
           s == Stream(l.alive, l.next + 1, l.holder, l.asked, l.pipe)
           next == McpCall("queued", k, call[c].attempt, l.next, call[c].got)
<1>1. k \in DOMAIN links /\ k \in Nat /\ call[c] \in CallStates /\ call[c].attempt \in Nat /\ call[c].got \in Seq(Nat)
  BY StreamsFit, CallFields DEF StreamsInv
<1>2. /\ l \in Streams /\ l.alive \in BOOLEAN /\ l.next \in Nat /\ l.next + 1 \in Nat
      /\ l.holder \in McpCalls \union {Nobody} /\ l.asked \in Seq(Nat) /\ l.pipe \in Seq(Nat)
  <2>1. l \in Streams
    BY <1>1, StreamsFit
  <2> HIDE DEF l
  <2> QED
    BY <2>1, StreamFields
<1>3. links' = With(k, s) /\ link' = link /\ Becomes(c, next) /\ call[c].at # "reads"
  BY DEF Draw
<1> HIDE DEF l, k
<1>4. s \in Streams /\ s.holder = l.holder
  BY <1>2 DEF Stream, Streams
<1>5. next \in CallStates /\ next.at = "queued" /\ next.link = k
  BY <1>1, <1>2 DEF McpCall, CallStates
<1>6. \A j \in DOMAIN links : links[j].holder # c
  BY <1>3 DEF StreamsInv
<1> HIDE DEF s, next
<1>7. l.holder # c /\ s.holder # c /\ l = links[k]
  BY <1>1, <1>4, <1>6 DEF l
<1> QED
  BY <1>1, <1>3, <1>4, <1>5, <1>6, <1>7, StreamStep

LEMMA SendKept == ASSUME StreamsInv, NEW c \in McpCalls, Send(c) PROVE StreamsInv'
<1> DEFINE k == call[c].link
           l == links[k]
           s == Stream(TRUE, l.next, c, Append(l.asked, call[c].id), l.pipe)
<1>1. k \in DOMAIN links /\ k \in Nat /\ call[c].id \in Nat /\ links[k] = LinkOf(c)
  BY StreamsFit, CallFields DEF LinkOf
<1>2. l \in Streams /\ l.next \in Nat /\ l.asked \in Seq(Nat) /\ l.pipe \in Seq(Nat)
  <2>1. l \in Streams
    BY <1>1, StreamsFit
  <2> HIDE DEF l
  <2> QED
    BY <2>1, StreamFields
<1>3. l.holder = Nobody /\ call[c].at = "queued" /\ links' = With(k, s) /\ link' = link /\ Moves(c, "reads")
  BY <1>1 DEF Send, LinkOf
<1> HIDE DEF l
<1>4. s \in Streams /\ s.holder = c
  BY <1>1, <1>2 DEF Stream, Streams
<1>5. PICK next \in CallStates : Becomes(c, next) /\ next.at = "reads" /\ next.link = call[c].link
  BY <1>3, NextCall
<1>6. \A j \in DOMAIN links : links[j].holder # c
  BY <1>3 DEF StreamsInv
<1>7. \A d \in McpCalls : l.holder # d
  BY <1>3, ToolInvokeAssumption
<1> HIDE DEF s, k
<1>8. l = links[k] /\ k = call[c].link
  BY DEF l, k
<1> QED
  BY <1>1, <1>3, <1>4, <1>5, <1>6, <1>7, <1>8, StreamStep

LEMMA ServerKept ==
    ASSUME StreamsInv, NEW k \in DOMAIN links, ServerAnswers(k) \/ ServerDies(k) PROVE StreamsInv'
<1> DEFINE l == links[k]
           t == Stream(TRUE, l.next, l.holder, Tail(l.asked), Append(l.pipe, Head(l.asked)))
           f == Stream(FALSE, l.next, l.holder, <<>>, l.pipe)
<1>1. /\ l \in Streams /\ l.next \in Nat /\ l.asked \in Seq(Nat) /\ l.pipe \in Seq(Nat)
      /\ l.holder \in McpCalls \union {Nobody}
  <2>1. l \in Streams
    BY StreamsFit
  <2> HIDE DEF l
  <2> QED
    BY <2>1, StreamFields
<1>2. CASE ServerAnswers(k)
  <2>1. links' = With(k, t) /\ l.asked # <<>> /\ link' = link /\ call' = call
    BY <1>2 DEF ServerAnswers
  <2> HIDE DEF l
  <2>2. Tail(l.asked) \in Seq(Nat) /\ Append(l.pipe, Head(l.asked)) \in Seq(Nat)
    BY <1>1, <2>1
  <2>3. t \in Streams /\ t.holder = l.holder
    BY <1>1, <2>2 DEF Stream, Streams
  <2> HIDE DEF t
  <2>4. l = links[k]
    BY DEF l
  <2> QED
    BY <2>1, <2>3, <2>4, StreamAlone
<1>3. CASE ServerDies(k)
  <2>1. links' = With(k, f) /\ link' = link /\ call' = call
    BY <1>3 DEF ServerDies, Dead
  <2> HIDE DEF l
  <2>3. f \in Streams /\ f.holder = l.holder
    BY <1>1 DEF Stream, Streams
  <2> HIDE DEF f
  <2>4. l = links[k]
    BY DEF l
  <2> QED
    BY <2>1, <2>3, <2>4, StreamAlone
<1> QED
  BY <1>2, <1>3

LEMMA ReceivesKept == ASSUME StreamsInv, NEW c \in McpCalls, Receives(c) PROVE StreamsInv'
<1> DEFINE pipe == LinkOf(c).pipe
           next == McpCall(IF Head(pipe) = call[c].id THEN "answered" ELSE "failed", call[c].link, call[c].attempt,
                           call[c].id, <<call[c].link, Head(pipe)>>)
<1>1. /\ pipe \in Seq(Nat) /\ call[c].link \in Nat /\ call[c].id \in Nat /\ call[c].attempt \in Nat
  BY StreamsFit, StreamFields, CallFields
<1>2. Releases(c, Tail(pipe)) /\ pipe # <<>> /\ link' = link /\ Becomes(c, next)
  BY DEF Receives
<1> HIDE DEF pipe
<1>3. Head(pipe) \in Nat /\ Tail(pipe) \in Seq(Nat) /\ <<call[c].link, Head(pipe)>> \in Seq(Nat)
  BY <1>1, <1>2
<1>4. CASE Head(pipe) = call[c].id
  <2>1. /\ next \in CallStates /\ next.at = "answered" /\ next.link = call[c].link /\ next.id = call[c].id
        /\ next.got = <<call[c].link, Head(pipe)>>
    BY <1>1, <1>3, <1>4 DEF McpCall, CallStates
  <2> HIDE DEF next
  <2> QED
    BY <1>2, <1>3, <1>4, <2>1, StreamLeft
<1>5. CASE Head(pipe) # call[c].id
  <2>1. next \in CallStates /\ next.at = "failed" /\ next.link = call[c].link
    BY <1>1, <1>3, <1>5 DEF McpCall, CallStates
  <2> HIDE DEF next
  <2> QED
    BY <1>2, <1>3, <2>1, StreamLeft
<1> QED
  BY <1>4, <1>5

LEMMA LeavesKept ==
    ASSUME StreamsInv, NEW c \in McpCalls, NEW where \in {"failed", "error", "cut"}, link' = link,
           Releases(c, LinkOf(c).pipe), Moves(c, where)
    PROVE  StreamsInv'
<1>1. LinkOf(c).pipe \in Seq(Nat)
  BY StreamsFit, StreamFields
<1>2. PICK next \in CallStates : Becomes(c, next) /\ next.at = where /\ next.link = call[c].link
  BY NextCall
<1> QED
  BY <1>1, <1>2, StreamLeft

\* A call that does not read moves on; no stream changes hands.
LEMMA CallAlone ==
    ASSUME StreamsInv, links' \in Seq(Streams), DOMAIN links' = DOMAIN links, link' = link,
           \A k \in DOMAIN links : links'[k].holder = links[k].holder,
           NEW c \in McpCalls, call' \in [McpCalls -> CallStates], \A d \in McpCalls \ {c} : call'[d] = call[d],
           call[c].at # "reads", call'[c].at \notin {"reads", "answered"}, call'[c].link = call[c].link
    PROVE  StreamsInv'
<1>1. \A d \in McpCalls : call'[d].link \in DOMAIN links'
  BY DEF StreamsInv
<1>2. ASSUME NEW d \in McpCalls, call'[d].at = "answered"
      PROVE  call'[d].got = <<call'[d].link, call'[d].id>>
  <2>1. d # c
    BY <1>2
  <2>2. call'[d] = call[d]
    BY <2>1
  <2> QED
    BY <1>2, <2>2 DEF StreamsInv
<1>3. \A d \in McpCalls : \A k \in DOMAIN links' : links'[k].holder = d <=> call'[d].at = "reads" /\ call'[d].link = k
  <2> SUFFICES ASSUME NEW d \in McpCalls, NEW k \in DOMAIN links
               PROVE  links'[k].holder = d <=> call'[d].at = "reads" /\ call'[d].link = k
    OBVIOUS
  <2>1. links'[k].holder = d <=> call[d].at = "reads" /\ call[d].link = k
    BY DEF StreamsInv
  <2>2. CASE d = c
    BY <2>1, <2>2
  <2>3. CASE d # c
    BY <2>1, <2>3
  <2> QED
    BY <2>2, <2>3
<1>4. link' \in DOMAIN links'
  BY DEF StreamsInv
<1> QED
  BY <1>1, <1>2, <1>3, <1>4 DEF StreamsInv

LEMMA GiveUpKept == ASSUME StreamsInv, NEW c \in McpCalls, GiveUp(c) PROVE StreamsInv'
<1>1. call[c].at = "failed" /\ links' = links /\ link' = link /\ Moves(c, "error")
  BY DEF GiveUp
<1>2. PICK next \in CallStates : Becomes(c, next) /\ next.at = "error" /\ next.link = call[c].link
  BY <1>1, NextCall
<1>3. /\ call' \in [McpCalls -> CallStates] /\ call'[c] = next /\ \A d \in McpCalls \ {c} : call'[d] = call[d]
  BY <1>2 DEF Becomes, StreamsInv
<1>4. links' \in Seq(Streams) /\ DOMAIN links' = DOMAIN links /\ \A k \in DOMAIN links : links'[k].holder = links[k].holder
  BY <1>1 DEF StreamsInv
<1>5. call[c].at # "reads" /\ call'[c].at \notin {"reads", "answered"} /\ call'[c].link = call[c].link
  BY <1>1, <1>2, <1>3
<1> QED
  BY <1>1, <1>3, <1>4, <1>5, CallAlone

\* The stream of the failed call is closed, whoever holds it.
LEMMA DeadStream ==
    ASSUME StreamsInv, NEW k \in DOMAIN links
    PROVE  /\ Dead(k) \in Seq(Streams) /\ DOMAIN Dead(k) = DOMAIN links
           /\ \A j \in DOMAIN links : Dead(k)[j].holder = links[j].holder
<1> DEFINE l == links[k]
           f == Stream(FALSE, l.next, l.holder, <<>>, l.pipe)
<1>1. l \in Streams
  BY StreamsFit
<1>2. Dead(k) = With(k, f) /\ l = links[k]
  BY DEF Dead
<1> HIDE DEF l
<1>3. l.next \in Nat /\ l.pipe \in Seq(Nat) /\ l.holder \in McpCalls \union {Nobody}
  BY <1>1, StreamFields
<1>4. f \in Streams /\ f.holder = l.holder
  BY <1>3 DEF Stream, Streams
<1> HIDE DEF f
<1> QED
  BY <1>2, <1>4, WithStream

LEMMA ReconnectKept == ASSUME StreamsInv, NEW c \in McpCalls, Reconnect(c) PROVE StreamsInv'
<1>1. call[c].at = "failed" /\ call[c].link \in DOMAIN links /\ DOMAIN links = 1 .. Len(links) /\ Len(links) \in Nat
  BY StreamsFit DEF Reconnect
<1> DEFINE dead == Dead(call[c].link)
<1>2. /\ dead \in Seq(Streams) /\ DOMAIN dead = DOMAIN links /\ \A j \in DOMAIN links : dead[j].holder = links[j].holder
  BY <1>1, DeadStream
<1>a. Len(dead) = Len(links)
  BY <1>1, <1>2
<1>3. /\ call[c].attempt + 1 \in Nat /\ call[c].id \in Nat /\ call[c].got \in Seq(Nat)
  BY StreamsFit, CallFields
<1>4. \A k \in Nat : Again(c, k) =>
          /\ call' \in [McpCalls -> CallStates] /\ \A d \in McpCalls \ {c} : call'[d] = call[d]
          /\ call'[c].link = k /\ call'[c].at = "again"
  <2> TAKE k \in Nat
  <2> DEFINE next == McpCall("again", k, call[c].attempt + 1, call[c].id, call[c].got)
  <2>1. next \in CallStates /\ next.at = "again" /\ next.link = k
    BY <1>3 DEF McpCall, CallStates
  <2>2. Again(c, k) => Becomes(c, next)
    BY DEF Again
  <2> HIDE DEF next
  <2> QED
    BY <2>1, <2>2 DEF Becomes, StreamsInv
<1>5. \A j \in DOMAIN links : links[j].holder # c
  BY <1>1 DEF StreamsInv
<1>6. CASE links' = Append(dead, NewLink) /\ link' = Len(links) + 1 /\ Again(c, Len(links) + 1)
  <2>1. NewLink \in Streams /\ NewLink.holder = Nobody
    BY DEF NewLink, Stream, Streams
  <2> HIDE DEF dead
  <2>2. /\ links' \in Seq(Streams) /\ DOMAIN links' = 1 .. Len(links) + 1
        /\ \A j \in DOMAIN links : links'[j] = dead[j]
        /\ links'[Len(links) + 1] = NewLink
    BY <1>1, <1>2, <1>a, <1>6, <2>1
  <2>3. \A d \in McpCalls : NewLink.holder # d /\ call[d].link # Len(links) + 1 /\ call[d].link \in DOMAIN links'
    BY <1>1, <2>1, <2>2, ToolInvokeAssumption, StreamsFit
  <2>4. /\ call' \in [McpCalls -> CallStates] /\ \A d \in McpCalls \ {c} : call'[d] = call[d]
        /\ call'[c].link = Len(links) + 1 /\ call'[c].at = "again"
    BY <1>1, <1>4, <1>6
  <2>5. link' \in DOMAIN links' /\ \A d \in McpCalls : call'[d].link \in DOMAIN links'
    BY <1>1, <1>6, <2>2, <2>3, <2>4
  <2>6. \A d \in McpCalls : \A k \in DOMAIN links' : links'[k].holder = d <=> call'[d].at = "reads" /\ call'[d].link = k
    <3> SUFFICES ASSUME NEW d \in McpCalls, NEW k \in DOMAIN links'
                 PROVE  links'[k].holder = d <=> call'[d].at = "reads" /\ call'[d].link = k
      OBVIOUS
    <3>1. CASE k = Len(links) + 1
      BY <3>1, <2>2, <2>3, <2>4
    <3>2. CASE k \in DOMAIN links
      <4>1. links'[k].holder = links[k].holder
        BY <3>2, <2>2, <1>2
      <4>2. links[k].holder = d <=> call[d].at = "reads" /\ call[d].link = k
        BY <3>2 DEF StreamsInv
      <4> QED
        BY <3>2, <4>1, <4>2, <2>4, <1>5
    <3> QED
      BY <3>1, <3>2, <1>1, <2>2
  <2>7. \A d \in McpCalls : call'[d].at = "answered" => call'[d].got = <<call'[d].link, call'[d].id>>
    BY <2>4 DEF StreamsInv
  <2> QED
    BY <2>2, <2>4, <2>5, <2>6, <2>7 DEF StreamsInv
<1>7. CASE links' = dead /\ Again(c, call[c].link) /\ link' = link
  <2> HIDE DEF dead
  <2>1. /\ call' \in [McpCalls -> CallStates] /\ \A d \in McpCalls \ {c} : call'[d] = call[d]
        /\ call'[c].link = call[c].link /\ call'[c].at = "again"
    BY <1>1, <1>4, <1>7
  <2>2. /\ links' \in Seq(Streams) /\ DOMAIN links' = DOMAIN links /\ link' = link
        /\ \A k \in DOMAIN links : links'[k].holder = links[k].holder
    BY <1>2, <1>7
  <2> QED
    BY <1>1, <2>1, <2>2, CallAlone
<1> QED
  BY <1>6, <1>7 DEF Reconnect

LEMMA StreamsKept == StreamsInv /\ [McpNext]_mcpVars => StreamsInv'
<1> SUFFICES ASSUME StreamsInv, [McpNext]_mcpVars PROVE StreamsInv'
  OBVIOUS
<1>1. ASSUME NEW c \in McpCalls, AttemptFails(c) PROVE StreamsInv'
  BY <1>1, LeavesKept DEF AttemptFails
<1>2. ASSUME NEW c \in McpCalls, CutCall(c) PROVE StreamsInv'
  BY <1>2, LeavesKept DEF CutCall
<1>3. CASE UNCHANGED mcpVars
  BY <1>3 DEF mcpVars, StreamsInv
<1> QED
  BY <1>1, <1>2, <1>3, DrawKept, SendKept, ReceivesKept, ReconnectKept, GiveUpKept, ServerKept DEF McpNext, McpCallStep

LEMMA StreamsInvSound ==
    StreamsInv => StreamsSound /\ link \in DOMAIN links /\ \A c \in McpCalls : call[c].link \in DOMAIN links
<1> SUFFICES ASSUME StreamsInv
             PROVE  StreamsSound /\ link \in DOMAIN links /\ \A c \in McpCalls : call[c].link \in DOMAIN links
  OBVIOUS
<1>1. \A k \in DOMAIN links : links[k].holder \in McpCalls \union {Nobody}
  BY StreamsFit, StreamFields
<1> QED
  BY <1>1 DEF StreamsInv, StreamsSound, LinkOf

-----------------------------------------------------------------------------
(* ToolLoop: what the loop has under way in each of its places *)

AnyCall == (UNION {ToSet(s) : s \in Selections}) \union {Augmented, NoToolCall}
Results == AnyCall \X {"ok", "error", "rejected"}
ReadStates == [call : AnyCall, out : Outcomes \union {"error", "runs"}]
Places ==
    ToolEnds \union {"selecting", "asking", "repairing", "selected", "splitting",
                     "gating", "gather", "loop", "running", "retrying"}
Early == {"selecting", "asking", "repairing", "selected", "splitting", "empty"}

LoopTyped ==
    /\ at \in Places /\ permitted \subseteq AllowedNames \union Grantable
    /\ late \in BOOLEAN /\ steer \in BOOLEAN /\ span \in BOOLEAN /\ parallel \in BOOLEAN
    /\ queue \in Seq(AnyCall) /\ reads \in Seq(AnyCall) /\ batch \in Seq(ReadStates) /\ current \in AnyCall
    /\ used \in Nat /\ retries \in Nat
    /\ invoked \in Seq(AnyCall) /\ answers \in Seq(Results) /\ remembered \in Seq(AnyCall)

GateFits ==
    gate.counts \in Seq(AnyCall) /\ gate.history \in Seq(AnyCall) /\ Len(gate.history) <= 12

\* The calls that were handed to a tool are those that were counted and
\* those that are under way.
LoopPlaces ==
    /\ span <=> at \in {"running", "retrying"}
    /\ at \in Early \union {"gating"} =>
         used = 0 /\ invoked = <<>> /\ remembered = <<>> /\ retries = 0 /\ RanAt(answers) = {}
    /\ at = "gating" => Len(batch) + Len(reads) <= CallCap /\ \A i \in DOMAIN batch : batch[i].out = "runs"
    /\ at \in Early \union {"loop", "running", "retrying", "results", "steered"} => batch = <<>>
    /\ at = "gather" => retries = 0 /\ used < Len(batch) /\ invoked = Called(batch)
                        /\ \A i \in DOMAIN batch : batch[i].out = "runs" => i > used
    /\ at \in {"loop", "results", "steered"} => Len(invoked) = used
    /\ at = "running" => Len(invoked) = used + 1 /\ invoked[used + 1] = current
    /\ at = "retrying" => Len(invoked) = used + 2 /\ retries > 0
    /\ Len(invoked) <= CallCap /\ used <= Len(invoked)

\* Results that are remembered before they are listed.
Waiting == {i \in DOMAIN batch : i > used /\ batch[i].out \in Outcomes}
LoopAnswers ==
    at # "raised" =>
        /\ retries = 0 => Cardinality(RanAt(answers)) = used /\ InOrder(answers, invoked)
        /\ Len(remembered) = Cardinality(OkAt(answers)) + Cardinality(Waiting)

\* What is handed to a tool has passed the policy and the gate.
Handed == IF at = "gating" THEN Called(batch) ELSE invoked
LoopGate ==
    /\ \A i \in DOMAIN Handed : Handed[i].tool \in permitted \cap KnownNames
    /\ \A c \in AnyCall :
         /\ Count(Handed, c) <= Count(gate.counts, c) + retries
         /\ Count(Handed, c) < CriticalAt + retries

LoopInv == LoopTyped /\ GateFits /\ LoopPlaces /\ LoopAnswers /\ LoopGate

-----------------------------------------------------------------------------
(* Sequences: elements at places, counts, and results in order *)

LEMMA CountFits == ASSUME NEW S, NEW seq \in Seq(S), NEW c PROVE Count(seq, c) \in Nat
<1>1. {i \in DOMAIN seq : seq[i] = c} \subseteq 1 .. Len(seq) /\ Len(seq) \in Nat
  OBVIOUS
<1>2. IsFiniteSet({i \in DOMAIN seq : seq[i] = c})
  BY <1>1, FS_Interval, FS_Subset
<1> QED
  BY <1>2, FS_CardinalityType DEF Count

LEMMA CountAppend ==
    ASSUME NEW S, NEW seq \in Seq(S), NEW x \in S, NEW c
    PROVE  Count(Append(seq, x), c) = Count(seq, c) + (IF x = c THEN 1 ELSE 0)
<1> DEFINE old == {i \in DOMAIN seq : seq[i] = c}
           new == {i \in DOMAIN Append(seq, x) : Append(seq, x)[i] = c}
<1>1. Len(seq) \in Nat /\ DOMAIN seq = 1 .. Len(seq)
  OBVIOUS
<1>2. /\ DOMAIN Append(seq, x) = 1 .. Len(seq) + 1 /\ Append(seq, x)[Len(seq) + 1] = x
      /\ \A i \in 1 .. Len(seq) : Append(seq, x)[i] = seq[i]
  BY AppendProperties
<1>3. IsFiniteSet(old) /\ Cardinality(old) \in Nat
  <2>1. old \subseteq 1 .. Len(seq)
    BY <1>1
  <2> HIDE DEF old
  <2>a. IsFiniteSet(1 .. Len(seq))
    BY <1>1, FS_Interval
  <2>2. IsFiniteSet(old)
    BY <2>1, <2>a, FS_Subset
  <2> QED
    BY <2>2, FS_CardinalityType
<1>4. Len(seq) + 1 \notin old
  BY <1>1
<1>b. Count(seq, c) = Cardinality(old) /\ Count(Append(seq, x), c) = Cardinality(new)
  BY DEF Count
<1>5. CASE x = c
  <2>1. new = old \union {Len(seq) + 1}
    BY <1>1, <1>2, <1>5
  <2>2. Cardinality(new) = Cardinality(old) + 1
    <3> HIDE DEF old, new
    <3> QED
      BY <1>3, <1>4, <2>1, FS_AddElement
  <2> QED
    BY <1>5, <1>b, <2>2
<1>6. CASE x # c
  <2>1. new = old
    BY <1>1, <1>2, <1>6
  <2> QED
    <3>1. Count(Append(seq, x), c) = Count(seq, c) /\ Count(seq, c) \in Nat
      BY <1>b, <1>3, <2>1
    <3> QED
      BY <1>6, <3>1
<1> QED
  BY <1>5, <1>6

LEMMA ResultsFit ==
    ASSUME NEW seq \in Seq(Results)
    PROVE  /\ IsFiniteSet(RanAt(seq)) /\ Cardinality(RanAt(seq)) \in Nat /\ RanAt(seq) \subseteq 1 .. Len(seq)
           /\ IsFiniteSet(OkAt(seq)) /\ Cardinality(OkAt(seq)) \in Nat /\ OkAt(seq) \subseteq 1 .. Len(seq)
<1>1. Len(seq) \in Nat /\ DOMAIN seq = 1 .. Len(seq) /\ IsFiniteSet(1 .. Len(seq))
  BY FS_Interval
<1>2. RanAt(seq) \subseteq 1 .. Len(seq) /\ OkAt(seq) \subseteq 1 .. Len(seq)
  BY <1>1 DEF RanAt, OkAt
<1> QED
  BY <1>1, <1>2, FS_Subset, FS_CardinalityType

LEMMA ResultsAppend ==
    ASSUME NEW seq \in Seq(Results), NEW c \in AnyCall, NEW how \in {"ok", "error", "rejected"}
    PROVE  /\ Append(seq, <<c, how>>) \in Seq(Results)
           /\ Append(seq, <<c, how>>)[Len(seq) + 1] = <<c, how>>
           /\ \A i \in 1 .. Len(seq) : Append(seq, <<c, how>>)[i] = seq[i]
           /\ RanAt(Append(seq, <<c, how>>)) = RanAt(seq) \union (IF how = "rejected" THEN {} ELSE {Len(seq) + 1})
           /\ OkAt(Append(seq, <<c, how>>)) = OkAt(seq) \union (IF how = "ok" THEN {Len(seq) + 1} ELSE {})
<1> DEFINE a == <<c, how>>
           more == Append(seq, a)
<1>1. a \in Results /\ a[1] = c /\ a[2] = how
  BY DEF Results
<1> HIDE DEF a
<1>2. /\ Len(seq) \in Nat /\ DOMAIN seq = 1 .. Len(seq) /\ more \in Seq(Results)
      /\ DOMAIN more = 1 .. Len(seq) + 1 /\ more[Len(seq) + 1] = a
      /\ \A i \in 1 .. Len(seq) : more[i] = seq[i]
  BY <1>1, AppendProperties
<1> HIDE DEF more
<1>3. \A i : i \in RanAt(more) <=> i \in RanAt(seq) \/ (how # "rejected" /\ i = Len(seq) + 1)
  BY <1>1, <1>2 DEF RanAt
<1>4. \A i : i \in OkAt(more) <=> i \in OkAt(seq) \/ (how = "ok" /\ i = Len(seq) + 1)
  BY <1>1, <1>2 DEF OkAt
<1>5. RanAt(more) = RanAt(seq) \union (IF how = "rejected" THEN {} ELSE {Len(seq) + 1})
  BY <1>3
<1>6. OkAt(more) = OkAt(seq) \union (IF how = "ok" THEN {Len(seq) + 1} ELSE {})
  BY <1>4
<1> QED
  BY <1>2, <1>5, <1>6 DEF more, a

LEMMA ResultsNumber ==
    ASSUME NEW seq \in Seq(Results), NEW c \in AnyCall, NEW how \in {"ok", "error", "rejected"}
    PROVE  /\ Cardinality(RanAt(Append(seq, <<c, how>>))) = Cardinality(RanAt(seq)) + (IF how = "rejected" THEN 0 ELSE 1)
           /\ Cardinality(OkAt(Append(seq, <<c, how>>))) = Cardinality(OkAt(seq)) + (IF how = "ok" THEN 1 ELSE 0)
<1> DEFINE R == RanAt(seq)
           O == OkAt(seq)
           n == Len(seq) + 1
<1>1. IsFiniteSet(R) /\ IsFiniteSet(O) /\ Cardinality(R) \in Nat /\ Cardinality(O) \in Nat /\ n \notin R /\ n \notin O
  BY ResultsFit
<1>2. /\ RanAt(Append(seq, <<c, how>>)) = R \union (IF how = "rejected" THEN {} ELSE {n})
      /\ OkAt(Append(seq, <<c, how>>)) = O \union (IF how = "ok" THEN {n} ELSE {})
  BY ResultsAppend
<1> HIDE DEF R, O, n
<1>3. Cardinality(R \union {n}) = Cardinality(R) + 1 /\ Cardinality(O \union {n}) = Cardinality(O) + 1
  BY <1>1, FS_AddElement
<1>4. Cardinality(RanAt(Append(seq, <<c, how>>))) = Cardinality(R) + (IF how = "rejected" THEN 0 ELSE 1)
  <2>1. CASE how = "rejected"
    <3>1. RanAt(Append(seq, <<c, how>>)) = R
      BY <1>2, <2>1
    <3> QED
      BY <1>1, <2>1, <3>1
  <2>2. CASE how # "rejected"
    <3>1. RanAt(Append(seq, <<c, how>>)) = R \union {n}
      BY <1>2, <2>2
    <3> QED
      BY <1>3, <2>2, <3>1
  <2> QED
    BY <2>1, <2>2
<1>5. Cardinality(OkAt(Append(seq, <<c, how>>))) = Cardinality(O) + (IF how = "ok" THEN 1 ELSE 0)
  <2>1. CASE how = "ok"
    <3>1. OkAt(Append(seq, <<c, how>>)) = O \union {n}
      BY <1>2, <2>1
    <3> QED
      BY <1>3, <2>1, <3>1
  <2>2. CASE how # "ok"
    <3>1. OkAt(Append(seq, <<c, how>>)) = O
      BY <1>2, <2>2
    <3> QED
      BY <1>1, <2>2, <3>1
  <2> QED
    BY <2>1, <2>2
<1> QED
  BY <1>4, <1>5 DEF R, O

\* The rank of a result among those of calls that ran.
RankOf(seq, i) == Cardinality({j \in RanAt(seq) : j <= i})

LEMMA RankFits ==
    ASSUME NEW seq \in Seq(Results), NEW i \in RanAt(seq)
    PROVE  RankOf(seq, i) \in 1 .. Cardinality(RanAt(seq))
<1> DEFINE R == RanAt(seq)
           B == {j \in RanAt(seq) : j <= i}
<1>1. IsFiniteSet(R) /\ Cardinality(R) \in Nat /\ R \subseteq 1 .. Len(seq)
  BY ResultsFit
<1>2. B \subseteq R /\ i \in B /\ R = RanAt(seq)
  BY <1>1
<1>3. IsFiniteSet(B) /\ Cardinality(B) \in Nat /\ Cardinality(B) <= Cardinality(R)
  <2> HIDE DEF B, R
  <2> QED
    BY <1>1, <1>2, FS_Subset, FS_CardinalityType
<1>4. Cardinality(B) # 0
  <2> HIDE DEF B, R
  <2> QED
    BY <1>2, <1>3, FS_EmptySet
<1>5. RankOf(seq, i) = Cardinality(B)
  BY DEF RankOf
<1> HIDE DEF B
<1> QED
  BY <1>1, <1>3, <1>4, <1>5

LEMMA OrderLonger ==
    ASSUME NEW seq \in Seq(Results), NEW calls, NEW more, InOrder(seq, calls),
           \A n \in 1 .. Cardinality(RanAt(seq)) : more[n] = calls[n]
    PROVE  InOrder(seq, more)
<1>1. \A i \in RanAt(seq) : seq[i][1] = calls[RankOf(seq, i)] /\ RankOf(seq, i) \in 1 .. Cardinality(RanAt(seq))
  BY RankFits DEF InOrder, RankOf
<1>2. \A i \in RanAt(seq) : seq[i][1] = more[RankOf(seq, i)]
  BY <1>1
<1> QED
  BY <1>2 DEF InOrder, RankOf

LEMMA OrderAppend ==
    ASSUME NEW seq \in Seq(Results), NEW calls, InOrder(seq, calls),
           NEW c \in AnyCall, NEW how \in {"ok", "error", "rejected"},
           how # "rejected" => calls[Cardinality(RanAt(seq)) + 1] = c
    PROVE  InOrder(Append(seq, <<c, how>>), calls)
<1> DEFINE more == Append(seq, <<c, how>>)
           n == Len(seq) + 1
<1>1. /\ more[n] = <<c, how>> /\ \A i \in 1 .. Len(seq) : more[i] = seq[i]
      /\ RanAt(more) = RanAt(seq) \union (IF how = "rejected" THEN {} ELSE {n})
  <2>1. more[n] = <<c, how>>
    BY ResultsAppend
  <2>2. \A i \in 1 .. Len(seq) : more[i] = seq[i]
    BY ResultsAppend
  <2>3. RanAt(more) = RanAt(seq) \union (IF how = "rejected" THEN {} ELSE {n})
    BY ResultsAppend
  <2> QED
    BY <2>1, <2>2, <2>3
<1>2. RanAt(seq) \subseteq 1 .. Len(seq) /\ Len(seq) \in Nat /\ \A i \in RanAt(seq) : i \in Nat /\ i < n
  BY ResultsFit
<1>3. Cardinality(RanAt(more)) = Cardinality(RanAt(seq)) + (IF how = "rejected" THEN 0 ELSE 1)
  BY ResultsNumber
<1> HIDE DEF more
<1>4. ASSUME NEW i \in RanAt(seq) PROVE more[i][1] = calls[RankOf(more, i)]
  <2>1. \A j : j \in RanAt(more) /\ j <= i <=> j \in RanAt(seq) /\ j <= i
    BY <1>1, <1>2
  <2>2. {j \in RanAt(more) : j <= i} = {j \in RanAt(seq) : j <= i}
    BY <2>1
  <2>3. seq[i][1] = calls[RankOf(seq, i)]
    BY DEF InOrder, RankOf
  <2>4. RankOf(more, i) = RankOf(seq, i)
    BY <2>2 DEF RankOf
  <2>5. more[i] = seq[i]
    BY <1>1, <1>2
  <2> QED
    BY <2>3, <2>4, <2>5
<1>5. ASSUME how # "rejected" PROVE more[n][1] = calls[RankOf(more, n)]
  <2>1. \A j \in RanAt(more) : j <= n
    BY <1>1, <1>2
  <2>2. {j \in RanAt(more) : j <= n} = RanAt(more)
    BY <2>1
  <2>3. RankOf(more, n) = Cardinality(RanAt(seq)) + 1
    BY <1>3, <1>5, <2>2 DEF RankOf
  <2>4. more[n][1] = c
    BY <1>1
  <2> QED
    BY <1>5, <2>3, <2>4
<1>6. \A i \in RanAt(more) : more[i][1] = calls[RankOf(more, i)]
  BY <1>1, <1>4, <1>5
<1> QED
  BY <1>6 DEF InOrder, RankOf, more

-----------------------------------------------------------------------------
(* The gate, and the types *)

LEMMA JudgedFits ==
    ASSUME GateFits, NEW c \in AnyCall, gate' = Judged(gate, c)
    PROVE  GateFits' /\ gate'.counts = Append(gate.counts, c)
<1> DEFINE h == Append(gate.history, c)
           kept == IF Len(h) > 12 THEN SubSeq(h, Len(h) - 11, Len(h)) ELSE h
<1>1. h \in Seq(AnyCall) /\ Len(h) \in Nat /\ Append(gate.counts, c) \in Seq(AnyCall)
  BY DEF GateFits
<1> HIDE DEF h
<1>2. kept \in Seq(AnyCall) /\ Len(kept) <= 12
  BY <1>1
<1>3. gate'.counts = Append(gate.counts, c) /\ gate'.history = kept
  BY DEF Judged, Counts, Noted, Gate, h
<1> HIDE DEF kept
<1> QED
  BY <1>1, <1>2, <1>3 DEF GateFits

LEMMA RecordedFits ==
    ASSUME GateFits, NEW c, NEW o, gate' = Recorded(gate, c, o)
    PROVE  GateFits' /\ gate'.counts = gate.counts
<1>1. gate'.counts = gate.counts /\ gate'.history = gate.history
  BY DEF Recorded, Counts, Gate
<1> QED
  BY <1>1 DEF GateFits

LEMMA SelectionsFit ==
    /\ \A s \in Selections : s \in Seq(AnyCall)
    /\ Augmented \in AnyCall /\ NoToolCall \in AnyCall
<1>1. \A s \in Selections : ToSet(s) \subseteq AnyCall
  BY DEF AnyCall
<1>2. ASSUME NEW s \in Selections PROVE s \in Seq(AnyCall)
  <2>1. s \in Seq(ToSet(s)) /\ ToSet(s) \subseteq AnyCall
    BY <1>1, ToolLoopAssumption
  <2> HIDE DEF AnyCall
  <2> QED
    BY <2>1
<1>3. Augmented \in AnyCall /\ NoToolCall \in AnyCall
  BY DEF AnyCall
<1> QED
  BY <1>2, <1>3

LEMMA ReadParts ==
    ASSUME NEW c \in AnyCall, NEW o \in Outcomes \union {"error", "runs"}
    PROVE  Reading(c, o) \in ReadStates /\ Reading(c, o).call = c /\ Reading(c, o).out = o
BY DEF Reading, ReadStates

LEMMA ReadFields ==
    ASSUME NEW r \in ReadStates PROVE r.call \in AnyCall /\ r.out \in Outcomes \union {"error", "runs"}
BY DEF ReadStates

\* A sequence of reads, as calls.
LEMMA CalledFits ==
    ASSUME NEW seq \in Seq(ReadStates)
    PROVE  /\ Called(seq) \in Seq(AnyCall) /\ Len(Called(seq)) = Len(seq) /\ DOMAIN Called(seq) = 1 .. Len(seq)
           /\ \A i \in 1 .. Len(seq) : Called(seq)[i] = seq[i].call
<1>1. Len(seq) \in Nat /\ DOMAIN seq = 1 .. Len(seq) /\ \A i \in 1 .. Len(seq) : seq[i] \in ReadStates
  OBVIOUS
<1>2. \A i \in 1 .. Len(seq) : seq[i].call \in AnyCall
  BY <1>1, ReadFields
<1>3. Called(seq) \in [1 .. Len(seq) -> AnyCall] /\ \A i \in 1 .. Len(seq) : Called(seq)[i] = seq[i].call
  BY <1>1, <1>2 DEF Called
<1> HIDE DEF AnyCall
<1>4. Called(seq) \in Seq(AnyCall) /\ Len(Called(seq)) = Len(seq)
  BY <1>1, <1>3
<1> QED
  BY <1>3, <1>4

LEMMA CalledAppend ==
    ASSUME NEW seq \in Seq(ReadStates), NEW r \in ReadStates
    PROVE  Called(Append(seq, r)) = Append(Called(seq), r.call)
<1>1. /\ Len(seq) \in Nat /\ Append(seq, r) \in Seq(ReadStates) /\ Len(Append(seq, r)) = Len(seq) + 1
      /\ Append(seq, r)[Len(seq) + 1] = r /\ \A i \in 1 .. Len(seq) : Append(seq, r)[i] = seq[i]
  BY AppendProperties
<1>2. /\ Called(Append(seq, r)) \in Seq(AnyCall) /\ Len(Called(Append(seq, r))) = Len(seq) + 1
      /\ \A i \in 1 .. Len(seq) + 1 : Called(Append(seq, r))[i] = Append(seq, r)[i].call
  BY <1>1, CalledFits
<1>3. /\ Called(seq) \in Seq(AnyCall) /\ Len(Called(seq)) = Len(seq) /\ r.call \in AnyCall
      /\ \A i \in 1 .. Len(seq) : Called(seq)[i] = seq[i].call
  BY CalledFits, ReadFields
<1>4. /\ Append(Called(seq), r.call) \in Seq(AnyCall) /\ Len(Append(Called(seq), r.call)) = Len(seq) + 1
      /\ \A i \in 1 .. Len(seq) : Append(Called(seq), r.call)[i] = Called(seq)[i]
      /\ Append(Called(seq), r.call)[Len(seq) + 1] = r.call
  BY <1>3, AppendProperties
<1>5. \A i \in 1 .. Len(seq) + 1 : Called(Append(seq, r))[i] = Append(Called(seq), r.call)[i]
  <2> TAKE i \in 1 .. Len(seq) + 1
  <2>1. CASE i = Len(seq) + 1
    BY <2>1, <1>1, <1>2, <1>4
  <2>2. CASE i \in 1 .. Len(seq)
    <3>1. Called(Append(seq, r))[i] = seq[i].call
      BY <2>2, <1>1, <1>2
    <3>2. Append(Called(seq), r.call)[i] = seq[i].call
      BY <2>2, <1>3, <1>4
    <3> QED
      BY <3>1, <3>2
  <2>3. Len(seq) \in Nat
    OBVIOUS
  <2>4. i = Len(seq) + 1 \/ i \in 1 .. Len(seq)
    BY <2>3
  <2> QED
    BY <2>1, <2>2, <2>4
<1> QED
  BY <1>1, <1>2, <1>4, <1>5, SeqEqual

-----------------------------------------------------------------------------
(* What a step does to the gate's promise and to the results *)

LEMMA HandedFits == ASSUME LoopTyped PROVE Handed \in Seq(AnyCall)
BY CalledFits DEF LoopTyped, Handed

LEMMA GateSame ==
    ASSUME LoopTyped, LoopGate, GateFits, Handed' = Handed, permitted' = permitted, retries' = retries,
           gate'.counts = gate.counts
    PROVE  LoopGate'
BY DEF LoopGate

LEMMA GateRefuses ==
    ASSUME LoopTyped, LoopGate, GateFits, Handed' = Handed, permitted' = permitted, retries' = retries,
           NEW c \in AnyCall, gate'.counts = Append(gate.counts, c)
    PROVE  LoopGate'
<1>1. ASSUME NEW d \in AnyCall
      PROVE  Count(Handed', d) <= Count(gate'.counts, d) + retries' /\ Count(Handed', d) < CriticalAt + retries'
  <2>1. Count(gate'.counts, d) = Count(gate.counts, d) + (IF c = d THEN 1 ELSE 0)
    BY CountAppend DEF GateFits
  <2>2. Count(gate.counts, d) \in Nat /\ Count(Handed, d) \in Nat /\ retries \in Nat
    BY CountFits, HandedFits DEF GateFits, LoopTyped
  <2>3. Count(Handed, d) <= Count(gate.counts, d) + retries /\ Count(Handed, d) < CriticalAt + retries
    BY DEF LoopGate
  <2>4. Count(gate'.counts, d) \in Nat /\ Count(gate.counts, d) <= Count(gate'.counts, d)
    BY <2>1, <2>2
  <2> QED
    BY <2>2, <2>3, <2>4
<1> QED
  BY <1>1 DEF LoopGate

LEMMA GateLetsThrough ==
    ASSUME LoopTyped, LoopGate, GateFits, NEW c \in AnyCall, Handed' = Append(Handed, c), permitted' = permitted,
           retries' = retries, gate'.counts = Append(gate.counts, c), Judgement(gate, c) = "run", ~Unusable(c)
    PROVE  LoopGate'
<1>1. Count(gate.counts, c) + 1 < CriticalAt
  <2>1. ~(Count(gate.counts, c) + 1 >= CriticalAt)
    BY DEF Judgement
  <2>2. Count(gate.counts, c) \in Nat /\ CriticalAt \in Nat
    BY CountFits, ToolLoopAssumption DEF GateFits
  <2> QED
    BY <2>1, <2>2
<1>2. ASSUME NEW d \in AnyCall
      PROVE  Count(Handed', d) <= Count(gate'.counts, d) + retries' /\ Count(Handed', d) < CriticalAt + retries'
  <2>1. Count(gate'.counts, d) = Count(gate.counts, d) + (IF c = d THEN 1 ELSE 0)
    BY CountAppend DEF GateFits
  <2>2. Count(gate.counts, d) \in Nat /\ Count(Handed, d) \in Nat /\ retries \in Nat /\ CriticalAt \in Nat
    BY CountFits, HandedFits, ToolLoopAssumption DEF GateFits, LoopTyped
  <2>3. Count(Handed, d) <= Count(gate.counts, d) + retries /\ Count(Handed, d) < CriticalAt + retries
    BY DEF LoopGate
  <2>4. Count(Handed', d) = Count(Handed, d) + (IF c = d THEN 1 ELSE 0)
    BY CountAppend, HandedFits
  <2>5. CASE c = d
    BY <1>1, <2>1, <2>2, <2>3, <2>4, <2>5
  <2>6. CASE c # d
    BY <2>1, <2>2, <2>3, <2>4, <2>6
  <2> QED
    BY <2>5, <2>6
<1>3. \A i \in DOMAIN Handed' : Handed'[i].tool \in permitted' \cap KnownNames
  <2>1. /\ Len(Handed) \in Nat /\ DOMAIN Handed = 1 .. Len(Handed) /\ DOMAIN Handed' = 1 .. Len(Handed) + 1
        /\ Handed'[Len(Handed) + 1] = c /\ \A i \in 1 .. Len(Handed) : Handed'[i] = Handed[i]
    BY HandedFits
  <2>2. c.tool \in permitted \cap KnownNames
    BY DEF Unusable
  <2>3. \A i \in DOMAIN Handed : Handed[i].tool \in permitted \cap KnownNames
    BY DEF LoopGate
  <2> QED
    BY <2>1, <2>2, <2>3
<1> QED
  BY <1>2, <1>3 DEF LoopGate

\* The results stand still.
LEMMA AnswersSame ==
    ASSUME LoopTyped, LoopAnswers, at # "raised", answers' = answers, used' = used, remembered' = remembered,
           Waiting' = Waiting, retries' = 0 => retries = 0, \A n \in 1 .. used : invoked'[n] = invoked[n]
    PROVE  LoopAnswers'
<1>1. retries' = 0 => Cardinality(RanAt(answers')) = used' /\ InOrder(answers', invoked')
  <2> SUFFICES ASSUME retries' = 0 PROVE Cardinality(RanAt(answers)) = used /\ InOrder(answers, invoked')
    OBVIOUS
  <2>1. Cardinality(RanAt(answers)) = used /\ InOrder(answers, invoked) /\ answers \in Seq(Results)
    BY DEF LoopAnswers, LoopTyped
  <2> QED
    BY <2>1, OrderLonger
<1>2. Len(remembered') = Cardinality(OkAt(answers')) + Cardinality(Waiting')
  BY DEF LoopAnswers
<1> QED
  BY <1>1, <1>2 DEF LoopAnswers

\* A call is refused.
LEMMA AnswersRefuse ==
    ASSUME LoopTyped, LoopAnswers, at # "raised", NEW c \in AnyCall, answers' = Append(answers, Rejects(c)),
           used' = used, remembered' = remembered, Waiting' = Waiting, retries' = retries, invoked' = invoked
    PROVE  LoopAnswers'
<1>1. answers \in Seq(Results) /\ answers' = Append(answers, <<c, "rejected">>)
  BY DEF LoopTyped, Rejects
<1>a. used \in Nat /\ Cardinality(OkAt(answers)) \in Nat /\ Cardinality(RanAt(answers)) \in Nat
  BY <1>1, ResultsFit DEF LoopTyped
<1>2. Cardinality(RanAt(answers')) = Cardinality(RanAt(answers)) /\ Cardinality(OkAt(answers')) = Cardinality(OkAt(answers))
  <2>1. /\ Cardinality(RanAt(answers')) = Cardinality(RanAt(answers)) + (IF "rejected" = "rejected" THEN 0 ELSE 1)
        /\ Cardinality(OkAt(answers')) = Cardinality(OkAt(answers)) + (IF "rejected" = "ok" THEN 1 ELSE 0)
    BY <1>1, ResultsNumber
  <2> QED
    BY <1>a, <2>1
<1>3. InOrder(answers, invoked) => InOrder(answers', invoked)
  BY <1>1, OrderAppend
<1> QED
  BY <1>2, <1>3 DEF LoopAnswers

\* A call that was handed to its tool has a result.
LEMMA AnswersGrow ==
    ASSUME LoopTyped, LoopAnswers, at # "raised", NEW c \in AnyCall, NEW how \in {"ok", "error"},
           answers' = Append(answers, <<c, how>>), used' = used + 1, retries' = retries, invoked' = invoked,
           retries = 0 => invoked[used + 1] = c,
           Len(remembered') = Cardinality(OkAt(answers)) + (IF how = "ok" THEN 1 ELSE 0) + Cardinality(Waiting')
    PROVE  LoopAnswers'
<1>1. answers \in Seq(Results) /\ used \in Nat
  BY DEF LoopTyped
<1>a. Cardinality(OkAt(answers)) \in Nat /\ Cardinality(RanAt(answers)) \in Nat
  BY <1>1, ResultsFit
<1>2. /\ Cardinality(RanAt(answers')) = Cardinality(RanAt(answers)) + 1
      /\ Cardinality(OkAt(answers')) = Cardinality(OkAt(answers)) + (IF how = "ok" THEN 1 ELSE 0)
  <2>1. Cardinality(RanAt(answers')) = Cardinality(RanAt(answers)) + (IF how = "rejected" THEN 0 ELSE 1)
    BY <1>1, ResultsNumber
  <2>2. Cardinality(OkAt(answers')) = Cardinality(OkAt(answers)) + (IF how = "ok" THEN 1 ELSE 0)
    BY <1>1, ResultsNumber
  <2> QED
    BY <2>1, <2>2
<1>3. retries = 0 => Cardinality(RanAt(answers')) = used' /\ InOrder(answers', invoked')
  <2> SUFFICES ASSUME retries = 0 PROVE Cardinality(RanAt(answers')) = used + 1 /\ InOrder(answers', invoked)
    OBVIOUS
  <2>1. Cardinality(RanAt(answers)) = used /\ InOrder(answers, invoked)
    BY DEF LoopAnswers
  <2>2. invoked[Cardinality(RanAt(answers)) + 1] = c
    BY <2>1
  <2>3. InOrder(answers', invoked)
    BY <1>1, <2>1, <2>2, OrderAppend
  <2> QED
    BY <1>2, <2>1, <2>3
<1>5. Len(remembered') = Cardinality(OkAt(answers')) + Cardinality(Waiting')
  BY <1>2
<1> QED
  BY <1>3, <1>5 DEF LoopAnswers

-----------------------------------------------------------------------------
(* The actions, one by one *)

LEMMA NothingCounted == \A c : Count(<<>>, c) = 0
<1>1. \A c : {i \in DOMAIN <<>> : <<>>[i] = c} = {}
  OBVIOUS
<1> QED
  BY <1>1, FS_EmptySet DEF Count

LEMMA GateOpen == ASSUME LoopInv, Handed' = <<>>, retries' = retries, gate' = gate PROVE LoopGate'
<1>1. \A c : Count(Handed', c) = 0
  BY NothingCounted
<1>2. \A c \in AnyCall : Count(gate.counts, c) \in Nat
  BY CountFits DEF LoopInv, GateFits
<1>3. retries \in Nat /\ CriticalAt \in Nat /\ CriticalAt > 0
  BY ToolLoopAssumption DEF LoopInv, LoopTyped
<1>4. DOMAIN Handed' = {}
  OBVIOUS
<1> QED
  BY <1>1, <1>2, <1>3, <1>4 DEF LoopGate

LEMMA NoneWaits == ASSUME batch = <<>> PROVE Waiting = {}
BY DEF Waiting

LEMMA NobodyRan ==
    ASSUME LoopTyped, RanAt(answers) = {}
    PROVE  Cardinality(RanAt(answers)) = 0 /\ OkAt(answers) = {} /\ Cardinality(OkAt(answers)) = 0 /\ \A calls : InOrder(answers, calls)
<1>1. OkAt(answers) = {}
  BY DEF OkAt, RanAt
<1>2. \A calls : InOrder(answers, calls)
  BY DEF InOrder
<1> QED
  BY <1>1, <1>2, FS_EmptySet

\* Before the loop nothing has happened to a call.
LEMMA EarlyKept ==
    ASSUME LoopInv, at \in Early, at' \in Early \union {"loop"}, UNCHANGED <<parallel, late, steer, loopState>>,
           queue' \in Seq(AnyCall), permitted' \subseteq AllowedNames \union Grantable
    PROVE  LoopInv'
<1>1. /\ reads' = reads /\ batch' = batch /\ current' = current /\ used' = used /\ invoked' = invoked
      /\ retries' = retries /\ answers' = answers /\ remembered' = remembered /\ gate' = gate /\ span' = span
      /\ parallel' = parallel /\ late' = late /\ steer' = steer
  BY DEF loopState
<1>2. LoopTyped /\ GateFits /\ LoopPlaces
  BY DEF LoopInv
<1>3. at' \in Places /\ at' \notin {"running", "retrying", "gather", "gating", "raised"}
  BY DEF Early, Places, ToolEnds
<1>4. LoopTyped'
  BY <1>1, <1>2, <1>3 DEF LoopTyped
<1>5. GateFits'
  BY <1>1, <1>2 DEF GateFits
<1>6. /\ used = 0 /\ invoked = <<>> /\ remembered = <<>> /\ retries = 0 /\ RanAt(answers) = {}
      /\ batch = <<>> /\ ~span /\ Len(invoked) = 0
  BY <1>2 DEF LoopPlaces, Early
<1>7. LoopPlaces'
  BY <1>1, <1>3, <1>6, ToolLoopAssumption DEF LoopPlaces
<1>8. LoopAnswers'
  <2>1. Waiting' = {}
    BY <1>1, <1>6 DEF Waiting
  <2>2. Cardinality(Waiting') = 0 /\ Len(remembered) = 0
    BY <1>6, <2>1, FS_EmptySet
  <2> QED
    BY <1>1, <1>2, <1>6, <2>2, NobodyRan DEF LoopAnswers
<1>9. LoopGate'
  <2>1. Handed' = <<>>
    BY <1>1, <1>3, <1>6 DEF Handed
  <2> QED
    BY <1>1, <2>1, GateOpen
<1> QED
  BY <1>4, <1>5, <1>7, <1>8, <1>9 DEF LoopInv

LEMMA SelectKept ==
    ASSUME LoopInv, SkipSelection \/ CallFunctions \/ AskForText \/ Vet PROVE LoopInv'
<1>a. queue \in Seq(AnyCall) /\ permitted \subseteq AllowedNames \union Grantable
  BY DEF LoopInv, LoopTyped
<1>1. CASE SkipSelection
  <2>1. at \in Early /\ at' \in Early /\ queue' = queue /\ permitted' = permitted /\ UNCHANGED <<parallel, late, steer, loopState>>
    BY <1>1 DEF SkipSelection, Early
  <2> QED
    BY <1>a, <2>1, EarlyKept
<1>2. CASE CallFunctions
  <2>1. at \in Early /\ at' \in Early /\ permitted' = permitted /\ UNCHANGED <<parallel, late, steer, loopState>>
    BY <1>2 DEF CallFunctions, Early
  <2>2. queue' \in Seq(AnyCall)
    BY <1>a, <1>2, SelectionsFit DEF CallFunctions
  <2> QED
    BY <1>a, <2>1, <2>2, EarlyKept
<1>3. CASE AskForText
  <2>1. at \in Early /\ at' \in Early /\ permitted' = permitted /\ UNCHANGED <<parallel, late, steer, loopState>>
    BY <1>3 DEF AskForText, Early
  <2>2. queue' \in Seq(AnyCall)
    BY <1>3, SelectionsFit DEF AskForText
  <2> QED
    BY <1>a, <2>1, <2>2, EarlyKept
<1>4. CASE Vet
  <2>1. at \in Early /\ UNCHANGED <<parallel, late, steer, loopState>>
        /\ at' = IF queue' = <<>> THEN "empty" ELSE IF parallel THEN "splitting" ELSE "loop"
    BY <1>4 DEF Vet, Early
  <2>2. at' \in Early \union {"loop"}
    BY <2>1 DEF Early
  <2>3. PICK given \in SUBSET (({queue[i].tool : i \in DOMAIN queue} \cap Grantable) \ permitted) :
            LET ok == permitted \union given
                valid == OnlyAt(queue, {i \in DOMAIN queue : queue[i].tool \in ok})
            IN /\ permitted' = ok
               /\ queue' \in {valid} \union (IF Augmented.tool \in ok THEN {Append(valid, Augmented)} ELSE {})
    BY <1>4 DEF Vet
  <2> DEFINE ok == permitted \union given
             valid == OnlyAt(queue, {i \in DOMAIN queue : queue[i].tool \in ok})
  <2>4. permitted' \subseteq AllowedNames \union Grantable
    BY <1>a, <2>3
  <2>5. valid \in Seq(AnyCall)
    BY <1>a, OnlyAtFits
  <2>6. queue' = valid \/ queue' = Append(valid, Augmented)
    BY <2>3
  <2> HIDE DEF valid, ok
  <2>7. queue' \in Seq(AnyCall)
    BY <2>5, <2>6, SelectionsFit, AppendProperties
  <2> QED
    BY <2>1, <2>2, <2>4, <2>7, EarlyKept
<1> QED
  BY <1>1, <1>2, <1>3, <1>4

LEMMA KeptFits == ASSUME LoopTyped PROVE Reads \in Seq(AnyCall) /\ Kept \in Seq(AnyCall) /\ Len(Kept) <= CallCap
<1>1. queue \in Seq(AnyCall) /\ ReadAt \subseteq DOMAIN queue
  BY DEF LoopTyped, ReadAt
<1>2. Reads \in Seq(AnyCall)
  BY <1>1, OnlyAtFits DEF Reads
<1>3. CallCap \in Nat /\ Len(Reads) \in Nat /\ CallCap >= 1
  BY <1>2, ToolLoopAssumption
<1>4. CASE Len(Reads) > CallCap
  <2>1. SubSeq(Reads, 1, CallCap) \in Seq(AnyCall) /\ Len(SubSeq(Reads, 1, CallCap)) = CallCap
    BY <1>2, <1>3, <1>4
  <2> QED
    BY <1>2, <1>3, <1>4, <2>1 DEF Kept
<1>5. CASE ~(Len(Reads) > CallCap)
  BY <1>2, <1>3, <1>5 DEF Kept
<1> QED
  BY <1>2, <1>4, <1>5

LEMMA SplitKept == ASSUME LoopInv, Split PROVE LoopInv'
<1>1. /\ at = "splitting" /\ at' \in {"loop", "gating"} /\ reads' = Kept
      /\ queue' = OnlyAt(queue, DOMAIN queue \ ReadAt)
      /\ answers' = answers \/ answers' = Append(answers, Rejects(NoToolCall))
      /\ parallel' = parallel /\ permitted' = permitted /\ batch' = batch /\ current' = current /\ used' = used
      /\ invoked' = invoked /\ retries' = retries /\ remembered' = remembered /\ gate' = gate
      /\ late' = late /\ steer' = steer /\ span' = span
  BY DEF Split
<1>2. LoopTyped /\ GateFits /\ LoopPlaces /\ LoopAnswers
  BY DEF LoopInv
<1>3. queue' \in Seq(AnyCall)
  <2>1. queue \in Seq(AnyCall) /\ (DOMAIN queue \ ReadAt) \subseteq DOMAIN queue
    BY <1>2 DEF LoopTyped
  <2> QED
    BY <1>1, <2>1, OnlyAtFits
<1>4. /\ used = 0 /\ invoked = <<>> /\ remembered = <<>> /\ retries = 0 /\ RanAt(answers) = {}
      /\ batch = <<>> /\ ~span /\ answers \in Seq(Results)
  BY <1>1, <1>2 DEF LoopPlaces, LoopTyped, Early
<1>5. answers' \in Seq(Results) /\ RanAt(answers') = {}
  <2>1. Append(answers, Rejects(NoToolCall)) \in Seq(Results) /\ RanAt(Append(answers, Rejects(NoToolCall))) = {}
    BY <1>4, SelectionsFit, ResultsAppend DEF Rejects
  <2> QED
    BY <1>1, <1>4, <2>1
<1>6. LoopTyped'
  <2>1. Kept \in Seq(AnyCall) /\ at' \in Places
    BY <1>1, <1>2, KeptFits DEF Places
  <2> QED
    BY <1>1, <1>2, <1>3, <1>5, <2>1 DEF LoopTyped
<1>7. GateFits'
  BY <1>1, <1>2 DEF GateFits
<1>8. LoopPlaces'
  <2>1. Len(Kept) <= CallCap /\ Len(Kept) \in Nat /\ Len(batch) = 0 /\ Len(invoked) = 0 /\ CallCap \in Nat
    BY <1>2, <1>4, KeptFits, ToolLoopAssumption
  <2>2. at' \notin Early
    BY <1>1 DEF Early
  <2> QED
    BY <1>1, <1>4, <1>5, <2>1, <2>2 DEF LoopPlaces
<1>9. LoopAnswers'
  <2>1. Waiting' = {} /\ Len(remembered) = 0
    BY <1>1, <1>4 DEF Waiting
  <2>2. Cardinality(Waiting') = 0
    BY <2>1, FS_EmptySet
  <2>3. OkAt(answers') = {} /\ \A calls : InOrder(answers', calls)
    BY <1>5 DEF OkAt, RanAt, InOrder
  <2> QED
    BY <1>1, <1>4, <1>5, <2>1, <2>2, <2>3, FS_EmptySet DEF LoopAnswers
<1>10. LoopGate'
  <2>1. Called(<<>>) = <<>>
    BY DEF Called
  <2>2. Handed' = <<>>
    BY <1>1, <1>4, <2>1 DEF Handed
  <2> QED
    BY <1>1, <2>2, GateOpen
<1> QED
  BY <1>6, <1>7, <1>8, <1>9, <1>10 DEF LoopInv

LEMMA GateReadKept == ASSUME LoopInv, GateRead PROVE LoopInv'
<1> DEFINE c == Head(reads)
           runs == ~Unusable(c) /\ Judgement(gate, c) = "run"
<1>1. /\ at = "gating" /\ reads # <<>> /\ at' = at
      /\ gate' = IF Unusable(c) THEN gate ELSE Judged(gate, c)
      /\ batch' = IF runs THEN Append(batch, Reading(c, "runs")) ELSE batch
      /\ answers' = IF runs THEN answers ELSE Append(answers, Rejects(c))
      /\ reads' = <<>> \/ reads' = Tail(reads)
      /\ parallel' = parallel /\ permitted' = permitted /\ queue' = queue /\ current' = current /\ used' = used
      /\ invoked' = invoked /\ retries' = retries /\ remembered' = remembered
      /\ late' = late /\ steer' = steer /\ span' = span
  BY DEF GateRead
<1>2. LoopTyped /\ GateFits /\ LoopPlaces /\ LoopAnswers /\ LoopGate
  BY DEF LoopInv
<1>3. reads \in Seq(AnyCall) /\ batch \in Seq(ReadStates) /\ answers \in Seq(Results)
  BY <1>2 DEF LoopTyped
<1>4. c \in AnyCall /\ Tail(reads) \in Seq(AnyCall) /\ Len(Tail(reads)) = Len(reads) - 1 /\ Len(reads) \in Nat \ {0} /\ Len(batch) \in Nat
  BY <1>1, <1>3
<1>5. /\ used = 0 /\ invoked = <<>> /\ remembered = <<>> /\ retries = 0 /\ RanAt(answers) = {} /\ ~span
      /\ Len(batch) + Len(reads) <= CallCap /\ \A i \in DOMAIN batch : batch[i].out = "runs"
  BY <1>1, <1>2 DEF LoopPlaces
<1> HIDE DEF c
<1>6. Reading(c, "runs") \in ReadStates /\ Reading(c, "runs").call = c /\ Reading(c, "runs").out = "runs"
  BY <1>4, ReadParts
<1>7. reads' \in Seq(AnyCall) /\ Len(reads') <= Len(reads) - 1 /\ Len(reads') \in Nat
  <2>1. CASE reads' = <<>>
    <3>1. reads' \in Seq(AnyCall) /\ Len(reads') = 0
      BY <2>1
    <3> QED
      BY <1>4, <3>1
  <2>2. CASE reads' = Tail(reads)
    <3>1. Len(reads') = Len(reads) - 1 /\ Len(reads) - 1 \in Nat
      BY <1>4, <2>2
    <3> QED
      BY <1>4, <2>2, <3>1
  <2> QED
    BY <1>1, <2>1, <2>2
<1>8. batch' \in Seq(ReadStates) /\ Len(batch') <= Len(batch) + 1 /\ Len(batch') \in Nat /\ \A i \in DOMAIN batch' : batch'[i].out = "runs"
  <2>1. CASE ~runs
    BY <1>1, <1>3, <1>4, <1>5, <2>1
  <2>2. CASE runs
    <3>1. batch' = Append(batch, Reading(c, "runs"))
      BY <1>1, <2>2
    <3>2. /\ batch' \in Seq(ReadStates) /\ Len(batch') = Len(batch) + 1 /\ batch'[Len(batch) + 1] = Reading(c, "runs")
          /\ \A i \in 1 .. Len(batch) : batch'[i] = batch[i]
      BY <1>3, <1>6, <3>1, AppendProperties
    <3>3. DOMAIN batch = 1 .. Len(batch) /\ DOMAIN batch' = 1 .. Len(batch) + 1
      BY <1>3, <3>2
    <3>4. \A i \in DOMAIN batch' : batch'[i].out = "runs"
      BY <1>4, <1>5, <1>6, <3>2, <3>3
    <3> QED
      BY <1>4, <3>2, <3>4
  <2> QED
    BY <2>1, <2>2
<1>9. answers' \in Seq(Results) /\ RanAt(answers') = {}
  <2>1. Append(answers, Rejects(c)) \in Seq(Results) /\ RanAt(Append(answers, Rejects(c))) = {}
    BY <1>3, <1>4, <1>5, ResultsAppend DEF Rejects
  <2> QED
    BY <1>1, <1>3, <1>5, <2>1
<1> HIDE DEF runs
<1>10. LoopTyped'
  BY <1>1, <1>2, <1>7, <1>8, <1>9 DEF LoopTyped
<1>11. GateFits'
  <2>1. CASE Unusable(c)
    BY <1>1, <1>2, <2>1 DEF GateFits
  <2>2. CASE ~Unusable(c)
    BY <1>1, <1>2, <1>4, <2>2, JudgedFits
  <2> QED
    BY <2>1, <2>2
<1>12. LoopPlaces'
  <2>1. Len(batch') + Len(reads') <= CallCap /\ Len(invoked) = 0 /\ CallCap \in Nat
    BY <1>4, <1>5, <1>7, <1>8, ToolLoopAssumption
  <2>2. at' \notin Early \union {"loop", "running", "retrying", "results", "steered"}
    BY <1>1 DEF Early
  <2> QED
    BY <1>1, <1>5, <1>8, <1>9, <2>1, <2>2 DEF LoopPlaces
<1>13. LoopAnswers'
  <2>1. Waiting' = {}
    BY <1>8 DEF Waiting, Outcomes
  <2>2. Cardinality(Waiting') = 0 /\ Len(remembered) = 0
    BY <1>5, <2>1, FS_EmptySet
  <2>3. OkAt(answers') = {} /\ \A calls : InOrder(answers', calls)
    BY <1>9 DEF OkAt, RanAt, InOrder
  <2>4. Cardinality(OkAt(answers')) = 0 /\ Cardinality(RanAt(answers')) = 0
    BY <1>9, <2>3, FS_EmptySet
  <2>5. used' = 0 /\ Len(remembered') = 0
    BY <1>1, <1>5, <2>2
  <2> QED
    BY <2>2, <2>3, <2>4, <2>5 DEF LoopAnswers
<1>14. LoopGate'
  <2>1. Handed = Called(batch) /\ Handed' = Called(batch')
    BY <1>1 DEF Handed
  <2>2. CASE Unusable(c)
    <3>1. Handed' = Handed /\ gate' = gate
      BY <1>1, <2>1, <2>2 DEF runs
    <3> QED
      BY <1>1, <1>2, <3>1, GateSame
  <2>3. CASE ~Unusable(c) /\ ~runs
    <3>1. Handed' = Handed /\ gate'.counts = Append(gate.counts, c)
      BY <1>1, <1>2, <1>4, <2>1, <2>3, JudgedFits
    <3> QED
      BY <1>1, <1>2, <1>4, <3>1, GateRefuses
  <2>4. CASE runs
    <3>1. ~Unusable(c) /\ Judgement(gate, c) = "run"
      BY <2>4 DEF runs
    <3>2. gate'.counts = Append(gate.counts, c)
      BY <1>1, <1>2, <1>4, <3>1, JudgedFits
    <3>3. Handed' = Append(Handed, c)
      BY <1>1, <1>3, <1>6, <2>1, <2>4, CalledAppend
    <3> QED
      BY <1>1, <1>2, <1>4, <3>1, <3>2, <3>3, GateLetsThrough
  <2> QED
    BY <2>2, <2>3, <2>4
<1> QED
  BY <1>10, <1>11, <1>12, <1>13, <1>14 DEF LoopInv

LEMMA StartReadsKept == ASSUME LoopInv, StartReads PROVE LoopInv'
<1>1. /\ at = "gating" /\ reads = <<>> /\ invoked' = Called(batch)
      /\ at' = IF batch = <<>> THEN "loop" ELSE "gather"
      /\ parallel' = parallel /\ permitted' = permitted /\ queue' = queue /\ current' = current /\ used' = used
      /\ reads' = reads /\ batch' = batch /\ answers' = answers /\ gate' = gate
      /\ retries' = retries /\ remembered' = remembered /\ late' = late /\ steer' = steer /\ span' = span
  BY DEF StartReads
<1>2. LoopTyped /\ GateFits /\ LoopPlaces /\ LoopAnswers /\ LoopGate
  BY DEF LoopInv
<1>3. batch \in Seq(ReadStates) /\ Len(batch) \in Nat /\ (batch = <<>> <=> Len(batch) = 0)
  BY <1>2 DEF LoopTyped
<1>4. /\ used = 0 /\ invoked = <<>> /\ remembered = <<>> /\ retries = 0 /\ RanAt(answers) = {} /\ ~span
      /\ Len(batch) <= CallCap /\ \A i \in DOMAIN batch : batch[i].out = "runs"
  <2>1. Len(reads) = 0 /\ CallCap \in Nat
    BY <1>1, ToolLoopAssumption
  <2> QED
    BY <1>1, <1>2, <1>3, <2>1 DEF LoopPlaces
<1>5. Called(batch) \in Seq(AnyCall) /\ Len(Called(batch)) = Len(batch)
  BY <1>3, CalledFits
<1>6. at' \in {"loop", "gather"}
  BY <1>1
<1>7. LoopTyped'
  BY <1>1, <1>2, <1>5, <1>6 DEF LoopTyped, Places
<1>8. GateFits'
  BY <1>1, <1>2 DEF GateFits
<1>9. LoopPlaces'
  <2>1. at' \notin Early \union {"gating", "running", "retrying", "results", "steered"}
    BY <1>6 DEF Early
  <2>2. at' = "loop" => batch = <<>> /\ Len(batch) = 0
    BY <1>1, <1>3
  <2>3. at' = "gather" => Len(batch) > 0
    BY <1>1, <1>3
  <2>4. Len(invoked') = Len(batch) /\ CallCap \in Nat
    BY <1>1, <1>5, ToolLoopAssumption
  <2>5. \A i \in DOMAIN batch : i > used
    BY <1>3, <1>4
  <2> QED
    BY <1>1, <1>3, <1>4, <1>6, <2>1, <2>2, <2>3, <2>4, <2>5 DEF LoopPlaces
<1>10. LoopAnswers'
  <2>1. Waiting' = Waiting
    BY <1>1 DEF Waiting
  <2> QED
    BY <1>1, <1>2, <1>4, <2>1, AnswersSame
<1>11. LoopGate'
  <2>1. Handed' = Handed
    BY <1>1, <1>6 DEF Handed
  <2> QED
    BY <1>1, <1>2, <2>1, GateSame
<1> QED
  BY <1>7, <1>8, <1>9, <1>10, <1>11 DEF LoopInv

LEMMA ReadReturnsKept == ASSUME LoopInv, ReadReturns PROVE LoopInv'
<1>1. /\ at = "gather" /\ at' = at
      /\ parallel' = parallel /\ permitted' = permitted /\ queue' = queue /\ reads' = reads /\ current' = current
      /\ used' = used /\ invoked' = invoked /\ retries' = retries /\ answers' = answers /\ gate' = gate
      /\ late' = late /\ steer' = steer /\ span' = span
  BY DEF ReadReturns
<1>2. PICK i \in DOMAIN batch, o \in Outcomes \union {"error"} :
         /\ batch[i].out = "runs" /\ batch' = [batch EXCEPT ![i] = Reading(batch[i].call, o)]
         /\ remembered' = IF o = "error" THEN remembered ELSE Append(remembered, batch[i].call)
  BY DEF ReadReturns
<1>3. LoopTyped /\ GateFits /\ LoopPlaces /\ LoopAnswers /\ LoopGate
  BY DEF LoopInv
<1>4. /\ batch \in Seq(ReadStates) /\ Len(batch) \in Nat /\ DOMAIN batch = 1 .. Len(batch) /\ used \in Nat
      /\ remembered \in Seq(AnyCall) /\ \A j \in DOMAIN batch : batch[j] \in ReadStates
  BY <1>3 DEF LoopTyped
<1> DEFINE r == Reading(batch[i].call, o)
<1>5. r \in ReadStates /\ r.call = batch[i].call /\ r.out = o /\ batch[i].call \in AnyCall
  BY <1>4, ReadParts, ReadFields
<1> HIDE DEF r
<1>6. /\ batch' \in Seq(ReadStates) /\ Len(batch') = Len(batch) /\ DOMAIN batch' = DOMAIN batch
      /\ batch'[i] = r /\ \A j \in DOMAIN batch \ {i} : batch'[j] = batch[j]
  <2>1. batch' = [batch EXCEPT ![i] = r]
    BY <1>2 DEF r
  <2> QED
    BY <1>4, <1>5, <2>1
<1>7. remembered' \in Seq(AnyCall) /\ Len(remembered') = Len(remembered) + (IF o = "error" THEN 0 ELSE 1)
  <2>1. Len(remembered) \in Nat
    BY <1>4
  <2>2. CASE o = "error"
    BY <1>2, <1>4, <2>1, <2>2
  <2>3. CASE o # "error"
    BY <1>2, <1>4, <1>5, <2>3, AppendProperties
  <2> QED
    BY <2>2, <2>3
<1>8. /\ retries = 0 /\ used < Len(batch) /\ invoked = Called(batch) /\ ~span
      /\ \A j \in DOMAIN batch : batch[j].out = "runs" => j > used
      /\ Len(invoked) <= CallCap /\ used <= Len(invoked)
  BY <1>1, <1>3 DEF LoopPlaces
<1>9. Called(batch') = Called(batch)
  <2>1. \A j \in DOMAIN batch : batch'[j].call = batch[j].call
    BY <1>5, <1>6
  <2> QED
    BY <1>6, <2>1 DEF Called
<1>10. LoopTyped'
  BY <1>1, <1>3, <1>6, <1>7 DEF LoopTyped
<1>11. GateFits'
  BY <1>1, <1>3 DEF GateFits
<1>12. LoopPlaces'
  <2>1. at' \notin Early \union {"gating", "loop", "running", "retrying", "results", "steered"}
    BY <1>1 DEF Early
  <2>2. \A j \in DOMAIN batch' : batch'[j].out = "runs" => j > used
    BY <1>2, <1>5, <1>6, <1>8
  <2> QED
    BY <1>1, <1>6, <1>8, <1>9, <2>1, <2>2 DEF LoopPlaces
<1>13. LoopAnswers'
  <2>1. IsFiniteSet(Waiting) /\ Cardinality(Waiting) \in Nat
    <3>1. Waiting \subseteq 1 .. Len(batch)
      BY <1>4 DEF Waiting
    <3>2. IsFiniteSet(1 .. Len(batch))
      BY <1>4, FS_Interval
    <3> QED
      BY <3>1, <3>2, FS_Subset, FS_CardinalityType
  <2>2. i > used /\ i \notin Waiting
    BY <1>2, <1>8 DEF Waiting, Outcomes
  <2>3. \A j : j \in Waiting' <=> j \in Waiting \/ (o # "error" /\ j = i)
    <3>1. \A j \in DOMAIN batch \ {i} : j \in Waiting' <=> j \in Waiting
      BY <1>1, <1>6 DEF Waiting
    <3>2. i \in Waiting' <=> o # "error"
      BY <1>1, <1>2, <1>5, <1>6, <2>2 DEF Waiting, Outcomes
    <3>3. Waiting \subseteq DOMAIN batch /\ Waiting' \subseteq DOMAIN batch
      BY <1>6 DEF Waiting
    <3> QED
      BY <2>2, <3>1, <3>2, <3>3
  <2>4. Cardinality(Waiting') = Cardinality(Waiting) + (IF o = "error" THEN 0 ELSE 1)
    <3>1. CASE o = "error"
      <4>1. Waiting' = Waiting
        BY <2>3, <3>1
      <4> QED
        BY <2>1, <3>1, <4>1
    <3>2. CASE o # "error"
      <4>1. Waiting' = Waiting \union {i}
        BY <2>3, <3>2
      <4> QED
        BY <2>1, <2>2, <3>2, <4>1, FS_AddElement
    <3> QED
      BY <3>1, <3>2
  <2>5. /\ Len(remembered) = Cardinality(OkAt(answers)) + Cardinality(Waiting)
        /\ Cardinality(RanAt(answers)) = used /\ InOrder(answers, invoked)
    BY <1>1, <1>3, <1>8 DEF LoopAnswers
  <2>6. Cardinality(OkAt(answers)) \in Nat
    BY <1>3, ResultsFit DEF LoopTyped
  <2>7. Len(remembered') = Cardinality(OkAt(answers)) + Cardinality(Waiting')
    <3>1. CASE o = "error"
      BY <1>7, <2>1, <2>4, <2>5, <2>6, <3>1
    <3>2. CASE o # "error"
      BY <1>7, <2>1, <2>4, <2>5, <2>6, <3>2
    <3> QED
      BY <3>1, <3>2
  <2> QED
    BY <1>1, <2>5, <2>7 DEF LoopAnswers
<1>14. LoopGate'
  <2>1. Handed' = Handed
    BY <1>1 DEF Handed
  <2> QED
    BY <1>1, <1>3, <2>1, GateSame
<1> QED
  BY <1>10, <1>11, <1>12, <1>13, <1>14 DEF LoopInv

LEMMA GatherKept == ASSUME LoopInv, Gather PROVE LoopInv'
<1> DEFINE k == used + 1
           r == batch[k]
           how == IF r.out = "error" THEN "error" ELSE "ok"
<1>1. /\ at = "gather" /\ \A i \in DOMAIN batch : batch[i].out # "runs"
      /\ answers' = Append(answers, <<r.call, how>>)
      /\ gate' = IF r.out = "error" THEN gate ELSE Recorded(gate, Bare(r.call), r.out)
      /\ used' = k /\ at' = (IF k = Len(batch) THEN "loop" ELSE at) /\ batch' = (IF k = Len(batch) THEN <<>> ELSE batch)
      /\ parallel' = parallel /\ permitted' = permitted /\ queue' = queue /\ reads' = reads /\ current' = current
      /\ invoked' = invoked /\ retries' = retries /\ remembered' = remembered
      /\ late' = late /\ steer' = steer /\ span' = span
  BY DEF Gather
<1>2. LoopTyped /\ GateFits /\ LoopPlaces /\ LoopAnswers /\ LoopGate
  BY DEF LoopInv
<1>3. /\ batch \in Seq(ReadStates) /\ Len(batch) \in Nat /\ DOMAIN batch = 1 .. Len(batch) /\ used \in Nat
      /\ answers \in Seq(Results)
  BY <1>2 DEF LoopTyped
<1>4. /\ retries = 0 /\ used < Len(batch) /\ invoked = Called(batch) /\ ~span
      /\ Len(invoked) <= CallCap /\ used <= Len(invoked)
  BY <1>1, <1>2 DEF LoopPlaces
<1>5. k \in DOMAIN batch /\ k \in Nat /\ r \in ReadStates /\ k <= Len(batch)
  BY <1>3, <1>4
<1>6. r.call \in AnyCall /\ r.out \in Outcomes \union {"error"} /\ how \in {"ok", "error"}
  <2>1. r.call \in AnyCall /\ r.out \in Outcomes \union {"error", "runs"}
    BY <1>5, ReadFields
  <2> QED
    BY <1>1, <1>5, <2>1
<1>7. Len(invoked) = Len(batch) /\ invoked[k] = r.call
  BY <1>3, <1>4, <1>5, CalledFits
<1>8. answers' \in Seq(Results)
  BY <1>1, <1>3, <1>6, ResultsAppend
<1>9. Waiting' = Waiting \ {k}
  <2>1. CASE k = Len(batch)
    <3>1. Waiting' = {}
      BY <1>1, <2>1 DEF Waiting
    <3>2. \A i \in Waiting : i = k
      BY <1>3, <2>1 DEF Waiting
    <3> QED
      BY <3>1, <3>2
  <2>2. CASE k # Len(batch)
    <3>1. batch' = batch /\ used' = k
      BY <1>1, <2>2
    <3>2. \A i \in DOMAIN batch : i > k <=> i > used /\ i # k
      BY <1>3
    <3> QED
      BY <3>1, <3>2 DEF Waiting
  <2> QED
    BY <2>1, <2>2
<1>10. k \in Waiting <=> how = "ok"
  BY <1>3, <1>5, <1>6 DEF Waiting, Outcomes
<1> HIDE DEF r, how, k
<1>11. k = used + 1
  BY DEF k
<1>12. LoopTyped'
  <2>1. batch' \in Seq(ReadStates) /\ at' \in Places
    BY <1>1, <1>3 DEF Places
  <2> QED
    BY <1>1, <1>2, <1>5, <1>8, <2>1 DEF LoopTyped
<1>13. GateFits' /\ gate'.counts = gate.counts
  <2>1. CASE r.out = "error"
    BY <1>1, <1>2, <2>1 DEF GateFits
  <2>2. CASE r.out # "error"
    BY <1>1, <1>2, <2>2, RecordedFits
  <2> QED
    BY <2>1, <2>2
<1>14. LoopPlaces'
  <2>1. CASE k = Len(batch)
    <3>1. at' = "loop" /\ batch' = <<>> /\ at' \notin Early
      BY <1>1, <2>1 DEF Early
    <3> QED
      BY <1>1, <1>4, <1>7, <2>1, <3>1 DEF LoopPlaces
  <2>2. CASE k # Len(batch)
    <3>1. at' = "gather" /\ batch' = batch /\ k < Len(batch) /\ at' \notin Early
      BY <1>1, <1>3, <1>5, <2>2 DEF Early
    <3>2. used' = k /\ k <= Len(invoked) /\ \A i \in DOMAIN batch' : batch'[i].out = "runs" => i > used'
      BY <1>1, <1>3, <1>5, <1>7, <3>1
    <3>3. /\ retries' = 0 /\ span' = FALSE /\ invoked' = Called(batch') /\ used' < Len(batch') /\ Len(invoked') <= CallCap
          /\ used' <= Len(invoked')
      BY <1>1, <1>4, <3>1, <3>2
    <3> QED
      BY <3>1, <3>2, <3>3 DEF LoopPlaces
  <2> QED
    BY <2>1, <2>2
<1>15. LoopAnswers'
  <2>1. IsFiniteSet(Waiting) /\ Cardinality(Waiting) \in Nat
    <3>1. Waiting \subseteq 1 .. Len(batch)
      BY <1>3 DEF Waiting
    <3>2. IsFiniteSet(1 .. Len(batch))
      BY <1>3, FS_Interval
    <3> QED
      BY <3>1, <3>2, FS_Subset, FS_CardinalityType
  <2>2. Cardinality(Waiting) = Cardinality(Waiting') + (IF how = "ok" THEN 1 ELSE 0) /\ Cardinality(Waiting') \in Nat
    <3>1. CASE how = "ok"
      <4>1. k \in Waiting
        BY <1>10, <3>1
      <4>2. Cardinality(Waiting \ {k}) = Cardinality(Waiting) - 1
        BY <2>1, <4>1, FS_RemoveElement
      <4>3. IsFiniteSet(Waiting \ {k}) /\ Cardinality(Waiting \ {k}) \in Nat
        BY <2>1, FS_Subset, FS_CardinalityType
      <4> QED
        BY <1>9, <2>1, <3>1, <4>2, <4>3
    <3>2. CASE how # "ok"
      <4>1. Waiting' = Waiting
        BY <1>9, <1>10, <3>2
      <4> QED
        BY <2>1, <3>2, <4>1
    <3> QED
      BY <3>1, <3>2
  <2>3. Cardinality(OkAt(answers)) \in Nat
    BY <1>3, ResultsFit
  <2>4. Len(remembered') = Cardinality(OkAt(answers)) + (IF how = "ok" THEN 1 ELSE 0) + Cardinality(Waiting')
    <3>1. Len(remembered') = Cardinality(OkAt(answers)) + Cardinality(Waiting)
      BY <1>1, <1>2 DEF LoopAnswers
    <3>2. CASE how = "ok"
      BY <2>2, <2>3, <3>1, <3>2
    <3>3. CASE how # "ok"
      BY <2>2, <2>3, <3>1, <3>3
    <3> QED
      BY <3>2, <3>3
  <2> QED
    BY <1>1, <1>2, <1>6, <1>7, <1>11, <2>4, AnswersGrow
<1>16. LoopGate'
  <2>1. at' # "gating"
    BY <1>1
  <2>2. Handed' = Handed
    BY <1>1, <2>1 DEF Handed
  <2> QED
    BY <1>1, <1>2, <1>13, <2>2, GateSame
<1> QED
  BY <1>12, <1>13, <1>14, <1>15, <1>16 DEF LoopInv

\* A call of the list is refused; the loop goes on or ends.
LEMMA LoopRefuses ==
    ASSUME LoopInv, at = "loop", at' \in {"loop", "results"}, span' \in BOOLEAN, ~span', current' \in AnyCall,
           NEW c \in AnyCall, answers' = Append(answers, Rejects(c)), queue' \in Seq(AnyCall),
           gate' = gate \/ gate' = Judged(gate, c),
           UNCHANGED <<parallel, permitted, reads, batch, used, invoked, retries, remembered, late, steer>>
    PROVE  LoopInv'
<1>1. /\ parallel' = parallel /\ permitted' = permitted /\ reads' = reads /\ batch' = batch /\ used' = used
      /\ invoked' = invoked /\ retries' = retries /\ remembered' = remembered /\ late' = late /\ steer' = steer
  OBVIOUS
<1>2. LoopTyped /\ GateFits /\ LoopPlaces /\ LoopAnswers /\ LoopGate
  BY DEF LoopInv
<1>3. answers' \in Seq(Results)
  BY <1>2, ResultsAppend DEF LoopTyped, Rejects
<1>4. LoopTyped'
  BY <1>1, <1>2, <1>3 DEF LoopTyped, Places, ToolEnds
<1>5. GateFits' /\ (gate'.counts = gate.counts \/ gate'.counts = Append(gate.counts, c))
  <2>1. CASE gate' = gate
    BY <1>2, <2>1 DEF GateFits
  <2>2. CASE gate' = Judged(gate, c)
    BY <1>2, <2>2, JudgedFits
  <2> QED
    BY <2>1, <2>2
<1>6. LoopPlaces'
  <2>1. at' \notin Early /\ batch = <<>> /\ Len(invoked) = used /\ Len(invoked) <= CallCap /\ used <= Len(invoked)
    BY <1>2 DEF LoopPlaces, Early
  <2> QED
    BY <1>1, <2>1 DEF LoopPlaces
<1>7. LoopAnswers'
  <2>1. Waiting' = Waiting
    BY <1>1 DEF Waiting
  <2> QED
    BY <1>1, <1>2, <2>1, AnswersRefuse
<1>8. LoopGate'
  <2>1. Handed' = Handed
    BY <1>1 DEF Handed
  <2> QED
    BY <1>1, <1>2, <1>5, <2>1, GateSame, GateRefuses
<1> QED
  BY <1>4, <1>5, <1>6, <1>7, <1>8 DEF LoopInv

LEMMA ConsiderKept == ASSUME LoopInv, Consider PROVE LoopInv'
<1> DEFINE c == Head(queue)
<1>1. /\ at = "loop" /\ queue # <<>> /\ queue' = Tail(queue)
      /\ parallel' = parallel /\ permitted' = permitted /\ reads' = reads /\ batch' = batch /\ used' = used
      /\ retries' = retries /\ remembered' = remembered /\ late' = late /\ steer' = steer
  BY DEF Consider
<1>2. LoopTyped /\ GateFits /\ LoopPlaces /\ LoopAnswers /\ LoopGate
  BY DEF LoopInv
<1>3. queue \in Seq(AnyCall) /\ current \in AnyCall /\ NoToolCall \in AnyCall /\ used \in Nat /\ invoked \in Seq(AnyCall)
  BY <1>2, SelectionsFit DEF LoopTyped
<1>4. c \in AnyCall /\ queue' \in Seq(AnyCall)
  BY <1>1, <1>3
<1>5. batch = <<>> /\ Len(invoked) = used /\ Len(invoked) <= CallCap /\ ~span
  BY <1>1, <1>2 DEF LoopPlaces
<1>6. CASE late \/ used >= CallCap
  <2>1. answers' = Append(answers, Rejects(c)) /\ at' = "results" /\ current' = NoToolCall /\ span' = FALSE /\ gate' = gate /\ invoked' = invoked
    BY <1>6 DEF Consider, Finish
  <2> HIDE DEF c
  <2> QED
    BY <1>1, <1>3, <1>4, <2>1, LoopRefuses
<1>7. CASE ~(late \/ used >= CallCap) /\ Unusable(c)
  <2>1. answers' = Append(answers, Rejects(c)) /\ at' = at /\ current' = current /\ span' = span /\ gate' = gate /\ invoked' = invoked
    BY <1>7 DEF Consider
  <2> HIDE DEF c
  <2>2. span' \in BOOLEAN /\ ~span'
    BY <1>5, <2>1, <1>2 DEF LoopTyped
  <2> QED
    BY <1>1, <1>3, <1>4, <2>1, <2>2, LoopRefuses
<1>8. CASE ~(late \/ used >= CallCap) /\ ~Unusable(c)
  <2>1. gate' = Judged(gate, c)
    BY <1>8 DEF Consider
  <2>2. CASE Judgement(gate, c) = "skip"
    <3>1. answers' = Append(answers, Rejects(c)) /\ at' = at /\ current' = current /\ span' = span /\ invoked' = invoked
      BY <1>8, <2>2 DEF Consider
    <3> HIDE DEF c
    <3>2. span' \in BOOLEAN /\ ~span'
      BY <1>5, <3>1, <1>2 DEF LoopTyped
    <3> QED
      BY <1>1, <1>3, <1>4, <2>1, <3>1, <3>2, LoopRefuses
  <2>3. CASE Judgement(gate, c) = "break"
    <3>1. answers' = Append(answers, Rejects(c)) /\ at' = "results" /\ current' = NoToolCall /\ span' = FALSE /\ invoked' = invoked
      BY <1>8, <2>3 DEF Consider, Finish
    <3> HIDE DEF c
    <3> QED
      BY <1>1, <1>3, <1>4, <2>1, <3>1, LoopRefuses
  <2>4. CASE Judgement(gate, c) = "run"
    <3>1. at' = "running" /\ current' = c /\ span' = TRUE /\ invoked' = Append(invoked, c) /\ answers' = answers
      BY <1>8, <2>4 DEF Consider
    <3> HIDE DEF c
    <3>2. /\ invoked' \in Seq(AnyCall) /\ Len(invoked') = Len(invoked) + 1 /\ invoked'[Len(invoked) + 1] = c
          /\ \A n \in 1 .. Len(invoked) : invoked'[n] = invoked[n]
      BY <1>3, <1>4, <3>1, AppendProperties
    <3>3. LoopTyped'
      BY <1>1, <1>2, <1>4, <3>1, <3>2 DEF LoopTyped, Places
    <3>4. GateFits' /\ gate'.counts = Append(gate.counts, c)
      BY <1>2, <1>4, <2>1, JudgedFits
    <3>5. LoopPlaces'
      <4>1. used < CallCap /\ CallCap \in Nat
        BY <1>3, <1>8, ToolLoopAssumption
      <4>2. at' \notin Early
        BY <3>1 DEF Early
      <4>3. Len(invoked') = used + 1 /\ invoked'[used + 1] = c /\ Len(invoked') <= CallCap /\ used <= Len(invoked')
        BY <1>3, <1>5, <3>2, <4>1
      <4> QED
        BY <1>1, <1>5, <3>1, <4>2, <4>3 DEF LoopPlaces
    <3>6. LoopAnswers'
      <4>1. Waiting' = Waiting
        BY <1>1 DEF Waiting
      <4>2. \A n \in 1 .. used : invoked'[n] = invoked[n]
        BY <1>5, <3>2
      <4> QED
        BY <1>1, <1>2, <3>1, <4>1, <4>2, AnswersSame
    <3>7. LoopGate'
      <4>1. Handed = invoked /\ Handed' = Append(Handed, c)
        BY <1>1, <3>1 DEF Handed
      <4> QED
        BY <1>1, <1>2, <1>4, <1>8, <2>4, <3>4, <4>1, GateLetsThrough
    <3> QED
      BY <3>3, <3>4, <3>5, <3>6, <3>7 DEF LoopInv
  <2> QED
    BY <1>8, <2>2, <2>3, <2>4 DEF Consider
<1> QED
  BY <1>6, <1>7, <1>8

\* A call is over: it has one result, which a refusal may follow.
LEMMA CallIsOver ==
    ASSUME LoopInv, at \in {"running", "retrying"}, at' \in {"loop", "results", "steered"},
           span' = FALSE, current' = NoToolCall, used' = (IF at = "running" THEN used + 1 ELSE used + 2),
           NEW how \in {"ok", "error"},
           \/ answers' = Append(answers, <<current, how>>)
           \/ answers' = Append(Append(answers, <<current, how>>), Rejects(current)),
           remembered' = (IF how = "ok" THEN Append(remembered, current) ELSE remembered),
           GateFits', gate'.counts = gate.counts,
           UNCHANGED <<parallel, permitted, queue, reads, batch, invoked, retries, late, steer>>
    PROVE  LoopInv'
<1>1. /\ parallel' = parallel /\ permitted' = permitted /\ queue' = queue /\ reads' = reads /\ batch' = batch
      /\ invoked' = invoked /\ retries' = retries /\ late' = late /\ steer' = steer
  OBVIOUS
<1>2. LoopTyped /\ GateFits /\ LoopPlaces /\ LoopAnswers /\ LoopGate
  BY DEF LoopInv
<1>3. /\ current \in AnyCall /\ NoToolCall \in AnyCall /\ answers \in Seq(Results) /\ remembered \in Seq(AnyCall)
      /\ used \in Nat /\ retries \in Nat /\ used' \in Nat
  BY <1>2, SelectionsFit DEF LoopTyped
<1> DEFINE good == Append(answers, <<current, how>>)
           k == IF how = "ok" THEN 1 ELSE 0
<1>4. /\ good \in Seq(Results) /\ Cardinality(RanAt(good)) = Cardinality(RanAt(answers)) + 1
      /\ Cardinality(OkAt(good)) = Cardinality(OkAt(answers)) + k
  <2>1. good \in Seq(Results)
    BY <1>3, ResultsAppend
  <2>2. Cardinality(RanAt(good)) = Cardinality(RanAt(answers)) + (IF how = "rejected" THEN 0 ELSE 1)
    BY <1>3, ResultsNumber
  <2>3. Cardinality(OkAt(good)) = Cardinality(OkAt(answers)) + (IF how = "ok" THEN 1 ELSE 0)
    BY <1>3, ResultsNumber
  <2> QED
    BY <2>1, <2>2, <2>3
<1>5. remembered' \in Seq(AnyCall) /\ Len(remembered') = Len(remembered) + k
  <2>1. Len(remembered) \in Nat
    BY <1>3
  <2>2. CASE how = "ok"
    BY <1>3, <2>2, AppendProperties
  <2>3. CASE how # "ok"
    BY <1>3, <2>1, <2>3
  <2> QED
    BY <2>2, <2>3
<1>6. retries = 0 => Cardinality(RanAt(good)) = used' /\ InOrder(good, invoked)
  <2> SUFFICES ASSUME retries = 0 PROVE Cardinality(RanAt(good)) = used' /\ InOrder(good, invoked)
    OBVIOUS
  <2>1. at = "running"
    BY <1>2, <1>3 DEF LoopPlaces
  <2>2. Cardinality(RanAt(answers)) = used /\ InOrder(answers, invoked)
    BY <1>2, <2>1 DEF LoopAnswers
  <2>3. invoked[Cardinality(RanAt(answers)) + 1] = current
    BY <1>2, <2>1, <2>2 DEF LoopPlaces
  <2>4. InOrder(good, invoked)
    BY <1>3, <2>2, <2>3, OrderAppend
  <2> QED
    BY <1>4, <2>1, <2>2, <2>4
<1>7. answers' = good \/ answers' = Append(good, <<current, "rejected">>)
  BY DEF Rejects
<1>a. Cardinality(OkAt(answers)) \in Nat /\ Cardinality(RanAt(answers)) \in Nat
  BY <1>3, ResultsFit
<1> HIDE DEF good
<1>b. Cardinality(OkAt(good)) \in Nat /\ Cardinality(RanAt(good)) \in Nat
  BY <1>4, ResultsFit
<1>8. /\ answers' \in Seq(Results) /\ Cardinality(RanAt(answers')) = Cardinality(RanAt(good))
      /\ Cardinality(OkAt(answers')) = Cardinality(OkAt(good)) /\ (InOrder(good, invoked) => InOrder(answers', invoked))
  <2>1. CASE answers' = good
    BY <1>4, <2>1
  <2>2. CASE answers' = Append(good, <<current, "rejected">>)
    <3>1. answers' \in Seq(Results)
      BY <1>3, <1>4, <2>2, ResultsAppend
    <3>2. Cardinality(RanAt(answers')) = Cardinality(RanAt(good)) + (IF "rejected" = "rejected" THEN 0 ELSE 1)
      BY <1>3, <1>4, <2>2, ResultsNumber
    <3>3. Cardinality(OkAt(answers')) = Cardinality(OkAt(good)) + (IF "rejected" = "ok" THEN 1 ELSE 0)
      BY <1>3, <1>4, <2>2, ResultsNumber
    <3>4. InOrder(good, invoked) => InOrder(answers', invoked)
      BY <1>3, <1>4, <2>2, OrderAppend
    <3> QED
      BY <1>b, <3>1, <3>2, <3>3, <3>4
  <2> QED
    BY <1>7, <2>1, <2>2
<1>9. LoopTyped'
  BY <1>1, <1>2, <1>3, <1>5, <1>8 DEF LoopTyped, Places, ToolEnds
<1>10. LoopPlaces'
  <2>1. at' \notin Early \union {"gating", "gather", "running", "retrying", "raised"}
    BY DEF Early
  <2>2. Len(invoked) = used' /\ Len(invoked) <= CallCap /\ batch = <<>>
    BY <1>2, <1>3 DEF LoopPlaces
  <2>3. Len(invoked) \in Nat
    BY <1>2 DEF LoopTyped
  <2> QED
    BY <1>1, <2>1, <2>2, <2>3 DEF LoopPlaces
<1>11. LoopAnswers'
  <2>1. batch = <<>> /\ Waiting = {} /\ Waiting' = {}
    BY <1>1, <1>2 DEF LoopPlaces, Waiting
  <2>2. Cardinality(Waiting) = 0 /\ Cardinality(Waiting') = 0
    BY <2>1, FS_EmptySet
  <2>3. Len(remembered) = Cardinality(OkAt(answers)) + Cardinality(Waiting)
    BY <1>2 DEF LoopAnswers
  <2>4. Len(remembered) = Cardinality(OkAt(answers))
    BY <1>a, <2>2, <2>3
  <2>5. Len(remembered') = Cardinality(OkAt(answers')) + Cardinality(Waiting')
    BY <1>4, <1>5, <1>8, <1>b, <2>2, <2>4
  <2> QED
    BY <1>1, <1>6, <1>8, <2>5 DEF LoopAnswers
<1>12. LoopGate'
  <2>1. Handed' = Handed
    BY <1>1 DEF Handed
  <2> QED
    BY <1>1, <1>2, <2>1, GateSame
<1> QED
  BY <1>9, <1>10, <1>11, <1>12 DEF LoopInv

LEMMA ToolEndsKept == ASSUME LoopInv, ToolReturns \/ ToolFails \/ RetryReturns PROVE LoopInv'
<1>1. LoopTyped /\ GateFits
  BY DEF LoopInv
<1>2. CASE ToolReturns
  <2>1. /\ at = "running" /\ used' = used + 1 /\ remembered' = Append(remembered, current)
        /\ UNCHANGED <<parallel, permitted, queue, reads, batch, invoked, retries, late, steer>>
    BY <1>2 DEF ToolReturns
  <2>2. PICK o \in Outcomes :
            /\ gate' = Recorded(gate, current, o)
            /\ LET stuck == NoProgress(gate', current)
                   good == Append(answers, <<current, "ok">>)
               IN /\ answers' = IF stuck THEN Append(good, Rejects(current)) ELSE good
                  /\ IF stuck THEN Finish("results") ELSE GoOn
    BY <1>2 DEF ToolReturns
  <2>3. GateFits' /\ gate'.counts = gate.counts
    BY <1>1, <2>2, RecordedFits
  <2>4. \/ answers' = Append(answers, <<current, "ok">>)
        \/ answers' = Append(Append(answers, <<current, "ok">>), Rejects(current))
    BY <2>2
  <2>5. at' \in {"loop", "results", "steered"} /\ span' = FALSE /\ current' = NoToolCall
    BY <2>2 DEF Finish, GoOn
  <2> QED
    BY <2>1, <2>3, <2>4, <2>5, CallIsOver
<1>3. CASE ToolFails
  <2>1. /\ at = "running" /\ used' = used + 1 /\ remembered' = remembered /\ gate' = gate
        /\ answers' = Append(answers, <<current, "error">>) /\ GoOn
        /\ UNCHANGED <<parallel, permitted, queue, reads, batch, invoked, retries, late, steer>>
    BY <1>3 DEF ToolFails
  <2>2. GateFits' /\ gate'.counts = gate.counts
    BY <1>1, <2>1 DEF GateFits
  <2>3. at' \in {"loop", "results", "steered"} /\ span' = FALSE /\ current' = NoToolCall
    BY <2>1 DEF GoOn
  <2> QED
    BY <2>1, <2>2, <2>3, CallIsOver
<1>4. CASE RetryReturns
  <2>1. /\ at = "retrying" /\ used' = used + 2
        /\ UNCHANGED <<parallel, permitted, queue, reads, batch, invoked, retries, late, steer>>
    BY <1>4 DEF RetryReturns
  <2>2. CASE \E o \in Outcomes :
               /\ gate' = Recorded(gate, current, o) /\ answers' = Append(answers, <<current, "ok">>)
               /\ remembered' = Append(remembered, current)
               /\ at' = "loop" /\ current' = NoToolCall /\ span' = FALSE
    <3>1. GateFits' /\ gate'.counts = gate.counts
      BY <1>1, <2>2, RecordedFits
    <3> QED
      BY <2>1, <2>2, <3>1, CallIsOver
  <2>3. CASE answers' = Append(answers, <<current, "error">>) /\ GoOn /\ UNCHANGED <<gate, remembered>>
    <3>1. GateFits' /\ gate'.counts = gate.counts /\ remembered' = remembered
      BY <1>1, <2>3 DEF GateFits
    <3>2. at' \in {"loop", "results", "steered"} /\ span' = FALSE /\ current' = NoToolCall
      BY <2>3 DEF GoOn
    <3> QED
      BY <2>1, <2>3, <3>1, <3>2, CallIsOver
  <2> QED
    BY <1>4, <2>2, <2>3 DEF RetryReturns
<1> QED
  BY <1>2, <1>3, <1>4

LEMMA RetrySourceKept == ASSUME LoopInv, RetrySource PROVE LoopInv'
<1>1. /\ at = "running" /\ used + 1 < CallCap /\ at' = "retrying" /\ retries' = retries + 1 /\ invoked' = Append(invoked, current)
      /\ parallel' = parallel /\ permitted' = permitted /\ queue' = queue /\ reads' = reads /\ batch' = batch
      /\ current' = current /\ used' = used /\ answers' = answers /\ remembered' = remembered /\ gate' = gate
      /\ late' = late /\ steer' = steer /\ span' = span
  BY DEF RetrySource, MayRetry
<1>2. LoopTyped /\ GateFits /\ LoopPlaces /\ LoopAnswers /\ LoopGate
  BY DEF LoopInv
<1>3. current \in AnyCall /\ invoked \in Seq(AnyCall) /\ used \in Nat /\ retries \in Nat /\ Len(invoked) \in Nat
  BY <1>2 DEF LoopTyped
<1>4. Len(invoked) = used + 1 /\ invoked[used + 1] = current /\ span /\ batch = <<>>
  BY <1>1, <1>2 DEF LoopPlaces
<1>5. /\ invoked' \in Seq(AnyCall) /\ Len(invoked') = used + 2 /\ invoked'[used + 2] = current
      /\ \A n \in 1 .. used + 1 : invoked'[n] = invoked[n]
  <2>1. /\ invoked' \in Seq(AnyCall) /\ Len(invoked') = Len(invoked) + 1 /\ invoked'[Len(invoked) + 1] = current
        /\ \A n \in 1 .. Len(invoked) : invoked'[n] = invoked[n]
    BY <1>1, <1>3, AppendProperties
  <2>2. Len(invoked) + 1 = used + 2
    BY <1>3, <1>4
  <2> QED
    BY <1>4, <2>1, <2>2
<1>6. LoopTyped'
  BY <1>1, <1>2, <1>3, <1>5 DEF LoopTyped, Places
<1>7. GateFits'
  BY <1>1, <1>2 DEF GateFits
<1>8. LoopPlaces'
  <2>1. used + 2 <= CallCap /\ CallCap \in Nat /\ retries' > 0 /\ retries' # 0
    BY <1>1, <1>3, ToolLoopAssumption
  <2>2. at' \notin Early
    BY <1>1 DEF Early
  <2>3. Len(invoked') = used' + 2 /\ Len(invoked') <= CallCap /\ used' <= Len(invoked')
    BY <1>1, <1>3, <1>5, <2>1
  <2> QED
    BY <1>1, <1>4, <2>1, <2>2, <2>3 DEF LoopPlaces
<1>9. LoopAnswers'
  <2>1. Waiting' = Waiting
    BY <1>1 DEF Waiting
  <2>2. retries' # 0
    BY <1>1, <1>3
  <2>3. \A n \in 1 .. used : invoked'[n] = invoked[n]
    BY <1>3, <1>5
  <2> QED
    BY <1>1, <1>2, <2>1, <2>2, <2>3, AnswersSame
<1>10. LoopGate'
  <2>1. Handed = invoked /\ Handed' = Append(Handed, current)
    BY <1>1 DEF Handed
  <2>2. ASSUME NEW d \in AnyCall
        PROVE  Count(Handed', d) <= Count(gate'.counts, d) + retries' /\ Count(Handed', d) < CriticalAt + retries'
    <3>1. Count(Handed', d) = Count(Handed, d) + (IF current = d THEN 1 ELSE 0)
      BY <1>3, <2>1, CountAppend
    <3>2. Count(gate.counts, d) \in Nat /\ Count(Handed, d) \in Nat /\ CriticalAt \in Nat
      BY <1>2, <1>3, <2>1, CountFits, ToolLoopAssumption DEF GateFits
    <3>3. Count(Handed, d) <= Count(gate.counts, d) + retries /\ Count(Handed, d) < CriticalAt + retries
      BY <1>2 DEF LoopGate
    <3>4. gate' = gate /\ retries' = retries + 1
      BY <1>1
    <3>5. Count(Handed', d) <= Count(Handed, d) + 1 /\ Count(Handed', d) \in Nat
      BY <3>1, <3>2
    <3> QED
      BY <1>3, <3>2, <3>3, <3>4, <3>5
  <2>3. \A i \in DOMAIN Handed' : Handed'[i].tool \in permitted' \cap KnownNames
    <3>1. \A i \in 1 .. used + 1 : invoked[i].tool \in permitted \cap KnownNames
      BY <1>2, <1>3, <1>4, <2>1 DEF LoopGate
    <3>2. DOMAIN Handed' = 1 .. used + 2 /\ Handed' = invoked'
      BY <1>1, <1>5, <2>1
    <3>3. current.tool \in permitted \cap KnownNames
      BY <1>3, <1>4, <3>1
    <3> QED
      BY <1>1, <1>3, <1>5, <3>1, <3>2, <3>3
  <2> QED
    BY <2>2, <2>3 DEF LoopGate
<1> QED
  BY <1>6, <1>7, <1>8, <1>9, <1>10 DEF LoopInv

LEMMA LoopDoneKept == ASSUME LoopInv, LoopDone PROVE LoopInv'
<1>1. /\ at = "loop" /\ at' = "results" /\ current' = NoToolCall /\ span' = FALSE
      /\ parallel' = parallel /\ permitted' = permitted /\ queue' = queue /\ reads' = reads /\ batch' = batch
      /\ used' = used /\ invoked' = invoked /\ retries' = retries /\ answers' = answers /\ remembered' = remembered
      /\ gate' = gate /\ late' = late /\ steer' = steer
  BY DEF LoopDone, Finish
<1>2. LoopTyped /\ GateFits /\ LoopPlaces /\ LoopAnswers /\ LoopGate
  BY DEF LoopInv
<1>3. LoopTyped'
  BY <1>1, <1>2, SelectionsFit DEF LoopTyped, Places, ToolEnds
<1>4. GateFits'
  BY <1>1, <1>2 DEF GateFits
<1>5. LoopPlaces'
  <2>1. at' \notin Early /\ batch = <<>> /\ Len(invoked) = used /\ Len(invoked) <= CallCap /\ used <= Len(invoked)
    BY <1>1, <1>2 DEF LoopPlaces, Early
  <2> QED
    BY <1>1, <2>1 DEF LoopPlaces
<1>6. LoopAnswers'
  <2>1. Waiting' = Waiting
    BY <1>1 DEF Waiting
  <2> QED
    BY <1>1, <1>2, <2>1, AnswersSame
<1>7. LoopGate'
  <2>1. Handed' = Handed
    BY <1>1 DEF Handed
  <2> QED
    BY <1>1, <1>2, <2>1, GateSame
<1> QED
  BY <1>3, <1>4, <1>5, <1>6, <1>7 DEF LoopInv

LEMMA AbandonKept == ASSUME LoopInv, Abandon PROVE LoopInv'
<1>1. /\ at \in {"gating", "gather", "loop", "running", "retrying"}
      /\ at' = "raised" /\ current' = NoToolCall /\ span' = FALSE
      /\ parallel' = parallel /\ permitted' = permitted /\ queue' = queue /\ reads' = reads /\ batch' = batch
      /\ used' = used /\ invoked' = invoked /\ retries' = retries /\ answers' = answers /\ remembered' = remembered
      /\ gate' = gate /\ late' = late /\ steer' = steer
  BY DEF Abandon, Finish
<1>2. LoopTyped /\ GateFits /\ LoopPlaces /\ LoopAnswers /\ LoopGate
  BY DEF LoopInv
<1>3. LoopTyped'
  BY <1>1, <1>2, SelectionsFit DEF LoopTyped, Places, ToolEnds
<1>4. GateFits'
  BY <1>1, <1>2 DEF GateFits
<1>5. LoopPlaces'
  <2>1. at' \notin Early /\ Len(invoked) <= CallCap /\ used <= Len(invoked)
    BY <1>1, <1>2 DEF LoopPlaces, Early
  <2> QED
    BY <1>1, <2>1 DEF LoopPlaces
<1>6. LoopAnswers'
  BY <1>1 DEF LoopAnswers
<1>7. LoopGate'
  <2>1. CASE at = "gating"
    <3>1. Handed' = <<>>
      BY <1>1, <1>2, <2>1 DEF Handed, LoopPlaces
    <3> QED
      BY <1>1, <3>1, GateOpen
  <2>2. CASE at # "gating"
    <3>1. Handed' = Handed
      BY <1>1, <2>2 DEF Handed
    <3> QED
      BY <1>1, <1>2, <3>1, GateSame
  <2> QED
    BY <2>1, <2>2
<1> QED
  BY <1>3, <1>4, <1>5, <1>6, <1>7 DEF LoopInv

LEMMA AroundKept == ASSUME LoopInv, Surroundings \/ UNCHANGED toolVars PROVE LoopInv'
<1>1. /\ parallel' = parallel /\ permitted' = permitted /\ queue' = queue /\ reads' = reads /\ batch' = batch /\ at' = at
      /\ used' = used /\ invoked' = invoked /\ retries' = retries /\ answers' = answers /\ remembered' = remembered
      /\ gate' = gate /\ current' = current /\ span' = span
      /\ late' \in {late, TRUE} /\ steer' \in {steer, TRUE}
  BY DEF Surroundings, toolVars, loopState
<1>2. LoopTyped /\ GateFits /\ LoopPlaces /\ LoopAnswers /\ LoopGate
  BY DEF LoopInv
<1>3. LoopTyped'
  BY <1>1, <1>2 DEF LoopTyped
<1>4. GateFits'
  BY <1>1, <1>2 DEF GateFits
<1>5. LoopPlaces'
  BY <1>1, <1>2 DEF LoopPlaces
<1>6. LoopAnswers'
  <2>1. Waiting' = Waiting
    BY <1>1 DEF Waiting
  <2> QED
    BY <1>1, <1>2, <2>1 DEF LoopAnswers
<1>7. LoopGate'
  <2>1. Handed' = Handed
    BY <1>1 DEF Handed
  <2> QED
    BY <1>1, <1>2, <2>1, GateSame
<1> QED
  BY <1>3, <1>4, <1>5, <1>6, <1>7 DEF LoopInv

LEMMA LoopStart == ToolInit => LoopInv
<1> SUFFICES ASSUME ToolInit PROVE LoopInv
  OBVIOUS
<1>1. /\ at = "selecting" /\ parallel \in BOOLEAN /\ permitted = AllowedNames
      /\ queue = <<>> /\ reads = <<>> /\ batch = <<>> /\ current = NoToolCall
      /\ used = 0 /\ invoked = <<>> /\ retries = 0 /\ answers = <<>> /\ remembered = <<>>
      /\ gate = FreshGate /\ late = FALSE /\ steer = FALSE /\ span = FALSE
  BY ToolLoopAssumption DEF ToolInit
<1>2. LoopTyped
  <2>1. at \in Places /\ current \in AnyCall /\ permitted \subseteq AllowedNames \union Grantable
    BY <1>1, SelectionsFit DEF Places
  <2>2. <<>> \in Seq(AnyCall) /\ <<>> \in Seq(ReadStates) /\ <<>> \in Seq(Results)
    OBVIOUS
  <2>3. used \in Nat /\ retries \in Nat /\ late \in BOOLEAN /\ steer \in BOOLEAN /\ span \in BOOLEAN
    BY <1>1
  <2> QED
    BY <1>1, <2>1, <2>2, <2>3 DEF LoopTyped
<1>3. gate.counts = <<>> /\ gate.history = <<>>
  BY <1>1 DEF FreshGate, Gate
<1>4. GateFits
  BY <1>3 DEF GateFits
<1>5. RanAt(answers) = {}
  BY <1>1 DEF RanAt
<1>6. LoopPlaces
  BY <1>1, <1>5, ToolLoopAssumption DEF LoopPlaces
<1>7. LoopAnswers
  <2>1. Waiting = {} /\ Len(remembered) = 0
    BY <1>1 DEF Waiting
  <2>2. Cardinality(Waiting) = 0
    BY <2>1, FS_EmptySet
  <2> QED
    BY <1>1, <1>2, <1>5, <2>1, <2>2, NobodyRan DEF LoopAnswers
<1>8. LoopGate
  <2>1. Handed = <<>> /\ \A c : Count(<<>>, c) = 0
    BY <1>1, NothingCounted DEF Handed
  <2>2. CriticalAt \in Nat /\ CriticalAt > 0
    BY ToolLoopAssumption
  <2> QED
    BY <1>1, <1>3, <2>1, <2>2 DEF LoopGate
<1> QED
  BY <1>2, <1>4, <1>6, <1>7, <1>8 DEF LoopInv

LEMMA LoopKept == LoopInv /\ [ToolNext]_toolVars => LoopInv'
BY SelectKept, SplitKept, GateReadKept, StartReadsKept, ReadReturnsKept, GatherKept, ConsiderKept, ToolEndsKept,
   RetrySourceKept, LoopDoneKept, AbandonKept, AroundKept DEF ToolNext, ToolStep

LEMMA LoopInvSound == LoopInv => ToolLoopSound
<1> SUFFICES ASSUME LoopInv PROVE ToolLoopSound
  OBVIOUS
<1>1. LoopTyped /\ GateFits /\ LoopPlaces /\ LoopAnswers /\ LoopGate
  BY DEF LoopInv
<1>2. /\ used \in Nat /\ invoked \in Seq(AnyCall) /\ Len(invoked) \in Nat /\ CallCap \in Nat
      /\ Len(invoked) <= CallCap /\ used <= Len(invoked)
  BY <1>1, ToolLoopAssumption DEF LoopTyped, LoopPlaces
<1>3. ToolTypeOK
  <2>1. used <= CallCap
    BY <1>2
  <2> QED
    BY <1>1, <2>1 DEF ToolTypeOK, LoopTyped, GateFits, Places
<1>4. BudgetKept
  BY <1>1, <1>2 DEF BudgetKept, LoopPlaces
<1>5. SpansClosed
  BY <1>1 DEF SpansClosed, LoopPlaces
<1>6. OnlyPermitted /\ RepeatsBounded
  <2>1. CASE at = "gating"
    <3>1. DOMAIN invoked = {}
      BY <1>1, <2>1 DEF LoopPlaces
    <3> QED
      BY <3>1 DEF OnlyPermitted, RepeatsBounded
  <2>2. CASE at # "gating"
    <3>1. Handed = invoked
      BY <2>2 DEF Handed
    <3>2. OnlyPermitted
      BY <1>1, <3>1 DEF LoopGate, OnlyPermitted
    <3>3. ASSUME NEW i \in DOMAIN invoked PROVE Count(invoked, invoked[i]) - retries < CriticalAt
      <4>1. invoked[i] \in AnyCall
        BY <1>2
      <4>2. Count(invoked, invoked[i]) < CriticalAt + retries
        BY <1>1, <3>1, <4>1 DEF LoopGate
      <4>3. Count(invoked, invoked[i]) \in Nat /\ retries \in Nat /\ CriticalAt \in Nat
        BY <1>1, <1>2, CountFits, ToolLoopAssumption DEF LoopTyped
      <4> QED
        BY <4>2, <4>3
    <3> QED
      BY <3>2, <3>3 DEF RepeatsBounded
  <2> QED
    BY <2>1, <2>2
<1>7. AnswersInOrder
  <2> SUFFICES ASSUME at \in {"loop", "results"}
               PROVE  /\ retries = 0 => Cardinality(RanAt(answers)) = Len(invoked) /\ InOrder(answers, invoked)
                      /\ Len(remembered) = Cardinality(OkAt(answers))
    BY DEF AnswersInOrder
  <2>1. batch = <<>> /\ Len(invoked) = used
    BY <1>1 DEF LoopPlaces
  <2>2. Waiting = {} /\ Cardinality(Waiting) = 0
    BY <2>1, FS_EmptySet DEF Waiting
  <2>3. Cardinality(OkAt(answers)) \in Nat
    BY <1>1, ResultsFit DEF LoopTyped
  <2> QED
    BY <1>1, <2>1, <2>2, <2>3 DEF LoopAnswers
<1> QED
  BY <1>3, <1>4, <1>5, <1>6, <1>7 DEF ToolLoopSound

-----------------------------------------------------------------------------
(* What the module is about: the four parts of a tool call and the loop.   *)

LEMMA InvokeTyped ==
    InvokeInv /\ RegisterInv /\ StreamsInv => ToolInvokeSound
<1> SUFFICES ASSUME InvokeInv, RegisterInv, StreamsInv PROVE ToolInvokeSound
  OBVIOUS
<1>1. DenialsHold
  BY DenialsAlwaysHold
<1>2. AttemptsBounded /\ RegistrationSound /\ StreamsSound
  BY InvokeInvSound, RegisterInvSound, StreamsInvSound
<1>3. ToolInvokeTypeOK
  BY RegisterInvSound, StreamsInvSound DEF ToolInvokeTypeOK, InvokeInv
<1> QED
  BY <1>1, <1>2, <1>3 DEF ToolInvokeSound

(* However the parts of a tool call interleave: denials hold for every
   request, a call runs at most once per attempt and once more for an approval,
   no MCP server is connected twice and its offer is what was found, a call is
   answered with the answer to its own request and holds the stream it reads;
   and the loop never overdraws its budget, hands only permitted and known
   calls to a tool, cuts the calls that repeat, and has one result for every
   call, in order. *)
THEOREM ToolsSoundHolds ==
    ToolSpec /\ PolicySpec /\ InvokeSpec /\ McpInitSpec /\ McpSpec => []ToolsSound
<1>1. ToolSpec => []LoopInv
  BY LoopStart, LoopKept, PTL DEF ToolSpec
<1>2. InvokeSpec => []InvokeInv
  BY InvokeStart, InvokeKept, PTL DEF InvokeSpec
<1>3. McpInitSpec => []RegisterInv
  BY RegisterStart, RegisterKept, PTL DEF McpInitSpec
<1>4. McpSpec => []StreamsInv
  BY StreamsStart, StreamsKept, PTL DEF McpSpec
<1>5. LoopInv /\ InvokeInv /\ RegisterInv /\ StreamsInv => ToolsSound
  BY LoopInvSound, InvokeTyped DEF ToolsSound
<1> QED
  BY <1>1, <1>2, <1>3, <1>4, <1>5, PTL
=============================================================================
