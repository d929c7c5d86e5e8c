----------------------------- MODULE FabricConns -----------------------------
(***************************************************************************)
(* The connections of communication/rdma.go to one endpoint: sharedConn    *)
(* with its two locks and its flag, the cache that holds the one dialed    *)
(* last, and who else closes it: CloseConn, Shutdown and the evictor.      *)
(*                                                                         *)
(* Nobody calls acquire, so a connection has the one reference of its      *)
(* dialer.  A keeper (CloseConn, Shutdown, evictor) that drops that        *)
(* reference holds connCacheMu and waits for it in Close, for ever; with   *)
(* it waits every dial and every last Close after it.                      *)
(***************************************************************************)
EXTENDS Naturals

CONSTANTS Link,      \* bound: connections that are dialed
          LinkUser   \* callers of SendChunks and RecvChunks

ASSUME FabricAssumption == "none" \notin Link /\ "keeper" \notin Link

Closer == Link \cup {"keeper"}  \* the dialer of a connection closes it once

VARIABLES
  linkCache,   \* Link or "none": connCache of the endpoint
  connLock,   \* "none", or who holds connCacheMu
  lastDialed,  \* history: the connection that was cached last
  linkRefs,    \* [Link -> 0..1], 0 before the dial as well
  linkDialed, linkClosed, innerClosed,  \* [Link -> BOOLEAN]
  usePc, useOf,      \* [LinkUser -> place, connection]
  closePc, closeOf,  \* [Closer -> place, connection]
  keeperDeletes      \* whether the keeper deletes the entry (CloseConn does not)

useVars == <<usePc, useOf>>
closeVars == <<closePc, closeOf>>
fabricVars == <<linkCache, connLock, lastDialed, linkRefs, linkDialed, linkClosed, innerClosed,
                useVars, closeVars, keeperDeletes>>

FabricInit ==
  /\ linkCache = "none" /\ connLock = "none" /\ lastDialed = "none"
  /\ linkRefs = [l \in Link |-> 0]
  /\ linkDialed = [l \in Link |-> FALSE]
  /\ linkClosed = [l \in Link |-> FALSE] /\ innerClosed = [l \in Link |-> FALSE]
  /\ usePc = [u \in LinkUser |-> "idle"] /\ useOf = [u \in LinkUser |-> "none"]
  /\ closePc = [k \in Closer |-> "idle"] /\ closeOf = [k \in Closer |-> "none"]
  /\ keeperDeletes = FALSE

CloseGoto(k, place) == closePc' = [closePc EXCEPT ![k] = place]
UseGoto(u, place) == usePc' = [usePc EXCEPT ![u] = place]
-----------------------------------------------------------------------------
\* A connection of any kind; the one cached before stays open, uncached.
Dial(l) ==
  /\ ~linkDialed[l] /\ connLock = "none"
  /\ linkDialed' = [linkDialed EXCEPT ![l] = TRUE]
  /\ linkRefs' = [linkRefs EXCEPT ![l] = 1]
  /\ linkCache' = l /\ lastDialed' = l
  /\ UNCHANGED <<connLock, linkClosed, innerClosed, useVars, closeVars, keeperDeletes>>

\* s.mu: writers go before readers that come after them.
Reading(l) == {u \in LinkUser : usePc[u] \in {"locked", "inside"} /\ useOf[u] = l}
WriterWaits(l) == \E k \in Closer : closePc[k] = "lock" /\ closeOf[k] = l

\* Faulty variant: the flag is not looked at again under the lock.
MayEnterUnseen(l) == TRUE

MayEnter(l) == ~linkClosed[l]

CallUse(u, l) ==
  /\ usePc[u] = "idle" /\ linkDialed[l] /\ ~linkClosed[l]
  /\ UseGoto(u, "called") /\ useOf' = [useOf EXCEPT ![u] = l]
  /\ UNCHANGED <<linkCache, connLock, lastDialed, linkRefs, linkDialed, linkClosed, innerClosed,
                 closeVars, keeperDeletes>>

LockUse(u) ==
  /\ usePc[u] = "called" /\ ~WriterWaits(useOf[u])
  /\ UseGoto(u, "locked")
  /\ UNCHANGED <<linkCache, connLock, lastDialed, linkRefs, linkDialed, linkClosed, innerClosed,
                 useOf, closeVars, keeperDeletes>>

\* The connection below is used, or the error returned.
EnterUse(u) ==
  /\ usePc[u] = "locked"
  /\ IF MayEnter(useOf[u]) THEN UseGoto(u, "inside") /\ UNCHANGED useOf
     ELSE UseGoto(u, "idle") /\ useOf' = [useOf EXCEPT ![u] = "none"]
  /\ UNCHANGED <<linkCache, connLock, lastDialed, linkRefs, linkDialed, linkClosed, innerClosed,
                 closeVars, keeperDeletes>>

\* All chunks are written, or the context ends or a write fails between two.
LeaveUse(u) ==
  /\ usePc[u] = "inside"
  /\ UseGoto(u, "idle") /\ useOf' = [useOf EXCEPT ![u] = "none"]
  /\ UNCHANGED <<linkCache, connLock, lastDialed, linkRefs, linkDialed, linkClosed, innerClosed,
                 closeVars, keeperDeletes>>
-----------------------------------------------------------------------------
OwnerCloses(l) ==
  /\ closePc[l] = "idle" /\ linkDialed[l]
  /\ CloseGoto(l, "drop") /\ closeOf' = [closeOf EXCEPT ![l] = l]
  /\ UNCHANGED <<linkCache, connLock, lastDialed, linkRefs, linkDialed, linkClosed, innerClosed,
                 useVars, keeperDeletes>>

\* CloseConn; Shutdown and the evictor's two loops delete the entry too.
KeeperBegins(deletes) ==
  /\ closePc["keeper"] = "idle" /\ connLock = "none" /\ linkCache # "none"
  /\ connLock' = "keeper" /\ keeperDeletes' = deletes
  /\ CloseGoto("keeper", "drop") /\ closeOf' = [closeOf EXCEPT !["keeper"] = linkCache]
  /\ UNCHANGED <<linkCache, lastDialed, linkRefs, linkDialed, linkClosed, innerClosed, useVars>>

DropRef(k) ==
  LET l == closeOf[k] IN
  /\ closePc[k] = "drop"
  /\ linkRefs' = [linkRefs EXCEPT ![l] = 0]
  /\ CloseGoto(k, IF linkRefs[l] = 0 THEN "end" ELSE "lock")
  /\ UNCHANGED <<linkCache, connLock, lastDialed, linkDialed, linkClosed, innerClosed, useVars,
                 closeOf, keeperDeletes>>

MarkClosed(k) ==
  /\ closePc[k] = "lock" /\ Reading(closeOf[k]) = {}
  /\ linkClosed' = [linkClosed EXCEPT ![closeOf[k]] = TRUE]
  /\ CloseGoto(k, "inner")
  /\ UNCHANGED <<linkCache, connLock, lastDialed, linkRefs, linkDialed, innerClosed, useVars,
                 closeOf, keeperDeletes>>

CloseInner(k) ==
  /\ closePc[k] = "inner"
  /\ innerClosed' = [innerClosed EXCEPT ![closeOf[k]] = TRUE]
  /\ CloseGoto(k, "uncache")
  /\ UNCHANGED <<linkCache, connLock, lastDialed, linkRefs, linkDialed, linkClosed, useVars,
                 closeOf, keeperDeletes>>

Uncached(l) == IF linkCache = l THEN "none" ELSE linkCache

\* A keeper waits here for the lock it holds.
Uncache(k) ==
  /\ closePc[k] = "uncache" /\ connLock = "none"
  /\ linkCache' = Uncached(closeOf[k])
  /\ CloseGoto(k, "end")
  /\ UNCHANGED <<connLock, lastDialed, linkRefs, linkDialed, linkClosed, innerClosed, useVars,
                 closeOf, keeperDeletes>>

OwnerClosed(l) ==
  /\ closePc[l] = "end"
  /\ CloseGoto(l, "closed")
  /\ UNCHANGED <<linkCache, connLock, lastDialed, linkRefs, linkDialed, linkClosed, innerClosed,
                 useVars, closeOf, keeperDeletes>>

KeeperEnds ==
  /\ closePc["keeper"] = "end"
  /\ connLock' = "none" /\ keeperDeletes' = FALSE
  /\ linkCache' = IF keeperDeletes THEN "none" ELSE linkCache
  /\ CloseGoto("keeper", "idle") /\ closeOf' = [closeOf EXCEPT !["keeper"] = "none"]
  /\ UNCHANGED <<lastDialed, linkRefs, linkDialed, linkClosed, innerClosed, useVars>>
-----------------------------------------------------------------------------
FabricNext ==
  \/ \E l \in Link : Dial(l) \/ OwnerCloses(l) \/ OwnerClosed(l)
  \/ \E u \in LinkUser : LockUse(u) \/ EnterUse(u) \/ LeaveUse(u) \/ \E l \in Link : CallUse(u, l)
  \/ \E k \in Closer : DropRef(k) \/ MarkClosed(k) \/ CloseInner(k) \/ Uncache(k)
  \/ KeeperEnds \/ \E deletes \in BOOLEAN : KeeperBegins(deletes)

FabricSpec == FabricInit /\ [][FabricNext]_fabricVars
-----------------------------------------------------------------------------
FabricTypeOK ==
  /\ linkCache \in Link \cup {"none"} /\ lastDialed \in Link \cup {"none"}
  /\ connLock \in {"none", "keeper"} /\ keeperDeletes \in BOOLEAN
  /\ linkRefs \in [Link -> 0..1] /\ linkDialed \in [Link -> BOOLEAN]
  /\ linkClosed \in [Link -> BOOLEAN] /\ innerClosed \in [Link -> BOOLEAN]
  /\ usePc \in [LinkUser -> {"idle", "called", "locked", "inside"}]
  /\ useOf \in [LinkUser -> Link \cup {"none"}]
  /\ closePc \in [Closer -> {"idle", "drop", "lock", "inner", "uncache", "end", "closed"}]
  /\ closeOf \in [Closer -> Link \cup {"none"}]

\* Nobody reads from or writes to a connection below that has been closed,
\* although users look at the flag before they have the lock.
NoUseAfterClose == \A u \in LinkUser : usePc[u] = "inside" => ~innerClosed[useOf[u]]

\* The connection dialed last is the cached one until a reference of it is
\* dropped: closing an older one of the endpoint does not take it away.
LatestStaysCached == lastDialed # "none" /\ linkRefs[lastDialed] = 1 => linkCache = lastDialed
=============================================================================
