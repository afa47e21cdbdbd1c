------------------------------- MODULE FishPool -------------------------------
(***************************************************************************)
(* FISH+ connections and the pool that keeps idle ones alive               *)
(* (plugins/netfox/fish_pool.go, fishConn in fish_vfs.go), for one site:   *)
(* one fishPoolKey, so one entry.                                          *)
(*                                                                         *)
(* A connection is shared by views that count themselves in refs, carries  *)
(* one session at a time and replaces a dead one by reconnecting.  The     *)
(* pool's mutex and each connection's own are never held together, so the  *)
(* steps between them are actions, and so is every idle timer's callback:  *)
(* one that has fired may still run after Stop.                            *)
(***************************************************************************)
EXTENDS Naturals, FiniteSets

CONSTANTS Conns,        \* the connections ever dialled
          Sessions,     \* the sessions ever opened
          NoConn, NoSession,
          MaxViews,     \* bound: views of one connection at a time
          MaxDials      \* bound: reconnects under way at a time

ASSUME FishAssumption ==
  /\ NoConn \notin Conns /\ NoSession \notin Sessions
  /\ MaxViews \in Nat \ {0} /\ MaxDials \in Nat

VARIABLES
  refs, connClosed,   \* fishConn.refs, fishConn.closed
  client,         \* fishConn.client: the session in use
  session,        \* every session: "none", "live", "broken" or "closed"
  entry,          \* fishPool.entries[key]
  armed, fired,   \* idle timers running, and callbacks started by them
  held,           \* where take or release has a connection between two locks
  shutting,       \* the connections shutdown has been called on
  dials,          \* the reconnects under way: [conn, dead, fresh] records
  exiting         \* closeAll has run

poolVars == <<refs, connClosed, client, session, entry, armed, fired, held, shutting, dials, exiting>>

\* release before and after it made the timer, and take before and after it
\* stopped it.
Stages == {"nowhere", "releasing", "parking", "taken", "stopped"}

PoolInit ==
  /\ refs = [c \in Conns |-> 0] /\ connClosed = [c \in Conns |-> FALSE]
  /\ client = [c \in Conns |-> NoSession]
  /\ session = [s \in Sessions |-> "none"]
  /\ entry = NoConn /\ armed = [c \in Conns |-> FALSE] /\ fired = [c \in Conns |-> FALSE]
  /\ held = [c \in Conns |-> "nowhere"] /\ shutting = {}
  /\ dials = {} /\ exiting = FALSE

\* The sessions still to be opened, and the next: which of them makes no
\* difference.
Unopened == {s \in Sessions : session[s] = "none"}
Fresh == CHOOSE s \in Unopened : TRUE

Dialled(c) == client[c] # NoSession
Broken(c) == session[client[c]] # "live"

-----------------------------------------------------------------------------
(* Opening a site: NewFishVFSWithOptions.                                  *)

\* take, its first half: whatever the pool holds leaves it.
Take ==
  /\ entry # NoConn
  /\ held' = [held EXCEPT ![entry] = "taken"]
  /\ entry' = NoConn
  /\ UNCHANGED <<refs, connClosed, client, session, armed, fired, shutting, dials, exiting>>

\* take found nothing: a new connection is dialled for the view.
Dial(c) ==
  /\ entry = NoConn /\ ~Dialled(c) /\ Unopened # {}
  /\ client' = [client EXCEPT ![c] = Fresh]
  /\ session' = [session EXCEPT ![Fresh] = "live"]
  /\ refs' = [refs EXCEPT ![c] = 1]
  /\ UNCHANGED <<connClosed, entry, armed, fired, held, shutting, dials, exiting>>

\* e.timer.Stop(): a timer that has fired is not called back.
StopTimer(c) ==
  /\ held[c] = "taken"
  /\ armed' = [armed EXCEPT ![c] = FALSE]
  /\ held' = [held EXCEPT ![c] = "stopped"]
  /\ UNCHANGED <<refs, connClosed, client, session, entry, fired, shutting, dials, exiting>>

HandOutDropsDead(c) ==  \* (mutant)
  /\ held[c] = "stopped"
  /\ held' = [held EXCEPT ![c] = "nowhere"]
  /\ refs' = IF connClosed[c] \/ Broken(c) THEN refs ELSE [refs EXCEPT ![c] = @ + 1]
  /\ UNCHANGED <<connClosed, client, session, entry, armed, fired, shutting, dials, exiting>>

\* take, its second half: the connection is retained for the view, or shut
\* down when its session died in the pool.
HandOut(c) ==
  /\ held[c] = "stopped"
  /\ held' = [held EXCEPT ![c] = "nowhere"]
  /\ IF connClosed[c] \/ Broken(c)
       THEN shutting' = shutting \cup {c} /\ UNCHANGED refs
       ELSE refs' = [refs EXCEPT ![c] = @ + 1] /\ UNCHANGED shutting
  /\ UNCHANGED <<connClosed, client, session, entry, armed, fired, dials, exiting>>

-----------------------------------------------------------------------------
(* The views: retain and release.                                          *)

Retain(c) ==
  /\ refs[c] \in 1..(MaxViews - 1)
  /\ refs' = [refs EXCEPT ![c] = @ + 1]
  /\ UNCHANGED <<connClosed, client, session, entry, armed, fired, held, shutting, dials, exiting>>

\* The last view's Close (each view closes once) leaves the connection to this
\* goroutine, unless it was closed meanwhile.
ReleaseView(c) ==
  /\ refs[c] > 0
  /\ refs' = [refs EXCEPT ![c] = @ - 1]
  /\ held' = IF refs[c] = 1 /\ ~connClosed[c] THEN [held EXCEPT ![c] = "releasing"] ELSE held
  /\ UNCHANGED <<connClosed, client, session, entry, armed, fired, shutting, dials, exiting>>

\* park makes the timer before it takes the pool's lock.
Arm(c) ==
  /\ held[c] = "releasing"
  /\ armed' = [armed EXCEPT ![c] = TRUE]
  /\ held' = [held EXCEPT ![c] = "parking"]
  /\ UNCHANGED <<refs, connClosed, client, session, entry, fired, shutting, dials, exiting>>

\* park puts the connection in; one that was there is stopped and shut down.
Park(c) ==
  /\ held[c] = "parking"
  /\ entry' = c
  /\ armed' = [d \in Conns |-> armed[d] /\ d # entry]
  /\ held' = [held EXCEPT ![c] = "nowhere"]
  /\ shutting' = shutting \cup ({entry} \ {NoConn})
  /\ UNCHANGED <<refs, connClosed, client, session, fired, dials, exiting>>

-----------------------------------------------------------------------------
(* The idle timer, and the end.                                            *)

\* Bound: an idle time of minutes does not run out inside park, between
\* AfterFunc and the pool's lock, and an earlier callback of the same
\* connection has run before its next timer fires.
Fire(c) ==
  /\ armed[c] /\ held[c] # "parking" /\ ~fired[c]
  /\ armed' = [armed EXCEPT ![c] = FALSE] /\ fired' = [fired EXCEPT ![c] = TRUE]
  /\ UNCHANGED <<refs, connClosed, client, session, entry, held, shutting, dials, exiting>>

\* The callback: it removes its own connection's entry only, but goes on to
\* shut its connection down whenever the site has an entry at all.
Callback(c) ==
  /\ fired[c] /\ fired' = [fired EXCEPT ![c] = FALSE]
  /\ entry' = IF entry = c THEN NoConn ELSE entry
  /\ shutting' = IF entry # NoConn THEN shutting \cup {c} ELSE shutting
  /\ UNCHANGED <<refs, connClosed, client, session, armed, held, dials, exiting>>

\* shutdown: the mark, the keepalive and the session.
Shutdown(c) ==
  /\ c \in shutting /\ shutting' = shutting \ {c}
  /\ connClosed' = [connClosed EXCEPT ![c] = TRUE]
  /\ session' = IF connClosed[c] THEN session ELSE [session EXCEPT ![client[c]] = "closed"]
  /\ UNCHANGED <<refs, client, entry, armed, fired, held, dials, exiting>>

CloseAll ==
  /\ ~exiting /\ exiting' = TRUE
  /\ entry' = NoConn
  /\ armed' = [d \in Conns |-> armed[d] /\ d # entry]
  /\ shutting' = shutting \cup ({entry} \ {NoConn})
  /\ UNCHANGED <<refs, connClosed, client, session, fired, held, dials>>

-----------------------------------------------------------------------------
(* The session under a connection: reconnect.                              *)

\* The far side goes away; a request or the keepalive marks the session.
Break(s) ==
  /\ session[s] = "live" /\ session' = [session EXCEPT ![s] = "broken"]
  /\ UNCHANGED <<refs, connClosed, client, entry, armed, fired, held, shutting, dials, exiting>>

\* reconnect, its first lock: a view that saw its client die goes dialling,
\* unless the client is another by now or the connection is closed.
Redial(c) ==
  /\ refs[c] > 0 /\ Dialled(c) /\ ~connClosed[c] /\ Broken(c)
  /\ Cardinality(dials) < MaxDials /\ Unopened # {}
  /\ dials' = dials \cup {[conn |-> c, dead |-> client[c], fresh |-> Fresh]}
  /\ session' = [session EXCEPT ![Fresh] = "live"]
  /\ UNCHANGED <<refs, connClosed, client, entry, armed, fired, held, shutting, exiting>>

\* The dial or its Noop failed, and the session it had opened is closed.
RedialFails(d) ==
  /\ d \in dials /\ dials' = dials \ {d}
  /\ session' = [session EXCEPT ![d.fresh] = "closed"]
  /\ UNCHANGED <<refs, connClosed, client, entry, armed, fired, held, shutting, exiting>>

InstallBlindly(d) ==  \* (mutant)
  /\ d \in dials /\ dials' = dials \ {d}
  /\ client' = [client EXCEPT ![d.conn] = d.fresh]
  /\ session' = [session EXCEPT ![d.dead] = "closed"]
  /\ UNCHANGED <<refs, connClosed, entry, armed, fired, held, shutting, exiting>>

\* reconnect, its second lock: the connection was closed or somebody else has
\* replaced the client, and this session is dropped; or it is installed and
\* the dead one closed.
Install(d) ==
  /\ d \in dials /\ dials' = dials \ {d}
  /\ IF connClosed[d.conn] \/ client[d.conn] # d.dead
       THEN session' = [session EXCEPT ![d.fresh] = "closed"] /\ UNCHANGED client
       ELSE /\ client' = [client EXCEPT ![d.conn] = d.fresh]
            /\ session' = [session EXCEPT ![d.dead] = "closed"]
  /\ UNCHANGED <<refs, connClosed, entry, armed, fired, held, shutting, exiting>>

PoolNext ==
  \/ Take \/ CloseAll
  \/ \E c \in Conns : \/ Dial(c) \/ StopTimer(c) \/ HandOut(c) \/ Retain(c) \/ ReleaseView(c)
                      \/ Arm(c) \/ Park(c) \/ Fire(c) \/ Callback(c) \/ Shutdown(c)
                      \/ Redial(c)
  \/ \E s \in Sessions : Break(s)
  \/ \E d \in dials : RedialFails(d) \/ Install(d)

PoolSpec == PoolInit /\ [][PoolNext]_poolVars

\* Timers fire and run, and a goroutine inside release, take or shutdown goes
\* on.  Views need never be closed.
PoolFairSpec ==
  /\ PoolSpec
  /\ \A c \in Conns : /\ WF_poolVars(StopTimer(c)) /\ WF_poolVars(HandOut(c))
                      /\ WF_poolVars(Arm(c)) /\ WF_poolVars(Park(c))
                      /\ WF_poolVars(Fire(c)) /\ WF_poolVars(Callback(c)) /\ WF_poolVars(Shutdown(c))

-----------------------------------------------------------------------------
PoolTypeOK ==
  /\ refs \in [Conns -> 0..MaxViews] /\ connClosed \in [Conns -> BOOLEAN]
  /\ client \in [Conns -> Sessions \cup {NoSession}]
  /\ session \in [Sessions -> {"none", "live", "broken", "closed"}]
  /\ entry \in Conns \cup {NoConn}
  /\ armed \in [Conns -> BOOLEAN] /\ fired \in [Conns -> BOOLEAN]
  /\ held \in [Conns -> Stages] /\ shutting \subseteq Conns
  /\ dials \subseteq [conn: Conns, dead: Sessions, fresh: Sessions]
  /\ exiting \in BOOLEAN

\* A parked connection has no view, and nobody is doing anything to it: what
\* take hands out cannot be in use by another panel already.
ParkedIsIdle == entry # NoConn => refs[entry] = 0 /\ held[entry] = "nowhere"

\* No open connection is lost: one without a view is in the pool, or in the
\* hands of a goroutine that parks it, hands it out or shuts it down.
NoLostConnection ==
  \A c \in Conns : Dialled(c) /\ ~connClosed[c] /\ refs[c] = 0
                   => entry = c \/ held[c] # "nowhere" \/ c \in shutting

\* No session is leaked: one that is open is some open connection's client, or
\* a reconnect under way still has it to install or to drop.
NoLostSession ==
  \A s \in Sessions : session[s] \in {"live", "broken"}
                      => \/ \E c \in Conns : client[c] = s /\ ~connClosed[c]
                         \/ \E d \in dials : d.fresh = s

\* Whatever release, take, park, the idle timer and reconnect do between their
\* locks: what is parked is idle, and neither a connection nor a session is lost.
NothingLost == ParkedIsIdle /\ NoLostConnection /\ NoLostSession

\* A connection nobody comes back for is closed.
IdleIsClosed ==
  \A c \in Conns : (Dialled(c) /\ refs[c] = 0) ~> (connClosed[c] \/ refs[c] > 0)

\* A connection is never shut down while a view still holds it (fish_pool.go,
\* "never while a view still holds it, which is what fishConn.release and
\* fishPool.take both arrange for before reaching here").  The code does not
\* keep this: a callback that fired before take stopped its timer finds an
\* entry when another connection has been parked meanwhile.
HeldStaysOpen == [][\A c \in Conns : refs[c] > 0 /\ ~connClosed[c] => ~connClosed'[c]]_poolVars
===============================================================================
