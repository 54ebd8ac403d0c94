-------------------------- MODULE ConnectionProofs --------------------------
(***************************************************************************)
(* Proofs about the lifecycle of connections and about the media path of   *)
(* one of them.                                                            *)
(***************************************************************************)
EXTENDS PeerConnection, DtlsTransport, TLAPS

-----------------------------------------------------------------------------
(***************************************************************************)
(* Proofs about PeerConnection, for any number of connections, any bound   *)
(* on the worker's messages, with and without session tickets.             *)
(*                                                                         *)
(* That the end of a connection is reported once is the matter of a right  *)
(* to report it.  Taking the connection out of the map creates the right,  *)
(* the report uses it up, and in between exactly one of the four threads   *)
(* holds it (OneTeller): a second removal finds another connection in the  *)
(* map, as no generation ever returns to it (StayOut).  EndOwed is the     *)
(* converse: the right is never lost.                                      *)
(***************************************************************************)

Places == {"idle", "clearTell", "release", "tellEnd", "replace", "init", "push", "tell", "closed",
           "leave", "lookup", "start", "drop", "join", "launch", "exited", "retire", "stop",
           "joinWorker", "close", "destroyed"}
Plans == {"idle", "stop", "drop", "join"}

Records == [at : Places, conn : 0..MaxConns, old : 0..MaxConns, then : Plans]

Types ==
    /\ created \in 0..MaxConns
    /\ map \in 0..created
    /\ transport \in [Conns -> {"none", "idle", "selfJoin"} \cup Callbacks]
    /\ told \in [Conns -> [ends : Nat, late : BOOLEAN]]
    /\ removed \subseteq Conns
    /\ cleanup \subseteq Conns
    /\ running \in BOOLEAN
    /\ thread \in [Threads -> Records]

\* A connection that was removed is never current again.
StayOut == \A c \in removed : c <= created /\ map # c

\* Where a thread works on a connection.
Working == {"clearTell", "tellEnd", "release", "replace", "init", "start", "launch", "join", "drop",
            "retire"}

\* Where a thread is about to report the end of a connection.
Reporting == {"clearTell", "tellEnd"}

\* What thread t may be doing: where it may stand and with which connection.
Fits(t, r) ==
    /\ r.at \in Working => r.conn # None
    /\ r.at \in {"clearTell", "release"} => r.then \in {"idle", "stop"}
    /\ t # "worker" => /\ r.then \in {"idle", "stop"}
                       /\ r.at \notin {"launch", "join", "exited", "start"}

Threading ==
    /\ \A t \in Threads : Fits(t, thread[t])
    /\ thread["worker"].at = "launch" => transport[thread["worker"].conn] = "none"
    /\ thread["worker"].at = "exited" => ~running /\ cleanup = {}

\* Thread t is about to report the end of c.
Ending(t, c) == thread[t].conn = c /\ thread[t].at \in Reporting

\* The end is reported at most once, and while it is still to be reported one
\* thread is about to.
OneTeller ==
    \A c \in Conns :
        /\ told[c].ends \in {0, 1}
        /\ told[c].ends = 1 => c \in removed
        /\ transport[c] = "tellEnd" => c \in removed /\ told[c].ends = 0
        /\ \A t \in Threads : Ending(t, c) =>
             /\ c \in removed /\ told[c].ends = 0 /\ transport[c] # "tellEnd"
             /\ \A s \in Threads \ {t} : ~Ending(s, c)

\* The end of every removed connection was reported, or a thread stands at
\* the report.
EndOwed ==
    \A c \in removed :
        told[c].ends = 1 \/ transport[c] = "tellEnd" \/ \E t \in Threads : Ending(t, c)

PInv == Types /\ StayOut /\ Threading /\ OneTeller /\ EndOwed
-----------------------------------------------------------------------------
(***************************************************************************)
(* Four kinds of step: a thread moves on, perhaps ending a transport that  *)
(* is in no callback; it retires a connection and will report that; it     *)
(* reports; and Retire and Drops, read as what they do to the invariant.   *)
(***************************************************************************)
\* c leaves the map for the cleanup queue.
Retired(c) ==
    /\ map = c /\ running
    /\ map' = None /\ cleanup' = cleanup \cup {c} /\ removed' = removed \cup {c}

LEMMA RetireCases ==
    ASSUME NEW c, Retire(c)
    PROVE  \/ Retirable(c) /\ Retired(c)
           \/ ~Retirable(c) /\ UNCHANGED <<map, removed, cleanup>>
<1>1. CASE Retirable(c)
  BY <1>1 DEF Retire, Retirable, Retired
<1>2. CASE ~Retirable(c)
  BY <1>2 DEF Retire
<1>. QED
  BY <1>1, <1>2

\* The transports stay as they are, but for one that ends outside a callback.
Ends == \/ transport' = transport
        \/ \E c \in Conns : /\ transport[c] \in {"none", "idle"}
                            /\ transport' = [transport EXCEPT ![c] = "none"]

LEMMA DropsEnds ==
    ASSUME NEW t \in Threads, NEW c \in Conns, Drops(t, c)
    PROVE  Ends
<1>1. CASE DropsLast(t, c) /\ transport[c] = "idle"
  BY <1>1 DEF Drops, Ends
<1>2. CASE ~(DropsLast(t, c) /\ transport[c] = "idle")
  BY <1>2 DEF Drops, Ends
<1>. QED
  BY <1>1, <1>2

LEMMA Moves ==
    ASSUME PInv, NEW t \in Threads, NEW r \in Records, Fits(t, r),
           thread[t].at \notin Reporting, r.at \notin Reporting \cup {"exited"},
           r.at = "launch" => transport'[r.conn] = "none",
           thread' = [thread EXCEPT ![t] = r], Ends,
           UNCHANGED <<map, created, told, removed, cleanup, running>>
    PROVE  PInv'
<1>. USE BoundsAssumption DEF PInv, Conns, None, Ends
<1>0. thread' \in [Threads -> Records]
  BY DEF Types
<1>1. Types'
  BY <1>0 DEF Types, Callbacks
<1>2. StayOut'
  BY DEF StayOut
<1>3. Threading'
  <2>1. \A s \in Threads : Fits(s, thread'[s])
    BY DEF Types, Threading
  <2>2. (thread["worker"].at = "launch" => transport[thread["worker"].conn] = "none")'
    <3>. SUFFICES ASSUME thread'["worker"].at = "launch"
                  PROVE  transport'[thread'["worker"].conn] = "none"
      OBVIOUS
    <3>1. CASE t = "worker"
      BY <3>1 DEF Types, Threads
    <3>2. CASE t # "worker"
      <4>1. thread'["worker"] = thread["worker"]
        BY <3>2 DEF Types, Threads
      <4>2. thread["worker"].conn \in Conns /\ transport[thread["worker"].conn] = "none"
        BY <4>1 DEF Types, Threading, Fits, Working, Threads, Records
      <4>. QED
        BY <4>1, <4>2 DEF Types
    <3>. QED
      BY <3>1, <3>2
  <2>3. (thread["worker"].at = "exited" => ~running /\ cleanup = {})'
    BY DEF Types, Threading, Threads
  <2>. QED
    BY <2>1, <2>2, <2>3 DEF Threading, Fits
<1>4. \A s \in Threads, c \in Conns : Ending(s, c)' <=> Ending(s, c)
  BY DEF Types, Ending
<1>5. \A c \in Conns : transport'[c] = "tellEnd" <=> transport[c] = "tellEnd"
  BY DEF Types
<1>6. OneTeller'
  BY <1>4, <1>5 DEF OneTeller
<1>7. EndOwed'
  BY <1>4, <1>5 DEF EndOwed, Types
<1>. QED
  BY <1>1, <1>2, <1>3, <1>6, <1>7

LEMMA Retires ==
    ASSUME PInv, NEW t \in Threads, NEW r \in Records, Fits(t, r),
           thread[t].at \notin Reporting, r.at = "tellEnd", Retired(r.conn),
           thread' = [thread EXCEPT ![t] = r],
           UNCHANGED <<created, transport, told, running>>
    PROVE  PInv'
<1>. USE BoundsAssumption DEF PInv, Conns, None, Retired
<1>c. r.conn \in Conns /\ r.conn \notin removed
  BY DEF Records, Fits, Working, StayOut
<1>0. thread' \in [Threads -> Records]
  BY DEF Types
<1>r. PICK d \in Conns : d = r.conn
  BY <1>c
<1>s. cleanup' = cleanup \cup {d} /\ removed' = removed \cup {d} /\ map' = 0 /\ created' = created
  BY <1>r
<1>a. cleanup' \subseteq Conns /\ removed' \subseteq Conns
  BY <1>s DEF Types
<1>b. created' \in 0..MaxConns /\ map' \in 0..created'
  BY <1>s DEF Types
<1>1. Types'
  BY <1>0, <1>a, <1>b DEF Types
<1>2. StayOut'
  BY <1>c DEF StayOut, Types
<1>3. Threading'
  <2>1. \A s \in Threads : Fits(s, thread'[s])
    BY DEF Types, Threading
  <2>2. (thread["worker"].at = "launch" => transport[thread["worker"].conn] = "none")'
    BY DEF Types, Threading, Threads
  <2>3. (thread["worker"].at = "exited" => ~running /\ cleanup = {})'
    BY DEF Types, Threading, Threads
  <2>. QED
    BY <2>1, <2>2, <2>3 DEF Threading, Fits
<1>4. \A s \in Threads, c \in Conns :
        Ending(s, c)' <=> Ending(s, c) \/ (s = t /\ c = r.conn)
  BY DEF Types, Ending, Reporting
<1>6. OneTeller'
  BY <1>4, <1>c DEF OneTeller
<1>7. EndOwed'
  BY <1>4, <1>c DEF EndOwed, Types
<1>. QED
  BY <1>1, <1>2, <1>3, <1>6, <1>7

LEMMA Tells ==
    ASSUME PInv, NEW t \in Threads, NEW r \in Records, Fits(t, r),
           thread[t].at \in Reporting, r.at \notin Reporting \cup {"launch", "exited"},
           TellEnd(thread[t].conn), Ends,
           thread' = [thread EXCEPT ![t] = r],
           UNCHANGED <<map, created, removed, cleanup, running>>
    PROVE  PInv'
<1>. USE BoundsAssumption DEF PInv, Conns, None, Ends
<1>. PICK d : d = thread[t].conn
  OBVIOUS
<1>c. d \in Conns /\ Ending(t, d) /\ d \in removed /\ told[d].ends = 0 /\ transport[d] # "tellEnd"
  BY DEF Types, Records, Threading, Fits, Working, Reporting, OneTeller, Ending
<1>n. PICK n \in Nat : n = told[d].ends + 1
  BY <1>c
<1>d. told' = [told EXCEPT ![d].ends = n]
  BY <1>n DEF TellEnd
<1>e. n = 1
  BY <1>c, <1>n
<1>0. thread' \in [Threads -> Records] /\ told' \in [Conns -> [ends : Nat, late : BOOLEAN]]
  BY SMTT(30), <1>c, <1>d DEF Types
<1>1. Types'
  BY <1>0 DEF Types, Callbacks
<1>2. StayOut'
  BY DEF StayOut
<1>3. Threading'
  <2>1. \A s \in Threads : Fits(s, thread'[s])
    BY DEF Types, Threading
  <2>2. (thread["worker"].at = "launch" => transport[thread["worker"].conn] = "none")'
    <3>. SUFFICES ASSUME thread'["worker"].at = "launch"
                  PROVE  transport'[thread'["worker"].conn] = "none"
      OBVIOUS
    <3>1. thread'["worker"] = thread["worker"]
      BY DEF Types, Threads
    <3>2. thread["worker"].conn \in Conns /\ transport[thread["worker"].conn] = "none"
      BY <3>1 DEF Types, Threading, Fits, Working, Threads, Records
    <3>. QED
      BY <3>1, <3>2 DEF Types
  <2>3. (thread["worker"].at = "exited" => ~running /\ cleanup = {})'
    BY DEF Types, Threading, Threads
  <2>. QED
    BY <2>1, <2>2, <2>3 DEF Threading, Fits
<1>4. \A s \in Threads, c \in Conns : Ending(s, c)' <=> Ending(s, c) /\ c # d
  BY <1>c DEF Types, Ending, OneTeller
<1>5. \A c \in Conns : transport'[c] = "tellEnd" <=> transport[c] = "tellEnd"
  BY DEF Types
<1>t. \A c \in Conns : told'[c].ends = IF c = d THEN 1 ELSE told[c].ends
  BY <1>c, <1>d, <1>e DEF Types
<1>6. OneTeller'
  BY <1>4, <1>5, <1>t, <1>c DEF OneTeller
<1>7. EndOwed'
  BY <1>4, <1>5, <1>t, <1>c DEF EndOwed, Types
<1>. QED
  BY <1>1, <1>2, <1>3, <1>6, <1>7

-----------------------------------------------------------------------------
(***************************************************************************)
(* The steps.                                                              *)
(***************************************************************************)
LEMMA RemoveCurrentInv ==
    ASSUME PInv, NEW t \in Threads, NEW next \in {"idle", "stop"}, RemoveCurrent(t, next), 
           thread[t].at \notin Reporting, t = "worker" => next = "idle"
    PROVE  PInv'
<1>. USE BoundsAssumption DEF PInv, Conns, None, Threads, RemoveCurrent
<1>1. Types'
  BY DEF Types, Records, Threading, Fits, Working, Places, Plans, Callbacks, At, Idle
<1>2. StayOut'
  BY DEF Types, StayOut
<1>3. Threading'
  BY DEF Types, Records, Threading, Fits, Working, Callbacks, Plans, At, Idle
<1>4. OneTeller'
  BY DEF Types, Records, StayOut, Threading, Fits, Working, Reporting, OneTeller, Ending,
     Callbacks, At, Idle
<1>5. EndOwed'
  <2>1. \A s \in Threads \ {t}, e \in Conns : Ending(s, e)' <=> Ending(s, e)
    BY DEF Types, Ending
  <2>2. \A e \in Conns : ~Ending(t, e)
    BY DEF Types, Ending, Reporting
  <2>. PICK d : d = map
    OBVIOUS
  <2>3. d # None => Ending(t, d)'
    BY DEF Types, Ending, Reporting, At
  <2>4. \A e \in removed' : e \in removed \/ (e = d /\ d # None)
    OBVIOUS
  <2>. QED
    BY <2>1, <2>2, <2>3, <2>4 DEF Types, EndOwed
<1>. QED
  BY <1>1, <1>2, <1>3, <1>4, <1>5

LEMMA ClearTellInv ==
    ASSUME PInv, NEW t \in Threads, ClearTell(t)
    PROVE  PInv'
<1>1. PICK r : r = [thread[t] EXCEPT !.at = "release"]
  OBVIOUS
<1>2. /\ r \in Records /\ Fits(t, r)
      /\ thread[t].at \in Reporting /\ r.at \notin Reporting \cup {"launch", "exited"}
  BY SMTT(30), <1>1, BoundsAssumption DEF PInv, Conns, None, Types, Records, Places, Plans, Threading,
     Fits, Working, Reporting, Threads, At, Idle, ClearTell
<1>. QED
  BY <1>1, <1>2, Tells DEF ClearTell, Goes, Ends

LEMMA ClearReleaseInv ==
    ASSUME PInv, NEW t \in Threads, ClearRelease(t)
    PROVE  PInv'
<1>1. PICK r : r = At(thread[t].then, None, "idle")
  OBVIOUS
<1>2. /\ r \in Records /\ Fits(t, r)
      /\ thread[t].at \notin Reporting /\ r.at \notin Reporting \cup {"launch", "exited"}
  BY <1>1, BoundsAssumption DEF PInv, Conns, None, Types, Records, Places, Plans, Threading,
     Fits, Working, Reporting, Threads, At, Idle, ClearRelease
<1>3. thread' = [thread EXCEPT ![t] = r]
  BY <1>1 DEF ClearRelease
<1>4. Ends
  BY BoundsAssumption DEF PInv, Conns, None, Types, Records, Threading, Fits, Working, Threads,
     Ends,
         ClearRelease, Release, Releasable
<1>. QED
  BY <1>2, <1>3, <1>4, Moves DEF Threads, ClearRelease

LEMMA RetireTellInv ==
    ASSUME PInv, NEW t \in Threads, RetireTell(t)
    PROVE  PInv'
<1>1. PICK r : r = IF thread[t].then = "idle" THEN Idle
                   ELSE [thread[t] EXCEPT !.at = thread[t].then]
  OBVIOUS
<1>0. Fits(t, thread[t]) /\ thread[t] \in Records /\ thread[t].conn \in Conns
  BY BoundsAssumption DEF PInv, Conns, None, Types, Records, Threading, Fits, Working, RetireTell
<1>2. /\ r \in Records /\ Fits(t, r)
      /\ thread[t].at \in Reporting /\ r.at \notin Reporting \cup {"launch", "exited"}
  BY <1>0, <1>1, BoundsAssumption DEF Conns, None, Records, Places, Plans, Fits, Working,
     Reporting, Idle, At, RetireTell
<1>3. thread' = [thread EXCEPT ![t] = r] /\ Ends
  <2>1. CASE thread[t].then = "idle"
    BY <1>0, <1>1, <2>1, DropsEnds DEF RetireTell, Rests
  <2>2. CASE thread[t].then # "idle"
    BY <1>1, <2>2 DEF RetireTell, Goes, Ends
  <2>. QED
    BY <2>1, <2>2
<1>. QED
  BY <1>2, <1>3, Tells DEF RetireTell

LEMMA SessionTicketInv ==
    ASSUME PInv, SessionTicket
    PROVE  PInv'
<1>. USE BoundsAssumption DEF PInv, Conns, None, Threads, SessionTicket
<1>1. Types'
  BY DEF Types, Records, Threading, Fits, Working, Places, Plans, Callbacks, At, Idle
<1>2. StayOut'
  BY DEF Types, StayOut
<1>3. Threading'
  BY DEF Types, Records, Threading, Fits, Working, Callbacks, Plans, At, Idle
<1>4. OneTeller'
  BY DEF Types, Records, StayOut, Threading, Fits, Working, Reporting, OneTeller, Ending,
     Callbacks, At, Idle
<1>5. EndOwed'
  BY DEF Types, Records, Threading, Fits, Working, Reporting, OneTeller, EndOwed, Ending,
     Callbacks, At, Idle
<1>. QED
  BY <1>1, <1>2, <1>3, <1>4, <1>5

LEMMA LoginAcceptedInv ==
    ASSUME PInv, LoginAccepted
    PROVE  PInv'
<1>. USE BoundsAssumption DEF PInv, Conns, None, Threads, LoginAccepted
<1>1. Types'
  BY DEF Types, Records, Threading, Fits, Working, Places, Plans, Callbacks, At, Idle
<1>2. StayOut'
  BY DEF Types, StayOut
<1>3. Threading'
  BY DEF Types, Records, Threading, Fits, Working, Callbacks, Plans, At, Idle
<1>4. OneTeller'
  BY DEF Types, Records, StayOut, Threading, Fits, Working, Reporting, OneTeller, Ending,
     Callbacks, At, Idle
<1>5. EndOwed'
  BY DEF Types, Records, Threading, Fits, Working, Reporting, OneTeller, EndOwed, Ending,
     Callbacks, At, Idle
<1>. QED
  BY <1>1, <1>2, <1>3, <1>4, <1>5

LEMMA ReplaceInv ==
    ASSUME PInv, Replace
    PROVE  PInv'
<1>. USE BoundsAssumption DEF PInv, Conns, None, Threads, Replace, SignalIdle
<1>1. Types'
  BY DEF Types, Records, Threading, Fits, Working, Places, Plans, Callbacks, At, Idle
<1>2. StayOut'
  BY DEF Types, StayOut
<1>3. Threading'
  BY DEF Types, Records, Threading, Fits, Working, Callbacks, Plans, At, Idle
<1>4. OneTeller'
  BY DEF Types, Records, StayOut, Threading, Fits, Working, Reporting, OneTeller, Ending,
     Callbacks, At, Idle
<1>5. EndOwed'
  BY DEF Types, Records, Threading, Fits, Working, Reporting, OneTeller, EndOwed, Ending,
     Callbacks, At, Idle
<1>. QED
  BY <1>1, <1>2, <1>3, <1>4, <1>5

LEMMA ReleaseReplacedInv ==
    ASSUME PInv, ReleaseReplaced
    PROVE  PInv'
<1>1. PICK r : r = At("init", thread["signal"].conn, "idle")
  OBVIOUS
<1>2. /\ r \in Records /\ Fits("signal", r)
      /\ thread["signal"].at \notin Reporting /\ r.at \notin Reporting \cup {"launch", "exited"}
  BY <1>1, BoundsAssumption DEF PInv, Conns, None, Types, Records, Places, Plans, Threading,
     Fits, Working, Reporting, Threads, At, Idle, ReleaseReplaced
<1>3. thread' = [thread EXCEPT !["signal"] = r]
  BY <1>1 DEF ReleaseReplaced
<1>4. Ends
  BY BoundsAssumption DEF PInv, Conns, None, Types, Records, Threading, Fits, Working, Threads,
     Ends,
         ReleaseReplaced, Release, Releasable
<1>. QED
  BY <1>2, <1>3, <1>4, Moves DEF Threads, ReleaseReplaced

LEMMA InitConnectionInv ==
    ASSUME PInv, NEW ok \in BOOLEAN, InitConnection(ok)
    PROVE  PInv'
<1>1. CASE ~ok /\ Retirable(thread["signal"].conn)
  <2>1. PICK r : r = [thread["signal"] EXCEPT !.at = "tellEnd"]
    OBVIOUS
  <2>2. r \in Records /\ Fits("signal", r) /\ thread["signal"].at \notin Reporting /\ r.at = "tellEnd"
    BY <2>1, BoundsAssumption DEF PInv, Conns, None, Types, Records, Places, Plans, Threading,
       Fits, Working, Reporting, Threads, At, Idle, InitConnection
  <2>3. r.conn = thread["signal"].conn
    BY <2>1, BoundsAssumption DEF PInv, Conns, None, Types, Records, Places, Plans, Threading,
       Fits, Working, Reporting, Threads, At, Idle, InitConnection
  <2>4. Retired(r.conn) /\ thread' = [thread EXCEPT !["signal"] = r]
    BY <1>1, <2>1, <2>3, RetireCases DEF InitConnection, Goes
  <2>. QED
    BY <1>1, <2>2, <2>4, Retires DEF Threads, InitConnection
<1>2. CASE ~ok /\ ~Retirable(thread["signal"].conn)
  <2>1. PICK r : r = Idle
    OBVIOUS
  <2>2. /\ r \in Records /\ Fits("signal", r)
        /\ thread["signal"].at \notin Reporting /\ r.at \notin Reporting \cup {"launch", "exited"}
    BY <2>1, BoundsAssumption DEF PInv, Conns, None, Types, Records, Places, Plans, Threading,
       Fits, Working, Reporting, Threads, At, Idle, InitConnection
  <2>3. thread["signal"].conn \in Conns
    BY BoundsAssumption DEF PInv, Conns, None, Types, Records, Places, Plans, Threading, Fits,
       Working, Reporting, Threads, At, Idle, InitConnection
  <2>4. Ends
    BY <1>2, <2>3, DropsEnds DEF Threads, InitConnection
  <2>5. thread' = [thread EXCEPT !["signal"] = r] /\ UNCHANGED <<map, removed, cleanup>>
    BY <1>2, <2>1, RetireCases DEF InitConnection, Rests
  <2>. QED
    BY <1>2, <2>2, <2>4, <2>5, Moves DEF Threads, InitConnection
<1>3. CASE ok
  <2>1. PICK r : r = At("push", None, "idle")
    OBVIOUS
  <2>2. /\ r \in Records /\ Fits("signal", r)
        /\ thread["signal"].at \notin Reporting /\ r.at \notin Reporting \cup {"launch", "exited"}
    BY <2>1, BoundsAssumption DEF PInv, Conns, None, Types, Records, Places, Plans, Threading,
       Fits, Working, Reporting, Threads, At, Idle, InitConnection
  <2>3. thread["signal"].conn \in Conns
    BY BoundsAssumption DEF PInv, Conns, None, Types, Records, Places, Plans, Threading, Fits,
       Working, Reporting, Threads, At, Idle, InitConnection
  <2>4. Ends
    BY <1>3, <2>3, DropsEnds DEF Threads, InitConnection
  <2>5. thread' = [thread EXCEPT !["signal"] = r] /\ UNCHANGED <<map, removed, cleanup>>
    BY <1>3, <2>1, RetireCases DEF InitConnection, sessions
  <2>. QED
    BY <1>3, <2>2, <2>4, <2>5, Moves DEF Threads, InitConnection
<1>. QED
  BY <1>1, <1>2, <1>3

LEMMA PushStartInv ==
    ASSUME PInv, NEW offer \in BOOLEAN, PushStart(offer)
    PROVE  PInv'
<1>1. PICK r : r = IF offer THEN [thread["signal"] EXCEPT !.at = "tell"] ELSE Idle
  OBVIOUS
<1>2. /\ r \in Records /\ Fits("signal", r)
      /\ thread["signal"].at \notin Reporting /\ r.at \notin Reporting \cup {"launch", "exited"}
  <2>1. CASE offer
    BY <1>1, <2>1, BoundsAssumption DEF PInv, Conns, None, Types, Records, Places, Plans,
       Threading, Fits, Working, Reporting, Threads, PushStart
  <2>2. CASE ~offer
    BY <1>1, <2>2, BoundsAssumption DEF PInv, Conns, None, Types, Records, Places, Plans,
       Threading, Fits, Working, Reporting, Threads, At, Idle, PushStart
  <2>. QED
    BY <2>1, <2>2
<1>3. thread' = [thread EXCEPT !["signal"] = r]
  BY <1>1 DEF PushStart, Goes, Rests
<1>4. Ends
  BY DEF Ends, PushStart
<1>. QED
  BY <1>2, <1>3, <1>4, Moves DEF Threads, PushStart, Goes, Rests

LEMMA SignalTellInv ==
    ASSUME PInv, SignalTell
    PROVE  PInv'
<1>1. PICK r : r = Idle
  OBVIOUS
<1>2. /\ r \in Records /\ Fits("signal", r)
      /\ thread["signal"].at \notin Reporting /\ r.at \notin Reporting \cup {"launch", "exited"}
  BY <1>1, BoundsAssumption DEF PInv, Conns, None, Types, Records, Places, Plans, Threading,
     Fits, Working, Reporting, Threads, At, Idle, SignalTell, Rests
<1>3. thread' = [thread EXCEPT !["signal"] = r]
  BY <1>1 DEF SignalTell, Rests
<1>4. Ends
  BY DEF Ends, SignalTell
<1>. QED
  BY <1>2, <1>3, <1>4, Moves DEF Threads, SignalTell, Rests

LEMMA RemoteLeftInv ==
    ASSUME PInv, RemoteLeft
    PROVE  PInv'
<1>. USE BoundsAssumption DEF PInv, Conns, None, Threads, RemoteLeft
<1>1. Types'
  BY DEF Types, Records, Threading, Fits, Working, Places, Plans, Callbacks, At, Idle
<1>2. StayOut'
  BY DEF Types, StayOut
<1>3. Threading'
  BY DEF Types, Records, Threading, Fits, Working, Callbacks, Plans, At, Idle
<1>4. OneTeller'
  BY DEF Types, Records, StayOut, Threading, Fits, Working, Reporting, OneTeller, Ending,
     Callbacks, At, Idle
<1>5. EndOwed'
  BY DEF Types, Records, Threading, Fits, Working, Reporting, OneTeller, EndOwed, Ending,
     Callbacks, At, Idle
<1>. QED
  BY <1>1, <1>2, <1>3, <1>4, <1>5

LEMMA TakeCleanupInv ==
    ASSUME PInv, TakeCleanup
    PROVE  PInv'
<1>. USE BoundsAssumption DEF PInv, Conns, None, Threads, TakeCleanup, WorkerIdle
<1>1. Types'
  BY DEF Types, Records, Threading, Fits, Working, Places, Plans, Callbacks, At, Idle
<1>2. StayOut'
  BY DEF Types, StayOut
<1>3. Threading'
  BY DEF Types, Records, Threading, Fits, Working, Callbacks, Plans, At, Idle
<1>4. OneTeller'
  BY DEF Types, Records, StayOut, Threading, Fits, Working, Reporting, OneTeller, Ending,
     Callbacks, At, Idle
<1>5. EndOwed'
  <2>1. \A s \in Threads, e \in Conns : Ending(s, e)' <=> Ending(s, e)
    BY DEF Types, Ending, Reporting, At
  <2>. QED
    BY <2>1 DEF Types, EndOwed
<1>. QED
  BY <1>1, <1>2, <1>3, <1>4, <1>5

LEMMA WorkerExitInv ==
    ASSUME PInv, WorkerExit
    PROVE  PInv'
<1>. USE BoundsAssumption DEF PInv, Conns, None, Threads, WorkerExit, WorkerIdle, Goes
<1>1. Types'
  BY SMTT(30) DEF Types, Records, Threading, Fits, Working, Places, Plans, Callbacks, At, Idle
<1>2. StayOut'
  BY DEF Types, StayOut
<1>3. Threading'
  BY DEF Types, Records, Threading, Fits, Working, Callbacks, Plans, At, Idle
<1>4. OneTeller'
  BY DEF Types, Records, StayOut, Threading, Fits, Working, Reporting, OneTeller, Ending,
     Callbacks, At, Idle
<1>5. EndOwed'
  BY DEF Types, Records, Threading, Fits, Working, Reporting, OneTeller, EndOwed, Ending,
     Callbacks, At, Idle
<1>. QED
  BY <1>1, <1>2, <1>3, <1>4, <1>5

LEMMA TakeMsgInv ==
    ASSUME PInv, TakeMsg
    PROVE  PInv'
<1>1. PICK r : r = [thread["worker"] EXCEPT !.at = IF Head(msgs) = "Leave" THEN "leave" ELSE "lookup"]
  OBVIOUS
<1>2. /\ r \in Records /\ Fits("worker", r)
      /\ thread["worker"].at \notin Reporting /\ r.at \notin Reporting \cup {"launch", "exited"}
  BY <1>1, BoundsAssumption DEF PInv, Conns, None, Types, Records, Places, Plans, Threading,
     Fits, Working, Reporting, Threads, At, Idle, TakeMsg, WorkerIdle, Goes
<1>3. thread' = [thread EXCEPT !["worker"] = r]
  BY <1>1 DEF TakeMsg, WorkerIdle, Goes
<1>4. Ends
  BY DEF Ends, TakeMsg
<1>. QED
  BY <1>2, <1>3, <1>4, Moves DEF Threads, TakeMsg, WorkerIdle, Goes

LEMMA WorkerRestsInv ==
    ASSUME PInv, thread["worker"].at = "leave", Rests("worker"),
           UNCHANGED <<map, created, connected, ticket, confirmed, transport, ice, told, removed,
                       cleanup, msgs, running>>
    PROVE  PInv'
<1>1. PICK r : r = Idle
  OBVIOUS
<1>2. /\ r \in Records /\ Fits("worker", r)
      /\ thread["worker"].at \notin Reporting /\ r.at \notin Reporting \cup {"launch", "exited"}
  BY <1>1, BoundsAssumption DEF PInv, Conns, None, Types, Records, Places, Plans, Threading,
     Fits, Working, Reporting, Threads, At, Idle, Rests
<1>3. thread' = [thread EXCEPT !["worker"] = r]
  BY <1>1 DEF Rests
<1>4. Ends
  BY DEF Ends
<1>. QED
  BY <1>2, <1>3, <1>4, Moves DEF Threads, Rests

LEMMA LookupInv ==
    ASSUME PInv, Lookup
    PROVE  PInv'
<1>1. PICK r : r = IF map = None THEN Idle ELSE At("start", map, "idle")
  OBVIOUS
<1>2. /\ r \in Records /\ Fits("worker", r)
      /\ thread["worker"].at \notin Reporting /\ r.at \notin Reporting \cup {"launch", "exited"}
  BY <1>1, BoundsAssumption DEF PInv, Conns, None, Types, Records, Places, Plans, Threading,
     Fits, Working, Reporting, Threads, At, Idle, Lookup
<1>3. thread' = [thread EXCEPT !["worker"] = r]
  BY <1>1 DEF Lookup
<1>4. Ends
  BY DEF Ends, Lookup
<1>. QED
  BY <1>2, <1>3, <1>4, Moves DEF Threads, Lookup

LEMMA CredentialsExpiredInv ==
    ASSUME PInv, CredentialsExpired
    PROVE  PInv'
<1>1. CASE Retirable(thread["worker"].conn)
  <2>1. PICK r : r = [thread["worker"] EXCEPT !.at = "tellEnd", !.then = "drop"]
    OBVIOUS
  <2>2. r \in Records /\ Fits("worker", r) /\ thread["worker"].at \notin Reporting /\ r.at = "tellEnd"
    BY <2>1, BoundsAssumption DEF PInv, Conns, None, Types, Records, Places, Plans, Threading,
       Fits, Working, Reporting, Threads, At, Idle, CredentialsExpired
  <2>3. r.conn = thread["worker"].conn
    BY <2>1, BoundsAssumption DEF PInv, Conns, None, Types, Records, Places, Plans, Threading,
       Fits, Working, Reporting, Threads, At, Idle, CredentialsExpired
  <2>4. Retired(r.conn) /\ thread' = [thread EXCEPT !["worker"] = r]
    BY <1>1, <2>1, <2>3, RetireCases DEF CredentialsExpired, GoesVia
  <2>. QED
    BY <1>1, <2>2, <2>4, Retires DEF Threads, CredentialsExpired
<1>2. CASE ~Retirable(thread["worker"].conn)
  <2>1. PICK r : r = [thread["worker"] EXCEPT !.at = "drop", !.then = "drop"]
    OBVIOUS
  <2>2. /\ r \in Records /\ Fits("worker", r)
        /\ thread["worker"].at \notin Reporting /\ r.at \notin Reporting \cup {"launch", "exited"}
    BY <2>1, BoundsAssumption DEF PInv, Conns, None, Types, Records, Places, Plans, Threading,
       Fits, Working, Reporting, Threads, At, Idle, CredentialsExpired
  <2>3. thread["worker"].conn \in Conns
    BY BoundsAssumption DEF PInv, Conns, None, Types, Records, Places, Plans, Threading, Fits,
       Working, Reporting, Threads, At, Idle, CredentialsExpired
  <2>4. Ends
    BY <1>2 DEF Ends, CredentialsExpired
  <2>5. thread' = [thread EXCEPT !["worker"] = r] /\ UNCHANGED <<map, removed, cleanup>>
    BY <1>2, <2>1, RetireCases DEF CredentialsExpired, GoesVia
  <2>. QED
    BY <1>2, <2>2, <2>4, <2>5, Moves DEF Threads, CredentialsExpired
<1>. QED
  BY <1>1, <1>2

LEMMA StartOverInv ==
    ASSUME PInv, StartOver
    PROVE  PInv'
<1>1. CASE transport[thread["worker"].conn] = "none"
  <2>1. PICK r : r = [thread["worker"] EXCEPT !.at = "launch"]
    OBVIOUS
  <2>2. /\ r \in Records /\ Fits("worker", r) /\ r.conn = thread["worker"].conn
        /\ thread["worker"].at \notin Reporting /\ r.at \notin Reporting \cup {"exited"}
    BY <2>1, BoundsAssumption DEF PInv, Conns, None, Types, Records, Places, Plans, Threading,
       Fits, Working, Reporting, Threads, At, Idle, StartOver
  <2>3. transport' = transport /\ UNCHANGED <<map, created, told, removed, cleanup, running>>
    BY <1>1 DEF StartOver, sessions
  <2>4. thread' = [thread EXCEPT !["worker"] = r]
    BY <1>1, <2>1 DEF StartOver, Goes
  <2>. QED
    BY <1>1, <2>2, <2>3, <2>4, Moves DEF Threads, Ends
<1>2. CASE transport[thread["worker"].conn] # "none" /\ Retirable(thread["worker"].conn)
  <2>1. PICK r : r = [thread["worker"] EXCEPT !.at = "tellEnd", !.then = "join"]
    OBVIOUS
  <2>2. r \in Records /\ Fits("worker", r) /\ thread["worker"].at \notin Reporting /\ r.at = "tellEnd"
    BY <2>1, BoundsAssumption DEF PInv, Conns, None, Types, Records, Places, Plans, Threading,
       Fits, Working, Reporting, Threads, At, Idle, StartOver
  <2>3. r.conn = thread["worker"].conn
    BY <2>1, BoundsAssumption DEF PInv, Conns, None, Types, Records, Places, Plans, Threading,
       Fits, Working, Reporting, Threads, At, Idle, StartOver
  <2>4. Retired(r.conn) /\ thread' = [thread EXCEPT !["worker"] = r]
    BY <1>2, <2>1, <2>3, RetireCases DEF StartOver, GoesVia
  <2>. QED
    BY <1>2, <2>2, <2>4, Retires DEF Threads, StartOver
<1>3. CASE transport[thread["worker"].conn] # "none" /\ ~Retirable(thread["worker"].conn)
  <2>1. PICK r : r = [thread["worker"] EXCEPT !.at = "join", !.then = "join"]
    OBVIOUS
  <2>2. /\ r \in Records /\ Fits("worker", r)
        /\ thread["worker"].at \notin Reporting /\ r.at \notin Reporting \cup {"launch", "exited"}
    BY <2>1, BoundsAssumption DEF PInv, Conns, None, Types, Records, Places, Plans, Threading,
       Fits, Working, Reporting, Threads, At, Idle, StartOver
  <2>3. thread["worker"].conn \in Conns
    BY BoundsAssumption DEF PInv, Conns, None, Types, Records, Places, Plans, Threading, Fits,
       Working, Reporting, Threads, At, Idle, StartOver
  <2>4. Ends
    BY <1>3 DEF Ends, StartOver
  <2>5. thread' = [thread EXCEPT !["worker"] = r] /\ UNCHANGED <<map, removed, cleanup>>
    BY <1>3, <2>1, RetireCases DEF StartOver, GoesVia
  <2>. QED
    BY <1>3, <2>2, <2>4, <2>5, Moves DEF Threads, StartOver
<1>. QED
  BY <1>1, <1>2, <1>3

LEMMA JoinOldInv ==
    ASSUME PInv, JoinOld
    PROVE  PInv'
<1>1. PICK r : r = [thread["worker"] EXCEPT !.at = "launch"]
  OBVIOUS
<1>0. Fits("worker", thread["worker"]) /\ thread["worker"] \in Records /\ thread["worker"].conn \in Conns
  BY BoundsAssumption DEF PInv, Conns, None, Types, Records, Threading, Fits, Working, Threads,
     JoinOld
<1>2. /\ r \in Records /\ Fits("worker", r) /\ r.conn = thread["worker"].conn /\ r.conn \in Conns
      /\ thread["worker"].at \notin Reporting /\ r.at \notin Reporting \cup {"exited"}
  BY <1>0, <1>1 DEF Records, Places, Plans, Fits, Working, Reporting, JoinOld
<1>3. transport[r.conn] \in {"none", "idle"} /\ transport' = [transport EXCEPT ![r.conn] = "none"]
  BY <1>2 DEF JoinOld, Release, Releasable
<1>4. Ends /\ transport'[r.conn] = "none"
  BY <1>2, <1>3 DEF Ends, PInv, Types
<1>. QED
  BY <1>1, <1>2, <1>4, Moves DEF Threads, JoinOld, Goes

LEMMA LaunchInv ==
    ASSUME PInv, NEW ok \in BOOLEAN, Launch(ok)
    PROVE  PInv'
<1>1. CASE ok
  <2>. USE BoundsAssumption DEF PInv, Conns, None
  <2>1. PICK r : r = [thread["worker"] EXCEPT !.at = "drop"]
    OBVIOUS
  <2>2. /\ r \in Records /\ Fits("worker", r) /\ r.at = "drop"
        /\ thread["worker"].at \notin Reporting
    BY <2>1 DEF Types, Records, Places, Plans, Threading, Fits, Working, Reporting, Threads,
       At, Idle, Launch
  <2>3. PICK c \in Conns : c = thread["worker"].conn /\ transport[c] = "none"
    BY DEF Types, Records, Places, Plans, Threading, Fits, Working, Reporting, Threads, At,
       Idle, Launch
  <2>4. /\ thread' = [thread EXCEPT !["worker"] = r]
        /\ transport' = [transport EXCEPT ![c] = "idle"]
        /\ UNCHANGED <<map, created, told, removed, cleanup, running>>
    BY <1>1, <2>1, <2>3 DEF Launch, Goes, sessions
  <2>5. Types'
    <3>1. thread' \in [Threads -> Records] /\ transport' \in [Conns -> {"none", "idle", "selfJoin"} \cup Callbacks]
      BY <2>2, <2>3, <2>4 DEF Types, Threads
    <3>. QED
      BY <2>4, <3>1 DEF Types
  <2>6. StayOut'
    BY <2>4 DEF StayOut
  <2>7. Threading'
    BY <2>2, <2>4 DEF Types, Threading, Fits, Threads
  <2>8. \A s \in Threads, e \in Conns : Ending(s, e)' <=> Ending(s, e)
    BY <2>2, <2>4 DEF Types, Ending, Threads, Reporting
  <2>9. \A e \in Conns : transport'[e] = "tellEnd" <=> transport[e] = "tellEnd"
    BY <2>3, <2>4 DEF Types
  <2>10. OneTeller'
    BY <2>4, <2>8, <2>9 DEF OneTeller
  <2>11. EndOwed'
    BY <2>4, <2>8, <2>9 DEF EndOwed, Types
  <2>. QED
    BY <2>5, <2>6, <2>7, <2>10, <2>11
<1>2. CASE ~ok /\ Retirable(thread["worker"].conn)
  <2>1. PICK r : r = [thread["worker"] EXCEPT !.at = "tellEnd", !.then = "drop"]
    OBVIOUS
  <2>2. r \in Records /\ Fits("worker", r) /\ thread["worker"].at \notin Reporting /\ r.at = "tellEnd"
    BY <2>1, BoundsAssumption DEF PInv, Conns, None, Types, Records, Places, Plans, Threading,
       Fits, Working, Reporting, Threads, At, Idle, Launch
  <2>3. r.conn = thread["worker"].conn
    BY <2>1, BoundsAssumption DEF PInv, Conns, None, Types, Records, Places, Plans, Threading,
       Fits, Working, Reporting, Threads, At, Idle, Launch
  <2>4. Retired(r.conn) /\ thread' = [thread EXCEPT !["worker"] = r]
    BY <1>2, <2>1, <2>3, RetireCases DEF Launch, GoesVia
  <2>. QED
    BY <1>2, <2>2, <2>4, Retires DEF Threads, Launch
<1>3. CASE ~ok /\ ~Retirable(thread["worker"].conn)
  <2>1. PICK r : r = [thread["worker"] EXCEPT !.at = "drop", !.then = "drop"]
    OBVIOUS
  <2>2. /\ r \in Records /\ Fits("worker", r)
        /\ thread["worker"].at \notin Reporting /\ r.at \notin Reporting \cup {"launch", "exited"}
    BY <2>1, BoundsAssumption DEF PInv, Conns, None, Types, Records, Places, Plans, Threading,
       Fits, Working, Reporting, Threads, At, Idle, Launch
  <2>3. thread["worker"].conn \in Conns
    BY BoundsAssumption DEF PInv, Conns, None, Types, Records, Places, Plans, Threading, Fits,
       Working, Reporting, Threads, At, Idle, Launch
  <2>4. Ends
    BY <1>3 DEF Ends, Launch
  <2>5. thread' = [thread EXCEPT !["worker"] = r] /\ UNCHANGED <<map, removed, cleanup>>
    BY <1>3, <2>1, RetireCases DEF Launch, GoesVia
  <2>. QED
    BY <1>3, <2>2, <2>4, <2>5, Moves DEF Threads, Launch
<1>. QED
  BY <1>1, <1>2, <1>3

LEMMA DropInv ==
    ASSUME PInv, Drop
    PROVE  PInv'
<1>1. PICK r : r = Idle
  OBVIOUS
<1>2. /\ r \in Records /\ Fits("worker", r)
      /\ thread["worker"].at \notin Reporting /\ r.at \notin Reporting \cup {"launch", "exited"}
  BY <1>1, BoundsAssumption DEF PInv, Conns, None, Types, Records, Places, Plans, Threading,
     Fits, Working, Reporting, Threads, At, Idle, Drop, Rests
<1>3. thread' = [thread EXCEPT !["worker"] = r]
  BY <1>1 DEF Drop, Rests
<1>4. Ends
  <2>1. thread["worker"].conn \in Conns
    BY BoundsAssumption DEF PInv, Conns, None, Types, Records, Threading, Fits, Working,
       Threads, Drop
  <2>. QED
    BY <2>1, DropsEnds DEF Threads, Drop
<1>. QED
  BY <1>2, <1>3, <1>4, Moves DEF Threads, Drop, Rests

LEMMA ProgressInv ==
    ASSUME PInv, NEW c \in Conns, Progress(c)
    PROVE  PInv'
<1>. USE BoundsAssumption DEF PInv, Conns, None, Threads, Progress, Steps
<1>1. Types'
  BY DEF Types, Records, Threading, Fits, Working, Places, Plans, Callbacks, At, Idle
<1>2. StayOut'
  BY DEF Types, StayOut
<1>3. Threading'
  BY DEF Types, Records, Threading, Fits, Working, Callbacks, Plans, At, Idle
<1>4. OneTeller'
  BY DEF Types, Records, StayOut, Threading, Fits, Working, Reporting, OneTeller, Ending,
     Callbacks, At, Idle
<1>5. EndOwed'
  BY DEF Types, Records, Threading, Fits, Working, Reporting, OneTeller, EndOwed, Ending,
     Callbacks, At, Idle
<1>. QED
  BY <1>1, <1>2, <1>3, <1>4, <1>5

LEMMA IsCurrentInv ==
    ASSUME PInv, NEW c \in Conns, IsCurrent(c)
    PROVE  PInv'
<1>. USE BoundsAssumption DEF PInv, Conns, None, Threads, IsCurrent, Steps, Returns
<1>1. Types'
  BY DEF Types, Records, Threading, Fits, Working, Places, Plans, Callbacks, At, Idle
<1>2. StayOut'
  BY DEF Types, StayOut
<1>3. Threading'
  BY DEF Types, Records, Threading, Fits, Working, Callbacks, Plans, At, Idle
<1>4. OneTeller'
  BY DEF Types, Records, StayOut, Threading, Fits, Working, Reporting, OneTeller, Ending,
     Callbacks, At, Idle
<1>5. EndOwed'
  BY DEF Types, Records, Threading, Fits, Working, Reporting, OneTeller, EndOwed, Ending,
     Callbacks, At, Idle
<1>. QED
  BY <1>1, <1>2, <1>3, <1>4, <1>5

LEMMA InsertConnectedInv ==
    ASSUME PInv, NEW c \in Conns, InsertConnected(c)
    PROVE  PInv'
<1>. USE BoundsAssumption DEF PInv, Conns, None, Threads, InsertConnected, Steps
<1>1. Types'
  BY DEF Types, Records, Threading, Fits, Working, Places, Plans, Callbacks, At, Idle
<1>2. StayOut'
  BY DEF Types, StayOut
<1>3. Threading'
  BY DEF Types, Records, Threading, Fits, Working, Callbacks, Plans, At, Idle
<1>4. OneTeller'
  BY DEF Types, Records, StayOut, Threading, Fits, Working, Reporting, OneTeller, Ending,
     Callbacks, At, Idle
<1>5. EndOwed'
  BY DEF Types, Records, Threading, Fits, Working, Reporting, OneTeller, EndOwed, Ending,
     Callbacks, At, Idle
<1>. QED
  BY <1>1, <1>2, <1>3, <1>4, <1>5

LEMMA ReportConnectedInv ==
    ASSUME PInv, NEW c \in Conns, ReportConnected(c)
    PROVE  PInv'
<1>. USE BoundsAssumption DEF PInv, Conns, None, Threads, ReportConnected, Steps
<1>1. Types'
  BY DEF Types, Records, Threading, Fits, Working, Places, Plans, Callbacks, At, Idle
<1>2. StayOut'
  BY DEF Types, StayOut
<1>3. Threading'
  BY DEF Types, Records, Threading, Fits, Working, Callbacks, Plans, At, Idle
<1>4. OneTeller'
  BY DEF Types, Records, StayOut, Threading, Fits, Working, Reporting, OneTeller, Ending,
     Callbacks, At, Idle
<1>5. EndOwed'
  BY DEF Types, Records, Threading, Fits, Working, Reporting, OneTeller, EndOwed, Ending,
     Callbacks, At, Idle
<1>. QED
  BY <1>1, <1>2, <1>3, <1>4, <1>5

LEMMA CallbackTellInv ==
    ASSUME PInv, NEW c \in Conns, CallbackTell(c)
    PROVE  PInv'
<1>. USE BoundsAssumption DEF PInv, Conns, None, Threads, CallbackTell, Steps, Returns, TellLive
<1>1. Types'
  BY ZenonT(40) DEF Types, Records, Threading, Fits, Working, Places, Plans, Callbacks, At, Idle
<1>2. StayOut'
  BY DEF Types, StayOut
<1>3. Threading'
  BY DEF Types, Records, Threading, Fits, Working, Callbacks, Plans, At, Idle
<1>4. OneTeller'
  BY DEF Types, Records, StayOut, Threading, Fits, Working, Reporting, OneTeller, Ending,
     Callbacks, At, Idle
<1>5. EndOwed'
  BY DEF Types, Records, Threading, Fits, Working, Reporting, OneTeller, EndOwed, Ending,
     Callbacks, At, Idle
<1>. QED
  BY <1>1, <1>2, <1>3, <1>4, <1>5

LEMMA TerminalInv ==
    ASSUME PInv, NEW c \in Conns, Terminal(c)
    PROVE  PInv'
<1>. USE BoundsAssumption DEF PInv, Conns, None, Threads, Terminal, Steps
<1>1. Types'
  BY DEF Types, Records, Threading, Fits, Working, Places, Plans, Callbacks, At, Idle
<1>2. StayOut'
  BY DEF Types, StayOut
<1>3. Threading'
  BY DEF Types, Records, Threading, Fits, Working, Callbacks, Plans, At, Idle
<1>4. OneTeller'
  BY DEF Types, Records, StayOut, Threading, Fits, Working, Reporting, OneTeller, Ending,
     Callbacks, At, Idle
<1>5. EndOwed'
  BY DEF Types, Records, Threading, Fits, Working, Reporting, OneTeller, EndOwed, Ending,
     Callbacks, At, Idle
<1>. QED
  BY <1>1, <1>2, <1>3, <1>4, <1>5

LEMMA CallbackRetireInv ==
    ASSUME PInv, NEW c \in Conns, CallbackRetire(c)
    PROVE  PInv'
<1>. USE BoundsAssumption DEF PInv, Conns, None, CallbackRetire
<1>1. CASE Retirable(c)
  <2>1. Retired(c) /\ transport' = [transport EXCEPT ![c] = "tellEnd"]
    BY <1>1, RetireCases DEF Steps
  <2>2. c \notin removed
    BY <2>1 DEF Retired, StayOut
  <2>3. Types'
    <3>1. cleanup' \subseteq Conns /\ removed' \subseteq Conns
      BY <2>1 DEF Retired, Types
    <3>2. created' \in 0..MaxConns /\ map' \in 0..created'
      BY <2>1 DEF Retired, Types
    <3>3. transport' \in [Conns -> {"none", "idle", "selfJoin"} \cup Callbacks]
      BY <2>1 DEF Types, Callbacks
    <3>. QED
      BY <3>1, <3>2, <3>3 DEF Types
  <2>4. StayOut'
    BY <2>1, <2>2 DEF Retired, StayOut, Types
  <2>5. Threading'
    <3>1. (thread["worker"].at = "launch" => transport[thread["worker"].conn] = "none")'
      BY <2>1 DEF Types, Threading, Fits, Working, Threads, Records
    <3>2. (thread["worker"].at = "exited" => ~running /\ cleanup = {})'
      BY <2>1 DEF Retired, Threading
    <3>. QED
      BY <3>1, <3>2 DEF Threading, Fits
  <2>6. OneTeller'
    BY <2>1, <2>2 DEF Retired, OneTeller, Ending, Types
  <2>7. EndOwed'
    BY <2>1, <2>2 DEF Retired, EndOwed, Ending, Types
  <2>. QED
    BY <2>3, <2>4, <2>5, <2>6, <2>7
<1>2. CASE ~Retirable(c)
  <2>1. UNCHANGED <<map, removed, cleanup>>
    BY <1>2, RetireCases
  <2>2. PICK where \in {"idle", "selfJoin"} : transport' = [transport EXCEPT ![c] = where]
    BY <1>2 DEF Steps, Returns
  <2>3. Types'
    <3>1. transport' \in [Conns -> {"none", "idle", "selfJoin"} \cup Callbacks]
      BY <2>2 DEF Types
    <3>. QED
      BY <2>1, <3>1 DEF Types
  <2>4. StayOut'
    BY <2>1 DEF StayOut
  <2>5. Threading'
    <3>1. (thread["worker"].at = "launch" => transport[thread["worker"].conn] = "none")'
      BY <2>2 DEF Types, Threading, Fits, Working, Threads, Records
    <3>. QED
      BY <2>1, <3>1 DEF Threading, Fits
  <2>6. OneTeller'
    BY <2>1, <2>2 DEF OneTeller, Ending, Types
  <2>7. EndOwed'
    BY <2>1, <2>2 DEF EndOwed, Ending, Types
  <2>. QED
    BY <2>3, <2>4, <2>5, <2>6, <2>7
<1>. QED
  BY <1>1, <1>2

LEMMA CallbackTellEndInv ==
    ASSUME PInv, NEW c \in Conns, CallbackTellEnd(c)
    PROVE  PInv'
<1>. USE BoundsAssumption DEF PInv, Conns, None, Threads, CallbackTellEnd
<1>0. PICK where \in {"idle", "selfJoin"} : transport' = [transport EXCEPT ![c] = where]
  BY DEF Steps, Returns
<1>a. told[c].ends = 0 /\ c \in removed
  BY DEF OneTeller
<1>b. told' = [told EXCEPT ![c].ends = 1]
  <2>1. PICK n : n = told[c].ends + 1
    OBVIOUS
  <2>2. n = 1
    BY <1>a, <2>1
  <2>. QED
    BY <2>1, <2>2 DEF TellEnd
<1>1. Types'
  <2>1. told' \in [Conns -> [ends : Nat, late : BOOLEAN]]
    BY <1>b DEF Types
  <2>2. transport' \in [Conns -> {"none", "idle", "selfJoin"} \cup Callbacks]
    BY <1>0 DEF Types
  <2>. QED
    BY <2>1, <2>2 DEF Types
<1>2. StayOut'
  BY DEF StayOut
<1>3. Threading'
  BY <1>0 DEF Types, Records, Threading, Fits, Working
<1>4. OneTeller'
  BY <1>0, <1>a, <1>b DEF Types, OneTeller, Ending
<1>5. EndOwed'
  BY <1>0, <1>a, <1>b DEF Types, EndOwed, Ending
<1>. QED
  BY <1>1, <1>2, <1>3, <1>4, <1>5

LEMMA DisconnectPeerInv ==
    ASSUME PInv, DisconnectPeer
    PROVE  PInv'
<1>1. PICK r : r = At("retire", map, "idle")
  OBVIOUS
<1>2. /\ r \in Records /\ Fits("app", r)
      /\ thread["app"].at \notin Reporting /\ r.at \notin Reporting \cup {"launch", "exited"}
  BY <1>1, BoundsAssumption DEF PInv, Conns, None, Types, Records, Places, Plans, Threading,
     Fits, Working, Reporting, Threads, At, Idle, DisconnectPeer, AppIdle
<1>3. thread' = [thread EXCEPT !["app"] = r]
  BY <1>1 DEF DisconnectPeer, AppIdle
<1>4. Ends
  BY DEF Ends, DisconnectPeer
<1>. QED
  BY <1>2, <1>3, <1>4, Moves DEF Threads, DisconnectPeer, AppIdle

LEMMA DisconnectRetireInv ==
    ASSUME PInv, DisconnectRetire
    PROVE  PInv'
<1>1. CASE Retirable(thread["app"].conn)
  <2>1. PICK r : r = [thread["app"] EXCEPT !.at = "tellEnd"]
    OBVIOUS
  <2>2. r \in Records /\ Fits("app", r) /\ thread["app"].at \notin Reporting /\ r.at = "tellEnd"
    BY <2>1, BoundsAssumption DEF PInv, Conns, None, Types, Records, Places, Plans, Threading,
       Fits, Working, Reporting, Threads, At, Idle, DisconnectRetire
  <2>3. r.conn = thread["app"].conn
    BY <2>1, BoundsAssumption DEF PInv, Conns, None, Types, Records, Places, Plans, Threading,
       Fits, Working, Reporting, Threads, At, Idle, DisconnectRetire
  <2>4. Retired(r.conn) /\ thread' = [thread EXCEPT !["app"] = r]
    BY <1>1, <2>1, <2>3, RetireCases DEF DisconnectRetire, Goes
  <2>. QED
    BY <1>1, <2>2, <2>4, Retires DEF Threads, DisconnectRetire
<1>2. CASE ~Retirable(thread["app"].conn)
  <2>1. PICK r : r = Idle
    OBVIOUS
  <2>2. /\ r \in Records /\ Fits("app", r)
        /\ thread["app"].at \notin Reporting /\ r.at \notin Reporting \cup {"launch", "exited"}
    BY <2>1, BoundsAssumption DEF PInv, Conns, None, Types, Records, Places, Plans, Threading,
       Fits, Working, Reporting, Threads, At, Idle, DisconnectRetire
  <2>3. thread["app"].conn \in Conns
    BY BoundsAssumption DEF PInv, Conns, None, Types, Records, Places, Plans, Threading, Fits,
       Working, Reporting, Threads, At, Idle, DisconnectRetire
  <2>4. Ends
    BY <1>2, <2>3, DropsEnds DEF Threads, DisconnectRetire
  <2>5. thread' = [thread EXCEPT !["app"] = r] /\ UNCHANGED <<map, removed, cleanup>>
    BY <1>2, <2>1, RetireCases DEF DisconnectRetire, Rests
  <2>. QED
    BY <1>2, <2>2, <2>4, <2>5, Moves DEF Threads, DisconnectRetire
<1>. QED
  BY <1>1, <1>2

LEMMA StopIceWorkerInv ==
    ASSUME PInv, StopIceWorker
    PROVE  PInv'
<1>. USE BoundsAssumption DEF PInv, Conns, None, Threads, StopIceWorker, Goes
<1>1. Types'
  BY DEF Types, Records, Threading, Fits, Working, Places, Plans, Callbacks, At, Idle
<1>2. StayOut'
  BY DEF Types, StayOut
<1>3. Threading'
  BY DEF Types, Records, Threading, Fits, Working, Callbacks, Plans, At, Idle
<1>4. OneTeller'
  BY DEF Types, Records, StayOut, Threading, Fits, Working, Reporting, OneTeller, Ending,
     Callbacks, At, Idle
<1>5. EndOwed'
  BY DEF Types, Records, Threading, Fits, Working, Reporting, OneTeller, EndOwed, Ending,
     Callbacks, At, Idle
<1>. QED
  BY <1>1, <1>2, <1>3, <1>4, <1>5

LEMMA JoinIceWorkerInv ==
    ASSUME PInv, JoinIceWorker
    PROVE  PInv'
<1>1. PICK r : r = [thread["app"] EXCEPT !.at = "close"]
  OBVIOUS
<1>2. /\ r \in Records /\ Fits("app", r)
      /\ thread["app"].at \notin Reporting /\ r.at \notin Reporting \cup {"launch", "exited"}
  BY <1>1, BoundsAssumption DEF PInv, Conns, None, Types, Records, Places, Plans, Threading,
     Fits, Working, Reporting, Threads, At, Idle, JoinIceWorker, Goes
<1>3. thread' = [thread EXCEPT !["app"] = r]
  BY <1>1 DEF JoinIceWorker, Goes
<1>4. Ends
  BY DEF Ends, JoinIceWorker
<1>. QED
  BY <1>2, <1>3, <1>4, Moves DEF Threads, JoinIceWorker, Goes

LEMMA CloseWebsocketInv ==
    ASSUME PInv, CloseWebsocket
    PROVE  PInv'
<1>. USE DEF PInv, CloseWebsocket, SignalIdle
<1>0. \A t \in Threads :
        /\ thread'[t].conn = thread[t].conn /\ thread'[t].then = thread[t].then
        /\ thread'[t].at \in {thread[t].at, "destroyed", "closed"}
        /\ t = "worker" => thread'[t].at = thread[t].at
        /\ thread[t].at \in Reporting => thread'[t].at = thread[t].at
  BY DEF Types, Records, Threads, Reporting
<1>1. Types'
  <2>1. thread' \in [Threads -> Records]
    BY DEF Types, Records, Threads, Places
  <2>. QED
    BY <2>1 DEF Types
<1>2. StayOut'
  BY DEF StayOut
<1>3. Threading'
  BY <1>0 DEF Threading, Fits, Working, Threads
<1>4. \A s \in Threads, e \in Conns : Ending(s, e)' <=> Ending(s, e)
  BY <1>0 DEF Ending, Reporting
<1>5. OneTeller'
  BY <1>4 DEF OneTeller
<1>6. EndOwed'
  BY <1>4 DEF EndOwed, Types
<1>. QED
  BY <1>1, <1>2, <1>3, <1>5, <1>6

-----------------------------------------------------------------------------
(***************************************************************************)
(* The invariant and what it implies.                                      *)
(***************************************************************************)
LEMMA InitPInv == Init => PInv
<1>. SUFFICES ASSUME Init PROVE PInv
  OBVIOUS
<1>. USE BoundsAssumption DEF Init, Conns, None
<1>0. Idle \in Records /\ \A t \in Threads : Fits(t, Idle)
  BY DEF Idle, At, Records, Places, Plans, Fits, Working
<1>1. Types
  BY <1>0 DEF Types
<1>2. StayOut /\ EndOwed
  BY DEF StayOut, EndOwed
<1>3. Threading
  BY <1>0 DEF Threading, Threads, Idle, At
<1>4. OneTeller
  BY DEF OneTeller, Ending, Reporting, Idle, At
<1>. QED
  BY <1>1, <1>2, <1>3, <1>4 DEF PInv

LEMMA SignalStepInv == ASSUME PInv, SignalStep PROVE PInv'
  BY ReleaseReplacedInv, SignalTellInv, ClearTellInv, ClearReleaseInv, RetireTellInv,
     InitConnectionInv, PushStartInv DEF SignalStep, Threads

LEMMA WorkerLeaveInv == ASSUME PInv, WorkerLeave PROVE PInv'
  BY RemoveCurrentInv, WorkerRestsInv DEF WorkerLeave, Threads, Reporting

LEMMA WorkerStepInv == ASSUME PInv, WorkerStep PROVE PInv'
  BY TakeCleanupInv, WorkerExitInv, TakeMsgInv, WorkerLeaveInv, LookupInv, CredentialsExpiredInv,
     StartOverInv, JoinOldInv, DropInv, ClearTellInv, ClearReleaseInv, RetireTellInv, LaunchInv
  DEF WorkerStep, Threads

LEMMA TransportStepInv ==
    ASSUME PInv, NEW c \in Conns, Progress(c) \/ Terminal(c) \/ CallbackStep(c)
    PROVE  PInv'
  BY ProgressInv, TerminalInv, IsCurrentInv, InsertConnectedInv, ReportConnectedInv,
     CallbackTellInv, CallbackRetireInv, CallbackTellEndInv DEF CallbackStep

LEMMA AppStepInv == ASSUME PInv, AppStep PROVE PInv'
  BY DisconnectRetireInv, StopIceWorkerInv, JoinIceWorkerInv, CloseWebsocketInv, ClearTellInv,
     ClearReleaseInv, RetireTellInv DEF AppStep, Threads

LEMMA RemovalsInv == ASSUME PInv, SignalLost \/ Leave \/ Destroy PROVE PInv'
  BY RemoveCurrentInv DEF SignalLost, SignalIdle, Leave, Destroy, AppIdle, Threads, Reporting

LEMMA UnchangedInv == ASSUME PInv, UNCHANGED vars PROVE PInv'
  BY DEF vars, PInv, Types, StayOut, Threading, OneTeller, EndOwed, Ending, Fits

LEMMA NextPInv == PInv /\ [Next]_vars => PInv'
<1>. SUFFICES ASSUME PInv, [Next]_vars PROVE PInv'
  OBVIOUS
<1>1. CASE SessionTicket \/ LoginAccepted \/ Replace \/ RemoteLeft \/ DisconnectPeer
  BY <1>1, SessionTicketInv, LoginAcceptedInv, ReplaceInv, RemoteLeftInv, DisconnectPeerInv
<1>2. CASE SignalLost \/ Leave \/ Destroy
  BY <1>2, RemovalsInv
<1>3. CASE SignalStep
  BY <1>3, SignalStepInv
<1>4. CASE WorkerStep
  BY <1>4, WorkerStepInv
<1>5. CASE \E c \in Conns : Progress(c) \/ Terminal(c) \/ CallbackStep(c)
  BY <1>5, TransportStepInv
<1>6. CASE AppStep
  BY <1>6, AppStepInv
<1>7. CASE Over \/ UNCHANGED vars
  BY <1>7, UnchangedInv DEF Over
<1>. QED
  BY <1>1, <1>2, <1>3, <1>4, <1>5, <1>6, <1>7 DEF Next

\* The invariant holds in every reachable state.
LEMMA Invariance == Spec => []PInv
  BY InitPInv, NextPInv, PTL DEF Spec

(***************************************************************************)
(* However the signaling thread, the ICE worker, the application and the   *)
(* transports' threads interleave, RetirePeerConnection and                *)
(* ClearPeerConnections let the application hear of the end of a           *)
(* connection at most once, and only when it is no longer current.         *)
(***************************************************************************)
THEOREM EndIsToldOnce == Spec => []OneTerminal
<1>1. PInv => OneTerminal
  BY DEF PInv, OneTeller, StayOut, OneTerminal
<1>. QED
  BY <1>1, Invariance, PTL

(***************************************************************************)
(* No terminal callback puts a connection into the cleanup queue of an ICE *)
(* worker that has ended: RetirePeerConnection looks at the worker's flag  *)
(* under the map's mutex.                                                  *)
(***************************************************************************)
THEOREM CleanupIsServed == Spec => []CleanupServed
<1>1. PInv => CleanupServed
  BY DEF PInv, Threading, CleanupServed
<1>. QED
  BY <1>1, Invariance, PTL

(***************************************************************************)
(* Whoever takes a connection out of the map owes the application its end: *)
(* the end was reported, or a thread stands at the report.  The safety     *)
(* half of RemovedIsEnded.                                                 *)
(***************************************************************************)
THEOREM EndsAreOwed == Spec => []EndOwed
<1>1. PInv => EndOwed
  BY DEF PInv
<1>. QED
  BY <1>1, Invariance, PTL

-----------------------------------------------------------------------------
(***************************************************************************)
(* Proofs about DtlsTransport: for any bounds and any mode, whichever peer *)
(* the faults befall.                                                      *)
(*                                                                         *)
(* The handlers of a peer are functions of its record, so the invariant is *)
(* one of a single record, Sound, and the lemmas say that each handler     *)
(* keeps it.  Its heart is that the controller, the tracker and the agent  *)
(* never drift apart: the path is taken to be ready exactly while the      *)
(* tracker holds it usable, no failed agent leaves it usable, and the last *)
(* task posted tells what was decided last.                                *)
(***************************************************************************)

NiceStates == {"connecting", "connected", "ready", "failed"}
Statuses == NiceStates \cup {"none", "disconnected", "secure_ready", "closed"}
SslStates == {"none", "await 1", "await 2", "await 3", "await 4", "finished"}

SideType == [
    nice : NiceStates, pair : BOOLEAN, rechecks : Int, signals : Seq(NiceStates),
    started : BOOLEAN, done : BOOLEAN, verified : BOOLEAN, failed : BOOLEAN,
    ssl : SslStates, early : Int, timer : BOOLEAN, left : Int, sent : SUBSET Int,
    usable : BOOLEAN, iceReady : BOOLEAN, dtlsReady : BOOLEAN, mediaReady : BOOLEAN,
    pacerTasks : Seq(BOOLEAN), pacerReady : BOOLEAN, ccTasks : Seq(BOOLEAN), ccReady : BOOLEAN,
    status : Statuses, secureReported : BOOLEAN,
    closed : BOOLEAN, disabled : BOOLEAN, destroyed : BOOLEAN]

\* What a task queue has been told last, or what was run last, is b.
Settled(q, held, b) == IF q = <<>> THEN held = b ELSE q[Len(q)] = b

Queues(s) ==
    ~s.destroyed => /\ Settled(s.pacerTasks, s.pacerReady, s.mediaReady)
                    /\ Settled(s.ccTasks, s.ccReady, s.mediaReady)

MediaDecided(s) == s.mediaReady <=> s.iceReady /\ (Secure => s.dtlsReady)

\* Keys were installed only after the certificate was found to match.
Certified(p, s) ==
    /\ s.done => s.verified
    /\ s.verified => match[p]
    /\ s.dtlsReady => s.verified

\* The stages of the end, in their order.
Ended(s) == (s.disabled => s.closed) /\ (s.destroyed => s.disabled)

Base(p, s) ==
    s \in SideType /\ Queues(s) /\ MediaDecided(s) /\ Certified(p, s) /\ Ended(s)

\* The controller and the tracker agree; a failed agent has no usable path.
Tracked(s) == ~s.closed => (s.iceReady <=> s.usable) /\ (s.failed => ~s.usable)

Sound(p, s) == Base(p, s) /\ Tracked(s)

\* What the handlers leave alone.
Kept(s, e) ==
    /\ e.nice = s.nice /\ e.pair = s.pair /\ e.signals = s.signals
    /\ e.closed = s.closed /\ e.disabled = s.disabled /\ e.destroyed = s.destroyed

\* A failed agent stays failed and reports nothing.
Silent(s, e) == s.failed => e.failed /\ e.status = s.status
\* e differs from s only in fields the invariant does not speak of.
Aside(s, e) ==
    /\ e \in SideType /\ Kept(s, e)
    /\ e.done = s.done /\ e.verified = s.verified /\ e.failed = s.failed
    /\ e.usable = s.usable /\ e.iceReady = s.iceReady /\ e.dtlsReady = s.dtlsReady
    /\ e.mediaReady = s.mediaReady /\ e.status = s.status
    /\ e.pacerTasks = s.pacerTasks /\ e.pacerReady = s.pacerReady
    /\ e.ccTasks = s.ccTasks /\ e.ccReady = s.ccReady

LEMMA AsideSound ==
    ASSUME NEW p \in Peers, NEW s, Sound(p, s), NEW e, Aside(s, e)
    PROVE  Sound(p, e) /\ Kept(s, e) /\ Silent(s, e) /\ e.failed = s.failed
BY DEF Aside, Sound, Base, Kept, Silent, Queues, MediaDecided, Certified, Ended, Tracked
-----------------------------------------------------------------------------
(***************************************************************************)
(* The controller and the transport.                                       *)
(***************************************************************************)
LEMMA SettledAppend ==
    ASSUME NEW q \in Seq(BOOLEAN), NEW held, NEW b \in BOOLEAN
    PROVE  Append(q, b) \in Seq(BOOLEAN) /\ Settled(Append(q, b), held, b)
<1>1. Append(q, b) \in Seq(BOOLEAN) /\ Append(q, b) # <<>> /\ Append(q, b)[Len(Append(q, b))] = b
  OBVIOUS
<1>. QED
  BY <1>1 DEF Settled

LEMMA UpdateFacts ==
    ASSUME NEW s \in SideType, Queues(s), NEW e, e = UpdateMediaTransportState(s)
    PROVE  /\ e \in SideType /\ Queues(e) /\ MediaDecided(e)
           /\ Kept(s, e) /\ e.failed = s.failed /\ e.status = s.status
           /\ e.done = s.done /\ e.verified = s.verified /\ e.started = s.started
           /\ e.usable = s.usable /\ e.iceReady = s.iceReady /\ e.dtlsReady = s.dtlsReady
           /\ e.secureReported = s.secureReported
<1>1. PICK ready \in BOOLEAN : ready = (s.iceReady /\ (Secure => s.dtlsReady))
  OBVIOUS
<1>2. PICK pt \in Seq(BOOLEAN) : pt = Append(s.pacerTasks, ready) /\ Settled(pt, s.pacerReady, ready)
  BY SettledAppend DEF SideType
<1>3. PICK ct \in Seq(BOOLEAN) :
        /\ ct = IF ready # s.mediaReady THEN Append(s.ccTasks, ready) ELSE s.ccTasks
        /\ ~s.destroyed => Settled(ct, s.ccReady, ready)
  <2>1. CASE ready # s.mediaReady
    BY <2>1, SettledAppend DEF SideType
  <2>2. CASE ready = s.mediaReady
    BY <2>2 DEF SideType, Queues
  <2>. QED
    BY <2>1, <2>2
<1>4. e = [s EXCEPT !.mediaReady = ready, !.pacerTasks = pt, !.ccTasks = ct]
  BY <1>1, <1>2, <1>3 DEF UpdateMediaTransportState
<1>5. e \in SideType
  BY ZenonT(40), <1>4 DEF SideType
<1>6. /\ e.mediaReady = ready /\ e.pacerTasks = pt /\ e.ccTasks = ct
      /\ e.pacerReady = s.pacerReady /\ e.ccReady = s.ccReady
      /\ Kept(s, e) /\ e.failed = s.failed /\ e.status = s.status
      /\ e.done = s.done /\ e.verified = s.verified /\ e.started = s.started
      /\ e.usable = s.usable /\ e.iceReady = s.iceReady /\ e.dtlsReady = s.dtlsReady
      /\ e.secureReported = s.secureReported
  BY <1>4 DEF SideType, Kept
<1>7. Queues(e)
  BY <1>2, <1>3, <1>6 DEF Queues, Kept
<1>8. MediaDecided(e)
  BY <1>1, <1>6 DEF MediaDecided
<1>. QED
  BY <1>5, <1>6, <1>7, <1>8

LEMMA UpdateNetworkFacts ==
    ASSUME NEW s \in SideType, Queues(s), NEW b \in BOOLEAN, NEW e,
           e = UpdateNetworkAvaliablity(s, b)
    PROVE  /\ e \in SideType /\ Queues(e) /\ MediaDecided(e)
           /\ Kept(s, e) /\ e.failed = s.failed
           /\ e.done = s.done /\ e.verified = s.verified /\ e.started = s.started
           /\ e.usable = s.usable /\ e.iceReady = b /\ (e.dtlsReady => s.dtlsReady)
<1>1. PICK d \in BOOLEAN : d = (s.dtlsReady /\ b)
  BY DEF SideType
<1>2. PICK t : t = [s EXCEPT !.iceReady = b, !.dtlsReady = d]
  OBVIOUS
<1>3. e = UpdateMediaTransportState(t)
  BY <1>1, <1>2 DEF UpdateNetworkAvaliablity
<1>4. t \in SideType
  BY ZenonT(40), <1>2 DEF SideType
<1>5. /\ Kept(s, t) /\ t.failed = s.failed
      /\ t.done = s.done /\ t.verified = s.verified /\ t.started = s.started
      /\ t.usable = s.usable /\ t.iceReady = b /\ t.dtlsReady = d
  BY <1>2 DEF SideType, Kept
<1>6. Queues(t)
  BY <1>2 DEF SideType, Queues
<1>. QED
  BY <1>1, <1>3, <1>4, <1>5, <1>6, UpdateFacts DEF Kept

LEMMA ReportFacts ==
    ASSUME NEW s \in SideType, NEW st \in Statuses, NEW e, e = Report(s, st)
    PROVE  /\ e \in SideType /\ e.status = st /\ Kept(s, e)
           /\ e.failed = s.failed /\ e.started = s.started
           /\ e.done = s.done /\ e.verified = s.verified
           /\ e.usable = s.usable /\ e.iceReady = s.iceReady /\ e.dtlsReady = s.dtlsReady
           /\ e.mediaReady = s.mediaReady /\ e.secureReported = s.secureReported
           /\ Queues(s) => Queues(e)
<1>1. e = [s EXCEPT !.status = st]
  BY DEF Report
<1>2. e \in SideType
  BY ZenonT(40), <1>1 DEF SideType
<1>. QED
  BY <1>1, <1>2 DEF SideType, Kept, Queues

(***************************************************************************)
(* Publish, called with what the tracker held before: the controller then  *)
(* agrees with the tracker again.                                          *)
(***************************************************************************)
LEMMA PublishFacts ==
    ASSUME NEW p \in Peers, NEW s, Base(p, s), NEW st \in NiceStates, NEW usable \in BOOLEAN,
           s.iceReady <=> usable, s.usable <=> (st = "ready" \/ (usable /\ st \notin Down)),
           NEW e, e = Publish(s, st, usable)
    PROVE  /\ Base(p, e) /\ (e.iceReady <=> e.usable) /\ (e.usable <=> s.usable)
           /\ Kept(s, e) /\ e.failed = s.failed /\ e.started = s.started
<1>. USE DEF Base
<1>0. st \in Statuses
  BY DEF Statuses
<1>1. PICK t : t = IF st = "ready" /\ ~usable THEN UpdateNetworkAvaliablity(s, TRUE)
                   ELSE IF st \in Down /\ usable THEN UpdateNetworkAvaliablity(s, FALSE)
                   ELSE s
  OBVIOUS
<1>2. e = Report(t, st)
  BY <1>1 DEF Publish
<1>3. /\ t \in SideType /\ Queues(t) /\ MediaDecided(t)
      /\ Kept(s, t) /\ t.failed = s.failed /\ t.started = s.started
      /\ t.done = s.done /\ t.verified = s.verified
      /\ t.usable = s.usable /\ (t.iceReady <=> t.usable) /\ (t.dtlsReady => s.dtlsReady)
  <2>1. CASE st = "ready" /\ ~usable
    BY ZenonT(40), <1>1, <2>1, UpdateNetworkFacts
  <2>2. CASE st \in Down /\ usable
    BY <1>1, <2>2, UpdateNetworkFacts DEF Down
  <2>3. CASE ~(st = "ready" /\ ~usable) /\ ~(st \in Down /\ usable)
    BY <1>1, <2>3 DEF Kept
  <2>. QED
    BY <2>1, <2>2, <2>3
<1>4. /\ e \in SideType /\ Queues(e) /\ Kept(t, e) /\ e.failed = t.failed /\ e.started = t.started
      /\ e.done = t.done /\ e.verified = t.verified
      /\ e.usable = t.usable /\ e.iceReady = t.iceReady /\ e.dtlsReady = t.dtlsReady
      /\ e.mediaReady = t.mediaReady
  BY <1>0, <1>2, <1>3, ReportFacts
<1>5. Kept(s, e)
  BY <1>3, <1>4 DEF Kept
<1>6. MediaDecided(e)
  BY <1>3, <1>4 DEF MediaDecided
<1>7. Certified(p, e)
  BY <1>3, <1>4 DEF Certified
<1>8. Ended(e)
  BY <1>5 DEF Ended, Kept
<1>. QED
  BY <1>3, <1>4, <1>5, <1>6, <1>7, <1>8

LEMMA TrackFacts ==
    ASSUME NEW p \in Peers, NEW s, Base(p, s), NEW st \in NiceStates, NEW e, e = Track(s, st)
    PROVE  /\ Base(p, e) /\ (e.usable <=> (st = "ready" \/ (s.usable /\ st \notin Down)))
           /\ e.iceReady = s.iceReady /\ Kept(s, e) /\ e.failed = s.failed /\ e.started = s.started
<1>. USE DEF Base
<1>1. PICK u \in BOOLEAN : u = IF st = "ready" THEN TRUE ELSE s.usable /\ st \notin Down
  BY DEF SideType
<1>2. e = [s EXCEPT !.usable = u]
  BY <1>1 DEF Track
<1>3. e \in SideType
  BY <1>2 DEF SideType
<1>. QED
  BY ZenonT(40), <1>1, <1>2, <1>3 DEF SideType, Kept, Queues, MediaDecided, Certified, Ended

LEMMA OnIceFailedFacts ==
    ASSUME NEW p \in Peers, NEW s, Base(p, s), ~s.closed => (s.iceReady <=> s.usable),
           NEW e, e = OnIceFailed(s)
    PROVE  Sound(p, e) /\ Kept(s, e) /\ e.failed = s.failed /\ e.started = s.started
<1>1. CASE s.closed
  BY <1>1 DEF OnIceFailed, Sound, Tracked, Kept
<1>2. CASE ~s.closed
  <2>1. PICK t : t = Track(s, "failed")
    OBVIOUS
  <2>2. /\ Base(p, t) /\ ~t.usable /\ t.iceReady = s.iceReady
        /\ Kept(s, t) /\ t.failed = s.failed /\ t.started = s.started
    BY <2>1, TrackFacts DEF NiceStates, Down
  <2>3. e = Publish(t, "failed", s.usable) /\ s.usable \in BOOLEAN
    BY <1>2, <2>1 DEF OnIceFailed, Base, SideType
  <2>4. /\ Base(p, e) /\ (e.iceReady <=> e.usable) /\ ~e.usable
        /\ Kept(t, e) /\ e.failed = t.failed /\ e.started = t.started
    BY <1>2, <2>2, <2>3, PublishFacts DEF NiceStates, Down
  <2>. QED
    BY <2>2, <2>4 DEF Sound, Tracked, Kept
<1>. QED
  BY <1>1, <1>2

LEMMA InstallSrtpFacts ==
    ASSUME NEW p \in Peers, NEW s, Sound(p, s), s.verified, NEW b \in BOOLEAN,
           NEW e, e = InstallSrtp(s, b)
    PROVE  /\ Sound(p, e) /\ Kept(s, e) /\ e.failed = s.failed /\ e.started = s.started
           /\ e.verified = s.verified /\ e.secureReported = s.secureReported
<1>1. CASE s.dtlsReady \/ ~b
  BY <1>1 DEF InstallSrtp, Kept
<1>2. CASE ~(s.dtlsReady \/ ~b)
  <2>. USE DEF Sound, Base
  <2>1. PICK t : t = [s EXCEPT !.dtlsReady = TRUE]
    OBVIOUS
  <2>2. e = UpdateMediaTransportState(t)
    BY <1>2, <2>1 DEF InstallSrtp
  <2>3. t \in SideType
    BY <2>1 DEF SideType
  <2>4. /\ Kept(s, t) /\ t.failed = s.failed /\ t.started = s.started
        /\ t.done = s.done /\ t.verified = s.verified /\ t.secureReported = s.secureReported
        /\ t.usable = s.usable /\ t.iceReady = s.iceReady /\ Queues(t)
    BY <2>1 DEF SideType, Kept, Queues
  <2>5. /\ e \in SideType /\ Queues(e) /\ MediaDecided(e)
        /\ Kept(t, e) /\ e.failed = t.failed /\ e.started = t.started
        /\ e.done = t.done /\ e.verified = t.verified /\ e.secureReported = t.secureReported
        /\ e.usable = t.usable /\ e.iceReady = t.iceReady
    BY <2>2, <2>3, <2>4, UpdateFacts
  <2>6. Kept(s, e)
    BY <2>4, <2>5 DEF Kept
  <2>7. Certified(p, e) /\ Ended(e) /\ Tracked(e)
    BY <2>4, <2>5, <2>6 DEF Certified, Ended, Tracked, Kept
  <2>. QED
    BY <2>4, <2>5, <2>6, <2>7
<1>. QED
  BY <1>1, <1>2

LEMMA ReportSound ==
    ASSUME NEW p \in Peers, NEW s, Sound(p, s), NEW st \in Statuses, NEW e, e = Report(s, st)
    PROVE  Sound(p, e) /\ Kept(s, e) /\ e.failed = s.failed /\ e.started = s.started
<1>1. s \in SideType /\ Queues(s)
  BY DEF Sound, Base
<1>2. /\ e \in SideType /\ Kept(s, e) /\ e.failed = s.failed /\ e.started = s.started
      /\ e.done = s.done /\ e.verified = s.verified
      /\ e.usable = s.usable /\ e.iceReady = s.iceReady /\ e.dtlsReady = s.dtlsReady
      /\ e.mediaReady = s.mediaReady /\ Queues(e)
  BY <1>1, ReportFacts
<1>. QED
  BY <1>2 DEF Sound, Base, Kept, MediaDecided, Certified, Ended, Tracked

LEMMA OnDtlsHandshakeDoneFacts ==
    ASSUME NEW p \in Peers, NEW s, Sound(p, s), s.verified, NEW b \in BOOLEAN,
           NEW e, e = OnDtlsHandshakeDone(s, b)
    PROVE  Sound(p, e) /\ Kept(s, e) /\ e.failed = s.failed /\ e.started = s.started
<1>1. CASE ~Secure
  BY <1>1 DEF OnDtlsHandshakeDone, Kept
<1>2. CASE Secure
  <2>1. PICK t : t = InstallSrtp(s, b)
    OBVIOUS
  <2>2. Sound(p, t) /\ Kept(s, t) /\ t.failed = s.failed /\ t.started = s.started
    BY <2>1, InstallSrtpFacts
  <2>3. PICK r : r = Report(t, "secure_ready")
    OBVIOUS
  <2>4. /\ Sound(p, r) /\ Kept(t, r) /\ r.failed = t.failed /\ r.started = t.started
    BY <2>2, <2>3, ReportSound DEF Statuses
  <2>5. PICK f : f = Report(t, "failed")
    OBVIOUS
  <2>6. /\ Sound(p, f) /\ Kept(t, f) /\ f.failed = t.failed /\ f.started = t.started
    BY <2>2, <2>5, ReportSound DEF Statuses, NiceStates
  <2>7. PICK q : q = [r EXCEPT !.secureReported = TRUE]
    OBVIOUS
  <2>8. Sound(p, q) /\ Kept(r, q) /\ q.failed = r.failed /\ q.started = r.started
    <3>1. Aside(r, q) /\ q.started = r.started
      BY <2>4, <2>7 DEF Sound, Base, SideType, Aside, Kept
    <3>. QED
      BY <2>4, <3>1, AsideSound
  <2>9. e \in {t, f, q}
    BY <1>2, <2>1, <2>3, <2>5, <2>7 DEF OnDtlsHandshakeDone
  <2>. QED
    BY <2>2, <2>4, <2>6, <2>8, <2>9 DEF Kept
<1>. QED
  BY <1>1, <1>2
-----------------------------------------------------------------------------
(***************************************************************************)
(* The agent.                                                              *)
(***************************************************************************)
LEMMA FailDtlsHandshakeFacts ==
    ASSUME NEW p \in Peers, NEW s, Sound(p, s), NEW e, e = FailDtlsHandshake(s)
    PROVE  Sound(p, e) /\ Kept(s, e) /\ e.failed /\ e.started = s.started /\ Silent(s, e)
<1>1. PICK t : t = [s EXCEPT !.timer = FALSE, !.failed = TRUE]
  OBVIOUS
<1>2. /\ Base(p, t) /\ (~t.closed => (t.iceReady <=> t.usable))
      /\ Kept(s, t) /\ t.failed /\ t.started = s.started /\ t.status = s.status
      /\ t.usable = s.usable
  <2>1. t \in SideType
    BY <1>1 DEF Sound, Base, SideType
  <2>. QED
    BY <1>1, <2>1 DEF Sound, Base, SideType, Kept, Queues, MediaDecided, Certified, Ended, Tracked
<1>3. CASE Gone(s)
  <2>1. e = t
    BY <1>1, <1>3 DEF FailDtlsHandshake
  <2>2. Tracked(e)
    BY <1>2, <1>3, <2>1 DEF Sound, Base, Tracked, Ended, Gone, Kept
  <2>. QED
    BY <1>2, <2>1, <2>2 DEF Sound, Silent
<1>4. CASE ~Gone(s)
  <2>1. e = OnIceFailed(t)
    BY <1>1, <1>4 DEF FailDtlsHandshake
  <2>2. Sound(p, e) /\ Kept(t, e) /\ e.failed = t.failed /\ e.started = t.started
    BY <1>2, <2>1, OnIceFailedFacts
  <2>. QED
    BY <1>2, <1>4, <2>2 DEF Kept, Silent, Gone
<1>. QED
  BY <1>3, <1>4

LEMMA CompleteDtlsHandshakeFacts ==
    ASSUME NEW p \in Peers, NEW s, Sound(p, s), NEW b \in BOOLEAN,
           NEW e, e = CompleteDtlsHandshake(p, s, b)
    PROVE  Sound(p, e) /\ Kept(s, e) /\ Silent(s, e)
<1>1. CASE s.done \/ Gone(s)
  BY <1>1 DEF CompleteDtlsHandshake, Kept, Silent
<1>2. CASE ~(s.done \/ Gone(s)) /\ ~match[p]
  BY <1>2, FailDtlsHandshakeFacts DEF CompleteDtlsHandshake
<1>3. CASE ~(s.done \/ Gone(s)) /\ match[p]
  <2>1. PICK t : t = [s EXCEPT !.verified = TRUE, !.done = TRUE, !.timer = FALSE]
    OBVIOUS
  <2>2. t \in SideType
    BY <2>1 DEF Sound, Base, SideType
  <2>3. Sound(p, t) /\ Kept(s, t) /\ t.verified
    BY <1>3, <2>1, <2>2 DEF Sound, Base, SideType, Kept, Queues, MediaDecided, Certified, Ended,
                            Tracked
  <2>4. e = OnDtlsHandshakeDone(t, b)
    BY <1>3, <2>1 DEF CompleteDtlsHandshake
  <2>. QED
    BY <1>3, <2>3, <2>4, OnDtlsHandshakeDoneFacts DEF Kept, Silent, Gone
<1>. QED
  BY <1>1, <1>2, <1>3

LEMMA SslAside ==
    ASSUME NEW p \in Peers, NEW s \in SideType, NEW f
    PROVE  Aside(s, Ssl(p, s, f)) /\ Ssl(p, s, f).started = s.started
<1>1. ASSUME NEW x \in SslStates, NEW n \in Int, NEW e, e = Write([s EXCEPT !.ssl = x], n)
      PROVE  Aside(s, e) /\ e.started = s.started
  <2>1. PICK y \in SUBSET Int : y = {n}
    OBVIOUS
  <2>2. e = [s EXCEPT !.ssl = x, !.sent = y]
    BY <1>1, <2>1 DEF Write, SideType
  <2>. QED
    BY <2>2 DEF Aside, Kept, SideType
<1>2. ASSUME NEW x \in SslStates
      PROVE  LET e == [s EXCEPT !.ssl = x] IN Aside(s, e) /\ e.started = s.started
  BY DEF Aside, Kept, SideType
<1>3. ASSUME NEW n \in Int
      PROVE  LET e == Write(s, n) IN Aside(s, e) /\ e.started = s.started
  BY DEF Aside, Kept, SideType, Write
<1>4. Aside(s, s)
  BY DEF Aside, Kept
<1>5. CASE p = "offer" /\ s.ssl = "await 2" /\ f = 2
  <2>1. PICK x \in SslStates : x = "await 4"
    BY DEF SslStates
  <2>2. Ssl(p, s, f) = Write([s EXCEPT !.ssl = x], 3)
    BY <1>5, <2>1 DEF Ssl
  <2>. QED
    BY <1>1, <2>2
<1>6. CASE p = "offer" /\ s.ssl = "await 4" /\ f = 4
  <2>1. Ssl(p, s, f) = [s EXCEPT !.ssl = "finished"]
    BY <1>6 DEF Ssl
  <2>. QED
    BY <1>2, <2>1 DEF SslStates
<1>7. CASE p = "answer" /\ s.ssl = "await 1" /\ f = 1
  <2>1. PICK x \in SslStates : x = "await 3"
    BY DEF SslStates
  <2>2. Ssl(p, s, f) = Write([s EXCEPT !.ssl = x], 2)
    BY <1>7, <2>1 DEF Ssl
  <2>. QED
    BY <1>1, <2>2
<1>8. CASE p = "answer" /\ s.ssl = "await 3" /\ f = 3
  <2>1. PICK x \in SslStates : x = "finished"
    BY DEF SslStates
  <2>2. Ssl(p, s, f) = Write([s EXCEPT !.ssl = x], 4)
    BY <1>8, <2>1 DEF Ssl
  <2>. QED
    BY <1>1, <2>2
<1>9. CASE p = "answer" /\ s.ssl = "finished" /\ f = 3
  <2>1. Ssl(p, s, f) = Write(s, 4)
    BY <1>9 DEF Ssl
  <2>. QED
    BY <1>3, <2>1
<1>10. CASE /\ ~(p = "offer" /\ s.ssl = "await 2" /\ f = 2)
            /\ ~(p = "offer" /\ s.ssl = "await 4" /\ f = 4)
            /\ ~(p = "answer" /\ s.ssl = "await 1" /\ f = 1)
            /\ ~(p = "answer" /\ s.ssl = "await 3" /\ f = 3)
            /\ ~(p = "answer" /\ s.ssl = "finished" /\ f = 3)
  BY <1>10, <1>4 DEF Ssl
<1>. QED
  BY <1>5, <1>6, <1>7, <1>8, <1>9, <1>10

LEMMA StartDtlsFacts ==
    ASSUME NEW p \in Peers, NEW s, Sound(p, s), NEW ok \in BOOLEAN, NEW e, e = StartDtls(p, s, ok)
    PROVE  Sound(p, e) /\ Kept(s, e) /\ Silent(s, e) /\ (e.started \/ Gone(e))
<1>0. MaxTicks \in Int
  BY TicksAssumption
<1>1. CASE Gone(s) \/ s.started
  BY <1>1 DEF StartDtls, Kept, Silent
<1>2. CASE ~(Gone(s) \/ s.started)
  <2>. USE DEF Sound, Base
  <2>0. PICK x \in SslStates : x = IF p = "offer" THEN "await 2" ELSE "await 1"
    BY DEF SslStates
  <2>1. PICK b : b = [s EXCEPT !.started = TRUE, !.early = 0, !.ssl = x]
    OBVIOUS
  <2>2. Aside(s, b) /\ b.started
    <3>1. b \in SideType
      BY <2>1, 0 \in Int DEF SideType
    <3>. QED
      BY <2>1, <3>1 DEF SideType, Aside, Kept
  <2>3. PICK t : t = IF p = "offer" THEN Write(b, 1) ELSE IF s.early > 0 THEN Ssl(p, b, 1) ELSE b
    OBVIOUS
  <2>4. Aside(b, t) /\ t.started
    <3>1. CASE p = "offer"
      <4>0. PICK y \in SUBSET Int : y = {1}
        <5>1. {1} \in SUBSET Int
          BY 1 \in Int
        <5>. QED
          BY <5>1
      <4>1. t = [b EXCEPT !.sent = y]
        BY <2>3, <3>1, <4>0 DEF Write
      <4>2. t \in SideType
        BY <2>2, <4>1 DEF Aside, SideType
      <4>. QED
        BY ZenonT(40), <2>2, <4>1, <4>2 DEF Aside, SideType, Kept
    <3>2. CASE p # "offer" /\ s.early > 0
      BY <2>2, <2>3, <3>2, SslAside DEF Aside
    <3>3. CASE p # "offer" /\ ~(s.early > 0)
      BY <2>2, <2>3, <3>3 DEF Aside, Kept
    <3>. QED
      BY <3>1, <3>2, <3>3
  <2>5. Aside(s, t)
    BY <2>2, <2>4 DEF Aside, Kept
  <2>6. CASE Written(t, ok)
    <3>1. e = [t EXCEPT !.timer = TRUE, !.left = MaxTicks]
      BY <1>2, <2>0, <2>1, <2>3, <2>6 DEF StartDtls
    <3>2. Aside(t, e) /\ e.started
      <4>1. e \in SideType
        BY ZenonT(40), <2>4, <3>1, <1>0 DEF Aside, SideType
      <4>. QED
        BY <2>4, <3>1, <4>1 DEF Aside, SideType, Kept
    <3>3. Aside(s, e)
      BY <2>5, <3>2 DEF Aside, Kept
    <3>. QED
      BY <3>2, <3>3, AsideSound
  <2>7. CASE ~Written(t, ok)
    <3>1. PICK u : u = Unwritten(t)
      OBVIOUS
    <3>2. Aside(t, u)
      BY <2>4, <3>1 DEF Aside, SideType, Kept, Unwritten
    <3>3. Aside(s, u)
      BY <2>5, <3>2 DEF Aside, Kept
    <3>4. e = FailDtlsHandshake(u)
      BY <1>2, <2>0, <2>1, <2>3, <2>7, <3>1 DEF StartDtls
    <3>5. Sound(p, u) /\ Kept(s, u) /\ u.failed = s.failed
      BY <3>3, AsideSound
    <3>6. Sound(p, e) /\ Kept(u, e) /\ e.failed
      BY <3>4, <3>5, FailDtlsHandshakeFacts
    <3>. QED
      BY <1>2, <3>5, <3>6 DEF Kept, Silent, Gone
  <2>. QED
    BY <2>6, <2>7
<1>. QED
  BY <1>1, <1>2

LEMMA MaybeStartDtlsFacts ==
    ASSUME NEW p \in Peers, NEW s, Sound(p, s), NEW ok \in BOOLEAN,
           NEW e, e = MaybeStartDtls(p, s, ok)
    PROVE  /\ Sound(p, e) /\ Kept(s, e) /\ Silent(s, e)
           /\ s.pair /\ s.nice \in {"connected", "ready"} => e.started \/ Gone(e)
<1>1. CASE s.started \/ Gone(s) \/ s.nice \notin {"connected", "ready"} \/ ~s.pair
  BY <1>1 DEF MaybeStartDtls, Kept, Silent
<1>2. CASE ~(s.started \/ Gone(s) \/ s.nice \notin {"connected", "ready"} \/ ~s.pair)
  BY <1>2, StartDtlsFacts DEF MaybeStartDtls
<1>. QED
  BY <1>1, <1>2

(***************************************************************************)
(* A signalled state, with the handshake started before if it had to be:   *)
(* the StartDtls of OnIceStateChange finds nothing left to do, so that it  *)
(* cannot fail between the tracker and the controller.                     *)
(***************************************************************************)
LEMMA OnIceStateChangeFacts ==
    ASSUME NEW p \in Peers, NEW s, Base(p, s), NEW st \in NiceStates, NEW ok \in BOOLEAN,
           ~s.closed => (s.iceReady <=> s.usable), s.failed => st = "failed",
           st = "ready" => s.started \/ Gone(s),
           NEW e, e = OnIceStateChange(p, s, st, ok)
    PROVE  Sound(p, e) /\ Kept(s, e) /\ e.failed = s.failed
<1>1. CASE s.closed
  BY <1>1 DEF OnIceStateChange, Sound, Tracked, Kept
<1>2. CASE ~s.closed
  <2>1. PICK t : t = Track(s, st)
    OBVIOUS
  <2>2. /\ Base(p, t) /\ (t.usable <=> (st = "ready" \/ (s.usable /\ st \notin Down)))
        /\ t.iceReady = s.iceReady /\ Kept(s, t) /\ t.failed = s.failed /\ t.started = s.started
    BY <2>1, TrackFacts
  <2>3. st = "ready" => StartDtls(p, t, ok) = t
    BY <2>2 DEF StartDtls, Gone, Kept
  <2>4. e = Publish(t, st, s.usable) /\ s.usable \in BOOLEAN
    BY <1>2, <2>1, <2>3 DEF OnIceStateChange, Base, SideType
  <2>5. /\ Base(p, e) /\ (e.iceReady <=> e.usable) /\ (e.usable <=> t.usable)
        /\ Kept(t, e) /\ e.failed = t.failed
    BY <1>2, <2>2, <2>4, PublishFacts
  <2>6. Tracked(e)
    BY <2>2, <2>5 DEF Tracked, Down
  <2>. QED
    BY <2>2, <2>5, <2>6 DEF Sound, Kept
<1>. QED
  BY <1>1, <1>2

LEMMA OnNiceStateChangedFacts ==
    ASSUME NEW p \in Peers, NEW s, Sound(p, s), NEW st \in NiceStates, NEW ok \in BOOLEAN,
           st = "ready" => s.failed \/ (s.pair /\ s.nice \in {"connected", "ready"}),
           NEW e, e = OnNiceStateChanged(p, s, st, ok)
    PROVE  Sound(p, e) /\ Kept(s, e) /\ Silent(s, e) /\ (st = "failed" => e.failed)
<1>1. PICK t : t = MaybeStartDtls(p, s, ok)
  OBVIOUS
<1>2. /\ Sound(p, t) /\ Kept(s, t) /\ Silent(s, t)
      /\ s.pair /\ s.nice \in {"connected", "ready"} => t.started \/ Gone(t)
  BY <1>1, MaybeStartDtlsFacts
<1>3. CASE t.failed
  BY <1>1, <1>2, <1>3 DEF OnNiceStateChanged
<1>4. CASE ~t.failed
  <2>1. PICK u : u = IF st = "failed" THEN [t EXCEPT !.failed = TRUE, !.timer = FALSE] ELSE t
    OBVIOUS
  <2>2. /\ Base(p, u) /\ (~u.closed => (u.iceReady <=> u.usable)) /\ Kept(t, u)
        /\ (u.failed <=> st = "failed") /\ (st # "failed" => u = t)
    <3>1. CASE st = "failed"
      <4>1. u \in SideType
        BY ZenonT(40), <1>2, <2>1, <3>1 DEF Sound, Base, SideType
      <4>. QED
        BY <1>2, <2>1, <3>1, <4>1 DEF Sound, Base, SideType, Kept, Queues, MediaDecided, Certified,
                                      Ended, Tracked
    <3>2. CASE st # "failed"
      BY <1>2, <1>4, <2>1, <3>2 DEF Sound, Tracked, Kept
    <3>. QED
      BY <3>1, <3>2
  <2>3. e = OnIceStateChange(p, u, st, ok)
    BY <1>1, <1>4, <2>1 DEF OnNiceStateChanged
  <2>4. st = "ready" => u.started \/ Gone(u)
    BY <1>2, <1>4, <2>2 DEF Silent
  <2>5. Sound(p, e) /\ Kept(u, e) /\ e.failed = u.failed
    BY <2>2, <2>3, <2>4, OnIceStateChangeFacts
  <2>. QED
    BY <1>2, <1>4, <2>2, <2>5 DEF Kept, Silent
<1>. QED
  BY <1>3, <1>4

LEMMA OnNiceRecvFacts ==
    ASSUME NEW p \in Peers, NEW s, Sound(p, s), NEW f, NEW ok \in BOOLEAN, NEW b \in BOOLEAN,
           NEW e, e = OnNiceRecv(p, s, f, ok, b)
    PROVE  Sound(p, e) /\ Kept(s, e) /\ Silent(s, e)
<1>1. CASE Gone(s)
  BY <1>1 DEF OnNiceRecv, Kept, Silent
<1>2. CASE ~Gone(s) /\ ~s.started
  <2>1. PICK n \in Int : n = IF s.early < MaxEarly THEN s.early + 1 ELSE s.early
    BY DEF Sound, Base, SideType
  <2>2. e = [s EXCEPT !.early = n]
    BY <1>2, <2>1 DEF OnNiceRecv
  <2>3. Aside(s, e)
    BY <2>2 DEF Sound, Base, SideType, Aside, Kept
  <2>. QED
    BY <2>3, AsideSound
<1>3. CASE ~Gone(s) /\ s.started
  <2>1. PICK t : t = Ssl(p, s, f)
    OBVIOUS
  <2>2. Aside(s, t)
    BY <2>1, SslAside DEF Sound, Base
  <2>3. Sound(p, t) /\ Kept(s, t) /\ t.failed = s.failed
    BY <2>2, AsideSound
  <2>4. CASE ~Written(t, ok)
    <3>1. PICK u : u = Unwritten(t)
      OBVIOUS
    <3>2. Aside(t, u)
      BY <2>2, <3>1 DEF Aside, SideType, Kept, Unwritten
    <3>3. Sound(p, u) /\ Kept(t, u) /\ u.failed = t.failed
      BY <2>3, <3>2, AsideSound
    <3>4. e = FailDtlsHandshake(u)
      BY <1>3, <2>1, <2>4, <3>1 DEF OnNiceRecv, Receive
    <3>. QED
      BY <1>3, <2>3, <3>3, <3>4, FailDtlsHandshakeFacts DEF Kept, Silent, Gone
  <2>5. CASE Written(t, ok) /\ t.ssl = "finished"
    <3>1. e = CompleteDtlsHandshake(p, t, b)
      BY <1>3, <2>1, <2>5 DEF OnNiceRecv, Receive
    <3>. QED
      BY <1>3, <2>3, <3>1, CompleteDtlsHandshakeFacts DEF Kept, Silent, Gone
  <2>6. CASE Written(t, ok) /\ t.ssl # "finished"
    BY <1>3, <2>1, <2>2, <2>6, AsideSound DEF OnNiceRecv, Receive
  <2>. QED
    BY <2>4, <2>5, <2>6
<1>. QED
  BY <1>1, <1>2, <1>3

LEMMA HandshakeTickFacts ==
    ASSUME NEW p \in Peers, NEW s, Sound(p, s), NEW ok \in BOOLEAN, NEW e, e = HandshakeTick(s, ok)
    PROVE  Sound(p, e) /\ Kept(s, e) /\ Silent(s, e)
<1>1. CASE s.left = 0 \/ (LastFlight(s) # {} /\ ~ok)
  <2>1. PICK t : t = [s EXCEPT !.timer = FALSE]
    OBVIOUS
  <2>2. Aside(s, t)
    BY <2>1 DEF Sound, Base, SideType, Aside, Kept
  <2>3. Sound(p, t) /\ Kept(s, t) /\ t.failed = s.failed /\ t.status = s.status
    BY <2>2, AsideSound DEF Aside
  <2>4. e = t \/ e = FailDtlsHandshake(t)
    BY <1>1, <2>1 DEF HandshakeTick, TimerFailed
  <2>5. e = t => Silent(s, e)
    BY <2>3 DEF Silent
  <2>. QED
    BY <2>3, <2>4, <2>5, FailDtlsHandshakeFacts DEF Kept, Silent
<1>2. CASE ~(s.left = 0 \/ (LastFlight(s) # {} /\ ~ok))
  <2>1. PICK n \in Int : n = IF Calm THEN s.left ELSE s.left - 1
    BY DEF Sound, Base, SideType
  <2>2. PICK y \in SUBSET Int : y = LastFlight(s)
    <3>1. LastFlight(s) \in {{1}, {2}, {3}, {}}
      BY DEF LastFlight
    <3>. QED
      BY <3>1
  <2>3. e = [s EXCEPT !.left = n, !.sent = y]
    BY <1>2, <2>1, <2>2 DEF HandshakeTick
  <2>4. Aside(s, e)
    BY ZenonT(40), <2>3 DEF Sound, Base, SideType, Aside, Kept
  <2>. QED
    BY <2>4, AsideSound
<1>. QED
  BY <1>1, <1>2
-----------------------------------------------------------------------------
(***************************************************************************)
(* The steps.                                                              *)
(***************************************************************************)
\* What libnice has signalled, and what is still to be dispatched: READY is
\* only signalled with a pair selected, and a failure has reached the agent.
Path(s) ==
    /\ s.nice = "ready" => s.pair
    /\ s.nice = "failed" => s.failed
    /\ s.signals # <<>> => s.nice # "connecting"
    /\ \A i \in 1..Len(s.signals) : s.signals[i] = "ready" => s.pair

DInv ==
    /\ side \in [Peers -> SideType]
    /\ match \in [Peers -> BOOLEAN]
    /\ \A p \in Peers : Sound(p, side[p]) /\ Path(side[p])

\* A failure, once reported, is the last report but for the end.
Final(s, e) == s.failed /\ s.status = "failed" => e.status \in {"failed", "closed"}
FinalStep == \A p \in Peers : Final(side[p], side'[p])

LEMMA SilentIsFinal == ASSUME NEW s, NEW e, Silent(s, e) PROVE Final(s, e)
BY DEF Silent, Final

LEMMA KeptPath ==
    ASSUME NEW s, NEW e, Path(s), Kept(s, e), Silent(s, e)
    PROVE  Path(e)
BY DEF Path, Kept, Silent

LEMMA AdvanceInv ==
    ASSUME DInv, NEW p \in Peers, NEW s, Sound(p, s), Path(s), Final(side[p], s),
           NEW inbox, Advance(p, s, inbox)
    PROVE  DInv' /\ FinalStep
<1>1. PICK n \in Int : n = IF s.timer THEN s.left ELSE 0
  BY DEF Sound, Base, SideType
<1>2. PICK e : e = [s EXCEPT !.sent = {}, !.left = n]
  OBVIOUS
<1>3. e \in SideType
  BY <1>2 DEF Sound, Base, SideType
<1>4. Aside(s, e)
  BY <1>2, <1>3 DEF Sound, Base, SideType, Aside, Kept
<1>5. Sound(p, e) /\ Path(e) /\ Final(side[p], e)
  BY <1>4, AsideSound, KeptPath DEF Final, Aside
<1>6. side' = [side EXCEPT ![p] = e] /\ match' = match /\ mode' = mode
  BY <1>1, <1>2 DEF Advance
<1>7. \A q \in Peers : (q = p /\ side'[q] = e) \/ (q # p /\ side'[q] = side[q])
  BY <1>6 DEF DInv
<1>8. \A q \in Peers : Sound(q, side'[q]) /\ Path(side'[q])
  BY <1>5, <1>7 DEF DInv
<1>9. ASSUME NEW q \in Peers PROVE Sound(q, side[q])' /\ Path(side[q])'
  BY <1>6, <1>8 DEF Sound, Base, Tracked, Queues, Settled, MediaDecided, Secure, Certified, Ended,
                    Path
<1>10. side' \in [Peers -> SideType]
  BY <1>3, <1>6 DEF DInv
<1>11. FinalStep
  BY <1>5, <1>7 DEF FinalStep, Final
<1>. QED
  BY <1>6, <1>9, <1>10, <1>11 DEF DInv

LEMMA HandledInv ==
    ASSUME DInv, NEW p \in Peers, NEW e, Sound(p, e), Kept(side[p], e), Silent(side[p], e),
           NEW inbox, Advance(p, e, inbox)
    PROVE  DInv' /\ FinalStep
<1>1. Path(e) /\ Final(side[p], e)
  BY KeptPath, SilentIsFinal DEF DInv
<1>. QED
  BY <1>1, AdvanceInv

LEMMA FateBoolean == ASSUME NEW p, NEW b \in Fate(p) PROVE b \in BOOLEAN
BY DEF Fate

\* e differs from s only in what libnice has signalled and in what the
\* invariant does not speak of.
Signalled(s, e) ==
    /\ e.closed = s.closed /\ e.disabled = s.disabled /\ e.destroyed = s.destroyed
    /\ e.done = s.done /\ e.verified = s.verified /\ e.failed = s.failed
    /\ e.usable = s.usable /\ e.iceReady = s.iceReady /\ e.dtlsReady = s.dtlsReady
    /\ e.mediaReady = s.mediaReady /\ e.status = s.status
    /\ e.pacerTasks = s.pacerTasks /\ e.pacerReady = s.pacerReady
    /\ e.ccTasks = s.ccTasks /\ e.ccReady = s.ccReady

LEMMA SignalledSound ==
    ASSUME NEW p \in Peers, NEW s, Sound(p, s), NEW e \in SideType, Signalled(s, e)
    PROVE  Sound(p, e) /\ Silent(s, e) /\ e.failed = s.failed
BY DEF Signalled, Sound, Base, Silent, Queues, MediaDecided, Certified, Ended, Tracked

LEMMA RechecksFacts ==
    ASSUME NEW p \in Peers, NEW s, Sound(p, s), NEW st \in NiceStates, NEW e, e = Rechecks(s, st)
    PROVE  /\ Sound(p, e) /\ Silent(s, e) /\ e.failed = s.failed /\ e.nice = st
           /\ e.signals = s.signals /\ (e.pair <=> s.pair \/ st = "ready")
<1>1. PICK n \in Int : n = IF s.nice = "ready" /\ st # "failed" THEN s.rechecks + 1 ELSE s.rechecks
  BY DEF Sound, Base, SideType
<1>2. PICK b \in BOOLEAN : b = (s.pair \/ st = "ready")
  OBVIOUS
<1>3. e = [s EXCEPT !.nice = st, !.pair = b, !.rechecks = n]
  BY <1>1, <1>2 DEF Rechecks
<1>4. e \in SideType
  BY ZenonT(40), <1>3 DEF Sound, Base, SideType
<1>5. /\ Signalled(s, e) /\ e.nice = st /\ e.signals = s.signals /\ e.pair = b
  BY <1>3 DEF Sound, Base, SideType, Signalled
<1>. QED
  BY <1>2, <1>4, <1>5, SignalledSound

LEMMA NiceStateInv ==
    ASSUME DInv, NEW p \in Peers, NiceState(p)
    PROVE  DInv' /\ FinalStep
<1>1. PICK st \in NiceStates, ok \in BOOLEAN :
        /\ st = "failed" \/ st \in NiceSteps(side[p].nice)
        /\ Step(p, OnNiceStateChanged(p, Rechecks(side[p], st), st, ok))
  BY FateBoolean DEF NiceState, NiceSteps, NiceStates
<1>2. PICK s : s = Rechecks(side[p], st)
  OBVIOUS
<1>3. PICK e : e = OnNiceStateChanged(p, s, st, ok)
  OBVIOUS
<1>4. /\ Sound(p, s) /\ Silent(side[p], s) /\ s.failed = side[p].failed /\ s.nice = st
      /\ s.signals = side[p].signals /\ (s.pair <=> side[p].pair \/ st = "ready")
  BY <1>2, RechecksFacts DEF DInv
<1>5. Sound(p, e) /\ Kept(s, e) /\ Silent(s, e) /\ (st = "failed" => e.failed)
  BY <1>3, <1>4, OnNiceStateChangedFacts
<1>6. st # "connecting"
  BY <1>1 DEF NiceSteps, NiceStates
<1>7. Path(e)
  BY <1>4, <1>5, <1>6 DEF DInv, Path, Kept
<1>8. Final(side[p], e)
  BY <1>4, <1>5 DEF Silent, Final
<1>. QED
  BY <1>1, <1>2, <1>3, <1>5, <1>7, <1>8, AdvanceInv DEF Step

LEMMA NiceStateElsewhereInv ==
    ASSUME DInv, NEW p \in Peers, NiceStateElsewhere(p)
    PROVE  DInv' /\ FinalStep
<1>1. PICK st \in {"connected", "ready"} :
        Step(p, [Rechecks(side[p], st) EXCEPT !.signals = Append(@, st)])
  BY DEF NiceStateElsewhere, NiceSteps
<1>2. PICK s : s = Rechecks(side[p], st)
  OBVIOUS
<1>3. /\ Sound(p, s) /\ Silent(side[p], s) /\ s.failed = side[p].failed /\ s.nice = st
      /\ s.signals = side[p].signals /\ (s.pair <=> side[p].pair \/ st = "ready")
  BY <1>2, RechecksFacts DEF DInv, NiceStates
<1>4. PICK q \in Seq(NiceStates) : q = Append(s.signals, st)
  <2>1. PICK h \in Seq(NiceStates) : h = s.signals
    BY <1>3 DEF Sound, Base, SideType
  <2>2. st \in NiceStates
    BY DEF NiceStates
  <2>3. Append(h, st) \in Seq(NiceStates)
    BY <2>2
  <2>. QED
    BY <2>1, <2>3
<1>5. PICK e : e = [s EXCEPT !.signals = q]
  OBVIOUS
<1>6. e \in SideType
  BY <1>3, <1>5 DEF Sound, Base, SideType
<1>7. /\ Sound(p, e) /\ Silent(s, e) /\ e.signals = q /\ e.nice = s.nice /\ e.pair = s.pair
      /\ e.failed = s.failed
  <2>1. Signalled(s, e) /\ e.signals = q /\ e.nice = s.nice /\ e.pair = s.pair
    BY <1>3, <1>5 DEF Sound, Base, SideType, Signalled
  <2>. QED
    BY <1>3, <1>6, <2>1, SignalledSound
<1>8. \A i \in 1..Len(q) : q[i] = "ready" => e.pair
  <2>1. \A i \in 1..Len(q) : q[i] = st \/ (i \in 1..Len(s.signals) /\ q[i] = s.signals[i])
    BY <1>3, <1>4 DEF Sound, Base, SideType
  <2>. QED
    BY <1>3, <1>7, <2>1 DEF DInv, Path
<1>9. Path(e) /\ Final(side[p], e)
  BY <1>3, <1>7, <1>8 DEF Path, Silent, Final
<1>. QED
  BY <1>1, <1>2, <1>4, <1>5, <1>7, <1>9, AdvanceInv DEF Step

LEMMA DispatchIceCallbackInv ==
    ASSUME DInv, NEW p \in Peers, DispatchIceCallback(p)
    PROVE  DInv' /\ FinalStep
<1>1. PICK q \in Seq(NiceStates), st \in NiceStates :
        /\ side[p].signals # <<>> /\ q = Tail(side[p].signals) /\ st = Head(side[p].signals)
        /\ \A i \in 1..Len(q) : i + 1 \in 1..Len(side[p].signals) /\ q[i] = side[p].signals[i + 1]
        /\ st = side[p].signals[1] /\ 1 \in 1..Len(side[p].signals)
  <2>1. side[p].signals \in Seq(NiceStates) /\ side[p].signals # <<>>
    BY DEF DInv, SideType, DispatchIceCallback
  <2>2. PICK h \in Seq(NiceStates) : h = side[p].signals /\ h # <<>>
    BY <2>1
  <2>3. Tail(h) \in Seq(NiceStates) /\ Head(h) \in NiceStates /\ Head(h) = h[1] /\ 1 \in 1..Len(h)
    BY <2>2
  <2>4. \A i \in 1..Len(Tail(h)) : i + 1 \in 1..Len(h) /\ Tail(h)[i] = h[i + 1]
    BY <2>2
  <2>. QED
    BY <2>2, <2>3, <2>4
<1>d. PICK d \in SideType : d = side[p]
  BY DEF DInv
<1>2. PICK s : s = [d EXCEPT !.signals = q]
  OBVIOUS
<1>3. s \in SideType
  BY <1>2 DEF SideType
<1>4. /\ Sound(p, s) /\ Silent(side[p], s) /\ s.signals = q /\ s.nice = side[p].nice
      /\ s.pair = side[p].pair /\ s.failed = side[p].failed
  <2>1. Signalled(d, s) /\ s.signals = q /\ s.nice = d.nice /\ s.pair = d.pair
    BY <1>2 DEF SideType, Signalled
  <2>. QED
    BY <1>d, <1>3, <2>1, SignalledSound DEF DInv
<1>5. Path(s)
  BY <1>1, <1>4 DEF DInv, Path
<1>6. st = "ready" => s.failed \/ (s.pair /\ s.nice \in {"connected", "ready"})
  <2>1. s.nice \in NiceStates
    BY <1>3 DEF SideType
  <2>. QED
    BY <1>1, <1>4, <2>1 DEF DInv, Path, NiceStates
<1>7. PICK ok \in BOOLEAN :
        Step(p, IF s.disabled \/ s.destroyed THEN s ELSE OnNiceStateChanged(p, s, st, ok))
  BY <1>1, <1>d, <1>2, FateBoolean DEF DispatchIceCallback
<1>8. PICK e : e = IF s.disabled \/ s.destroyed THEN s ELSE OnNiceStateChanged(p, s, st, ok)
  OBVIOUS
<1>9. Sound(p, e) /\ Kept(s, e) /\ Silent(s, e)
  <2>1. CASE s.disabled \/ s.destroyed
    BY <1>4, <1>8, <2>1 DEF Kept, Silent
  <2>2. CASE ~(s.disabled \/ s.destroyed)
    BY <1>4, <1>6, <1>8, <2>2, OnNiceStateChangedFacts
  <2>. QED
    BY <2>1, <2>2
<1>10. Path(e) /\ Final(side[p], e)
  BY <1>4, <1>5, <1>9, KeptPath DEF Silent, Final
<1>. QED
  BY <1>7, <1>8, <1>9, <1>10, AdvanceInv DEF Step

LEMMA OnNiceSelectedPairInv ==
    ASSUME DInv, NEW p \in Peers, OnNiceSelectedPair(p)
    PROVE  DInv' /\ FinalStep
<1>d. PICK d \in SideType : d = side[p]
  BY DEF DInv
<1>1. PICK s : s = [d EXCEPT !.pair = TRUE]
  OBVIOUS
<1>2. s \in SideType
  BY <1>1 DEF SideType
<1>3. /\ Sound(p, s) /\ Silent(side[p], s) /\ s.signals = side[p].signals
      /\ s.nice = side[p].nice /\ s.pair /\ s.failed = side[p].failed
  <2>1. Signalled(d, s) /\ s.signals = d.signals /\ s.nice = d.nice /\ s.pair
    BY <1>1 DEF SideType, Signalled
  <2>. QED
    BY <1>d, <1>2, <2>1, SignalledSound DEF DInv
<1>4. Path(s)
  BY <1>3 DEF DInv, Path
<1>5. PICK ok \in BOOLEAN : Step(p, MaybeStartDtls(p, s, ok))
  BY <1>d, <1>1, FateBoolean DEF OnNiceSelectedPair
<1>6. PICK e : e = MaybeStartDtls(p, s, ok)
  OBVIOUS
<1>7. Sound(p, e) /\ Kept(s, e) /\ Silent(s, e)
  BY <1>3, <1>6, MaybeStartDtlsFacts
<1>8. Path(e) /\ Final(side[p], e)
  BY <1>3, <1>4, <1>7, KeptPath DEF Silent, Final
<1>. QED
  BY <1>5, <1>6, <1>7, <1>8, AdvanceInv DEF Step

LEMMA DeliverInv ==
    ASSUME DInv, NEW p \in Peers, Deliver(p)
    PROVE  DInv' /\ FinalStep
<1>1. PICK f \in net[p], ok \in BOOLEAN, b \in BOOLEAN :
        Advance(p, OnNiceRecv(p, side[p], f, ok, b), net[p] \ {f})
  BY FateBoolean DEF Deliver
<1>2. PICK e : e = OnNiceRecv(p, side[p], f, ok, b)
  OBVIOUS
<1>3. Sound(p, e) /\ Kept(side[p], e) /\ Silent(side[p], e)
  BY <1>2, OnNiceRecvFacts DEF DInv
<1>. QED
  BY <1>1, <1>2, <1>3, HandledInv

LEMMA TimerTickInv ==
    ASSUME DInv, NEW p \in Peers, TimerTick(p)
    PROVE  DInv' /\ FinalStep
<1>1. PICK ok \in BOOLEAN : Step(p, HandshakeTick(side[p], ok))
  BY FateBoolean DEF TimerTick
<1>2. PICK e : e = HandshakeTick(side[p], ok)
  OBVIOUS
<1>3. Sound(p, e) /\ Kept(side[p], e) /\ Silent(side[p], e)
  BY <1>2, HandshakeTickFacts DEF DInv
<1>. QED
  BY <1>1, <1>2, <1>3, HandledInv DEF Step

(***************************************************************************)
(* The task queues and the end.                                            *)
(***************************************************************************)
LEMMA SettledTail ==
    ASSUME NEW q \in Seq(BOOLEAN), q # <<>>, NEW held, NEW b
    PROVE  /\ Tail(q) \in Seq(BOOLEAN) /\ Head(q) \in BOOLEAN
           /\ Settled(q, held, b) => Settled(Tail(q), Head(q), b)
<1>1. Tail(q) \in Seq(BOOLEAN) /\ Head(q) \in BOOLEAN /\ Len(Tail(q)) = Len(q) - 1
  OBVIOUS
<1>2. Settled(q, held, b) => q[Len(q)] = b
  BY DEF Settled
<1>3. CASE Tail(q) = <<>>
  <2>1. Len(q) = 1
    <3>1. PICK n \in Nat : n = Len(q)
      OBVIOUS
    <3>2. PICK r : r = Tail(q) /\ Len(r) = n - 1 /\ r = <<>>
      BY <1>1, <1>3, <3>1
    <3>3. Len(r) = 0
      BY <3>2
    <3>4. n - 1 = 0
      BY ONLY <3>2, <3>3
    <3>5. n = 1
      <4>1. \A m \in Nat : m - 1 = 0 => m = 1
        OBVIOUS
      <4>. QED
        BY <3>4, <4>1
    <3>. QED
      BY <3>1, <3>5
  <2>. QED
    BY <1>1, <1>2, <1>3, <2>1 DEF Settled
<1>4. CASE Tail(q) # <<>>
  <2>1. Tail(q)[Len(Tail(q))] = q[Len(q)]
    BY <1>1, <1>4
  <2>. QED
    BY <1>1, <1>2, <1>4, <2>1 DEF Settled
<1>. QED
  BY <1>3, <1>4

LEMMA PacerTaskInv ==
    ASSUME DInv, NEW p \in Peers, PacerTask(p)
    PROVE  DInv' /\ FinalStep
<1>1. PICK d \in SideType : d = side[p]
  BY DEF DInv
<1>2. d.pacerTasks \in Seq(BOOLEAN) /\ d.pacerTasks # <<>>
  BY <1>1 DEF SideType, PacerTask
<1>3. PICK q \in Seq(BOOLEAN), b \in BOOLEAN :
        /\ q = Tail(d.pacerTasks) /\ b = Head(d.pacerTasks)
        /\ ~d.destroyed => Settled(q, b, d.mediaReady)
  BY <1>1, <1>2, SettledTail DEF DInv, Sound, Base, Queues
<1>4. PICK e : e = [d EXCEPT !.pacerReady = b, !.pacerTasks = q]
  OBVIOUS
<1>5. e \in SideType
  BY <1>4 DEF SideType
<1>6. /\ Kept(d, e) /\ e.failed = d.failed /\ e.status = d.status
      /\ e.done = d.done /\ e.verified = d.verified
      /\ e.usable = d.usable /\ e.iceReady = d.iceReady /\ e.dtlsReady = d.dtlsReady
      /\ e.mediaReady = d.mediaReady /\ e.pacerTasks = q /\ e.pacerReady = b
      /\ e.ccTasks = d.ccTasks /\ e.ccReady = d.ccReady
  BY <1>4 DEF SideType, Kept
<1>7. Sound(p, d)
  BY <1>1 DEF DInv
<1>8. Sound(p, e) /\ Silent(d, e)
  BY <1>3, <1>5, <1>6, <1>7 DEF Sound, Base, Silent, Queues, MediaDecided, Certified, Ended, Tracked,
                                Kept
<1>. QED
  BY <1>1, <1>3, <1>4, <1>6, <1>8, HandledInv DEF PacerTask, Step

LEMMA CcTaskInv ==
    ASSUME DInv, NEW p \in Peers, CcTask(p)
    PROVE  DInv' /\ FinalStep
<1>1. PICK d \in SideType : d = side[p]
  BY DEF DInv
<1>2. d.ccTasks \in Seq(BOOLEAN) /\ d.ccTasks # <<>>
  BY <1>1 DEF SideType, CcTask
<1>3. PICK q \in Seq(BOOLEAN), b \in BOOLEAN :
        /\ q = Tail(d.ccTasks) /\ b = Head(d.ccTasks)
        /\ ~d.destroyed => Settled(q, b, d.mediaReady)
  BY <1>1, <1>2, SettledTail DEF DInv, Sound, Base, Queues
<1>4. PICK e : e = [d EXCEPT !.ccReady = b, !.ccTasks = q]
  OBVIOUS
<1>5. e \in SideType
  BY <1>4 DEF SideType
<1>6. /\ Kept(d, e) /\ e.failed = d.failed /\ e.status = d.status
      /\ e.done = d.done /\ e.verified = d.verified
      /\ e.usable = d.usable /\ e.iceReady = d.iceReady /\ e.dtlsReady = d.dtlsReady
      /\ e.mediaReady = d.mediaReady /\ e.ccTasks = q /\ e.ccReady = b
      /\ e.pacerTasks = d.pacerTasks /\ e.pacerReady = d.pacerReady
  BY <1>4 DEF SideType, Kept
<1>7. Sound(p, d)
  BY <1>1 DEF DInv
<1>8. Sound(p, e) /\ Silent(d, e)
  BY <1>3, <1>5, <1>6, <1>7 DEF Sound, Base, Silent, Queues, MediaDecided, Certified, Ended, Tracked,
                                Kept
<1>. QED
  BY <1>1, <1>3, <1>4, <1>6, <1>8, HandledInv DEF CcTask, Step

LEMMA DestroyIceTransmissionInv ==
    ASSUME DInv, NEW p \in Peers, DestroyIceTransmission(p)
    PROVE  DInv' /\ FinalStep
<1>1. PICK d \in SideType : d = side[p]
  BY DEF DInv
<1>2. Sound(p, d) /\ Path(d)
  BY <1>1 DEF DInv
<1>3. ASSUME NEW e \in SideType, Sound(p, e), Final(d, e), Step(p, e), e.nice = d.nice,
             e.pair = d.pair, e.signals = d.signals, e.failed = d.failed
      PROVE  DInv' /\ FinalStep
  <2>1. Path(e)
    BY <1>2, <1>3 DEF Path
  <2>. QED
    BY <1>1, <1>3, <2>1, AdvanceInv DEF Step
<1>4. CASE Step(p, CloseTransport(d))
  <2>1. PICK e : e = CloseTransport(d)
    OBVIOUS
  <2>2. e = [d EXCEPT !.closed = TRUE, !.status = "closed"]
    BY <2>1 DEF CloseTransport, Report, SideType
  <2>3. e \in SideType
    BY <2>2 DEF SideType, Statuses
  <2>4. Sound(p, e) /\ Final(d, e)
    BY <1>2, <2>2, <2>3 DEF Sound, Base, SideType, Final, Queues, MediaDecided, Certified, Ended,
                            Tracked
  <2>. QED
    BY ZenonT(40), <1>3, <1>4, <2>1, <2>2, <2>3, <2>4 DEF SideType
<1>5. CASE d.closed /\ Step(p, StopSending(d))
  <2>1. PICK e : e = [d EXCEPT !.disabled = TRUE]
    OBVIOUS
  <2>2. e \in SideType
    BY <2>1 DEF SideType
  <2>3. Sound(p, e) /\ Final(d, e)
    BY ZenonT(60), <1>2, <1>5, <2>1, <2>2 DEF Sound, Base, SideType, Final, Queues, MediaDecided, Certified,
                                  Ended, Tracked
  <2>. QED
    BY <1>3, <1>5, <2>1, <2>2, <2>3 DEF SideType, StopSending
<1>6. CASE d.disabled /\ Step(p, DestroyAgent(d))
  <2>1. PICK e : e = [d EXCEPT !.pacerTasks = <<>>, !.ccTasks = <<>>,
                               !.destroyed = TRUE, !.timer = FALSE]
    OBVIOUS
  <2>2. e \in SideType
    <3>1. <<>> \in Seq(BOOLEAN)
      OBVIOUS
    <3>. QED
      BY <2>1, <3>1 DEF SideType
  <2>3. Sound(p, e) /\ Final(d, e)
    BY <1>2, <1>6, <2>1, <2>2 DEF Sound, Base, SideType, Final, Queues, MediaDecided, Certified,
                                  Ended, Tracked
  <2>. QED
    BY ZenonT(40), <1>3, <1>6, <2>1, <2>2, <2>3 DEF SideType, DestroyAgent
<1>. QED
  BY <1>1, <1>4, <1>5, <1>6 DEF DestroyIceTransmission

LEMMA RestInv ==
    ASSUME DInv, UNCHANGED <<mode, match, side>>
    PROVE  DInv' /\ FinalStep
<1>1. DInv'
  BY DEF DInv, Sound, Base, Tracked, Queues, Settled, MediaDecided, Secure, Certified, Ended, Path
<1>2. FinalStep
  BY DEF FinalStep, Final
<1>. QED
  BY <1>1, <1>2

LEMMA InitDInv == DtInit => DInv
<1>. SUFFICES ASSUME DtInit PROVE DInv
  OBVIOUS
<1>1. NewSide \in SideType
  <2>1. <<FALSE>> \in Seq(BOOLEAN) /\ <<>> \in Seq(BOOLEAN) /\ <<>> \in Seq(NiceStates)
    OBVIOUS
  <2>. QED
    BY <2>1 DEF NewSide, SideType, NiceStates, SslStates, Statuses
<1>2. \A p \in Peers : Sound(p, NewSide)
  BY <1>1 DEF NewSide, Sound, Base, Tracked, Queues, Settled, MediaDecided, Certified, Ended
<1>3. Path(NewSide)
  BY DEF NewSide, Path
<1>. QED
  BY <1>1, <1>2, <1>3 DEF DtInit, DInv

LEMMA NextDInv == DInv /\ [DtNext]_dtVars => DInv' /\ FinalStep
<1>. SUFFICES ASSUME DInv, [DtNext]_dtVars PROVE DInv' /\ FinalStep
  OBVIOUS
<1>1. CASE UNCHANGED dtVars
  BY <1>1, RestInv DEF dtVars
<1>2. CASE \E p \in Peers : Lose(p)
  BY <1>2, RestInv DEF Lose
<1>3. CASE DtNext /\ ~\E p \in Peers : Lose(p)
  BY <1>3, NiceStateInv, NiceStateElsewhereInv, DispatchIceCallbackInv, OnNiceSelectedPairInv,
     DeliverInv, TimerTickInv, PacerTaskInv, CcTaskInv, DestroyIceTransmissionInv DEF DtNext
<1>. QED
  BY <1>1, <1>2, <1>3

\* The invariant holds in every reachable state.
LEMMA DtInvariance == DtSpec => []DInv
  BY InitDInv, NextDInv, PTL DEF DtSpec

(***************************************************************************)
(* Whatever datagrams are lost, repeated or reordered, whatever signals    *)
(* wait and whichever writes fail: UpdateMediaTransportState lets media    *)
(* flow only while the component is usable, no handshake has failed and,   *)
(* under SRTP, the certificate had the fingerprint of the SDP.             *)
(***************************************************************************)
THEOREM MediaPathIsFounded == DtSpec => []MediaIsFounded
<1>1. DInv => MediaIsFounded
  BY DEF DInv, Sound, Base, Tracked, MediaDecided, Certified, MediaIsFounded
<1>. QED
  BY <1>1, DtInvariance, PTL

(***************************************************************************)
(* The tasks UpdateMediaTransportState posts leave the pacer and the       *)
(* congestion controller, once run, with what it decided last, although    *)
(* one of them is posted only on a change.                                 *)
(***************************************************************************)
THEOREM QueuesReachTheDecision == DtSpec => []QueuesAgree
<1>1. DInv => QueuesAgree
  BY DEF DInv, Sound, Base, Queues, Settled, QueuesAgree
<1>. QED
  BY <1>1, DtInvariance, PTL

(***************************************************************************)
(* OnIceStateChange and the handshake report nothing after a failure of    *)
(* the agent has been reported, but the end.                               *)
(***************************************************************************)
THEOREM FailureIsFinal == DtSpec => FailedIsFinal
<1>1. DInv /\ [DtNext]_dtVars =>
        [\A p \in Peers : side[p].failed /\ side[p].status = "failed"
                            => side'[p].status \in {"failed", "closed"}]_dtVars
  BY NextDInv DEF FinalStep, Final
<1>. QED
  BY <1>1, DtInvariance, PTL DEF DtSpec, FailedIsFinal
=============================================================================
