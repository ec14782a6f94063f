------------------------------ MODULE Connections ------------------------------
(***************************************************************************)
(* Sending messages between address spaces: the locks of the address       *)
(* spaces, the protocol that brings a connection up, and the writing of a  *)
(* message (scheme/kali/connect.scm, scheme/rts/lock.scm, and the          *)
(* placeholder of scheme/big/placeholder.scm).                             *)
(*                                                                         *)
(* Every address space has, for each other one, a lock, the out-channel of *)
(* the connection and a placeholder for the threads whose attempt to       *)
(* connect was turned down.  It also has one connection server thread,     *)
(* which deals with one client at a time.  A thread can be preempted       *)
(* between any two of the steps below.                                     *)
(***************************************************************************)
EXTENDS Integers, Sequences, FiniteSets

CONSTANTS
  Aspace,        \* the address spaces
  Rank,          \* address-space<: a is superior to b when Rank[a] < Rank[b]
  Sender,        \* threads that call send-message once
  Admin,         \* threads that call send-admin-message once
  Home, Target,  \* of the threads of Sender and Admin
  Server,        \* the connection server thread of each address space
  Connected,     \* are all connections up to begin with?
  NoThread,
  MaxConn        \* bound: attempts to connect

Client == Sender \cup Admin
Thread == Client \cup {Server[a] : a \in Aspace}

ASSUME ConnectionsAssumption ==
  /\ Rank \in [Aspace -> Nat] /\ \A a, b \in Aspace : Rank[a] = Rank[b] => a = b
  /\ Home \in [Client -> Aspace] /\ Target \in [Client -> Aspace]
  /\ \A t \in Client : Home[t] # Target[t]
  /\ \A a, b \in Aspace : Server[a] = Server[b] => a = b
  /\ \A a \in Aspace : Server[a] \notin Client
  /\ NoThread \notin Thread
  /\ Connected \in BOOLEAN /\ MaxConn \in Nat

VARIABLES
  lock,     \* lock[a][b]: a's lock for b, its owner and the queue of threads
  out,      \* out[a][b]: a's out-channel to b, a connection number; 0 if #f
  holder,   \* holder[a][b]: a's placeholder for b: "none", "empty" or "set"
  th,       \* the threads
  backlog,  \* connections the server of an address space has not accepted yet
  answer,   \* answer[t]: what the server wrote to the client t: "none", 0 or 1
  nconn     \* connections opened so far

vars == <<lock, out, holder, th, backlog, answer, nconn>>

home(t) == IF t \in Client THEN Home[t] ELSE CHOOSE a \in Aspace : Server[a] = t
\* The lock and the channel a thread works with.
Lock(t) == lock[home(t)][th[t].peer]
Out(t) == out[home(t)][th[t].peer]
At(t, pc) == th[t].pc = pc
Goto(t, pc) == th' = [th EXCEPT ![t].pc = pc]

Init ==
  /\ lock = [a \in Aspace |-> [b \in Aspace |-> [owner |-> NoThread, queue |-> <<>>]]]
  /\ out = [a \in Aspace |-> [b \in Aspace |-> IF Connected THEN 1 ELSE 0]]
  /\ holder = [a \in Aspace |-> [b \in Aspace |-> "none"]]
  /\ th = [t \in Thread |->
       [pc |-> IF t \in Sender THEN "send" ELSE IF t \in Admin THEN "admin" ELSE "accept",
        then |-> "none", conn |-> 0, client |-> t,
        peer |-> IF t \in Client THEN Target[t] ELSE home(t)]]
  /\ backlog = [a \in Aspace |-> <<>>]
  /\ answer = [t \in Thread |-> "none"]
  /\ nconn = 1

-----------------------------------------------------------------------------
(* Locks.                                                                  *)

SetLock(t, l) == lock' = [lock EXCEPT ![home(t)][th[t].peer] = l]

\* obtain-lock: take a free lock or join the queue, and go on at `then'.
ObtainLock(t, then) ==
  IF Lock(t).owner = NoThread
  THEN SetLock(t, [Lock(t) EXCEPT !.owner = t]) /\ Goto(t, then)
  ELSE /\ SetLock(t, [Lock(t) EXCEPT !.queue = Append(@, t)])
       /\ th' = [th EXCEPT ![t].pc = "blocked", ![t].then = then]

\* Mutant: the next owner is not run.
ReleaseLockSilently(t, then) ==
  /\ SetLock(t, [owner |-> NoThread, queue |-> Lock(t).queue])
  /\ Goto(t, then)

\* release-lock: nobody checks who the owner is; the first thread of the queue
\* becomes the owner and runs.
ReleaseLock(t, then) ==
  LET q == Lock(t).queue IN
  IF q = <<>>
  THEN SetLock(t, [owner |-> NoThread, queue |-> <<>>]) /\ Goto(t, then)
  ELSE /\ SetLock(t, [owner |-> Head(q), queue |-> Tail(q)])
       /\ th' = [th EXCEPT ![t].pc = then, ![Head(q)].pc = th[Head(q)].then]

-----------------------------------------------------------------------------
(* Clients.                                                                *)

\* really-send-message gets the lock ...
Send(t) ==
  /\ At(t, "send")
  /\ ObtainLock(t, "check")
  /\ UNCHANGED <<out, holder, backlog, answer, nconn>>

\* ... and connects if there is no connection.
CheckChannel(t) ==
  /\ At(t, "check")
  /\ Goto(t, IF Out(t) = 0 THEN "connect" ELSE "write")
  /\ UNCHANGED <<lock, out, holder, backlog, answer, nconn>>

\* Mutant: the result of maybe-obtain-lock is not looked at.
SendAdminUnlocked(t) ==
  /\ At(t, "admin")
  /\ IF Lock(t).owner = NoThread
     THEN SetLock(t, [Lock(t) EXCEPT !.owner = t])
     ELSE UNCHANGED lock
  /\ Goto(t, IF Out(t) # 0 THEN "write" ELSE "send")
  /\ UNCHANGED <<out, holder, backlog, answer, nconn>>

\* send-admin-message: write at once if the lock is free and there is a
\* connection; otherwise a new thread runs really-send-message.  The lock is
\* taken before the channel is looked at, and kept if there is none.
SendAdmin(t) ==
  /\ At(t, "admin")
  /\ IF Lock(t).owner = NoThread
     THEN SetLock(t, [Lock(t) EXCEPT !.owner = t])
     ELSE UNCHANGED lock
  /\ Goto(t, IF Lock(t).owner = NoThread /\ Out(t) # 0 THEN "write" ELSE "send")
  /\ UNCHANGED <<out, holder, backlog, answer, nconn>>

\* make-connection!: open a socket and say who we are.
Connect(t) ==
  /\ At(t, "connect")
  /\ nconn < MaxConn
  /\ nconn' = nconn + 1
  /\ backlog' = [backlog EXCEPT ![th[t].peer] = Append(@, t)]
  /\ answer' = [answer EXCEPT ![t] = "none"]
  /\ th' = [th EXCEPT ![t].pc = "answer", ![t].conn = nconn + 1, ![t].client = t]
  /\ UNCHANGED <<lock, out, holder>>

\* The server accepted us.
Accepted(t) ==
  /\ At(t, "answer") /\ answer[t] = "0"
  /\ Goto(t, "finish")
  /\ UNCHANGED <<lock, out, holder, backlog, answer, nconn>>

\* retry-connection!: release the lock and wait for the placeholder.
Rejected(t) ==
  /\ At(t, "answer") /\ answer[t] = "1"
  /\ holder' = [holder EXCEPT ![home(t)][th[t].peer] = IF @ = "none" THEN "empty" ELSE @]
  /\ ReleaseLock(t, "await")
  /\ UNCHANGED <<out, backlog, answer, nconn>>

\* When the placeholder has its value: get the lock and make a connection.
Retry(t) ==
  /\ At(t, "await")
  /\ holder[home(t)][th[t].peer] = "set"
  /\ ObtainLock(t, "connect")
  /\ UNCHANGED <<out, holder, backlog, answer, nconn>>

\* Mutants: those who were rejected stay asleep; an old connection is kept.
FinishConnectionSilently(t) ==
  /\ At(t, "finish")
  /\ out' = [out EXCEPT ![home(t)][th[t].peer] = th[t].conn]
  /\ Goto(t, "finished")
  /\ UNCHANGED <<lock, holder, backlog, answer, nconn>>
FinishConnectionOnce(t) ==
  /\ At(t, "finish")
  /\ out' = [out EXCEPT ![home(t)][th[t].peer] = IF t \in Client /\ @ # 0 THEN @ ELSE th[t].conn]
  /\ holder' = [holder EXCEPT ![home(t)][th[t].peer] = IF @ = "none" THEN @ ELSE "set"]
  /\ Goto(t, "finished")
  /\ UNCHANGED <<lock, backlog, answer, nconn>>

\* finish-connection!: record the channels and wake those who were rejected ...
FinishConnection(t) ==
  /\ At(t, "finish")
  /\ out' = [out EXCEPT ![home(t)][th[t].peer] = th[t].conn]
  /\ holder' = [holder EXCEPT ![home(t)][th[t].peer] = IF @ = "none" THEN @ ELSE "set"]
  /\ Goto(t, "finished")
  /\ UNCHANGED <<lock, backlog, answer, nconn>>

\* ... release the lock, and return to the caller: the connection server's loop,
\* its rejecting branch, or really-send-message.
ReturnTo(t) == IF t \in Client THEN "write"
               ELSE IF th[t].client = t THEN "unlock" ELSE "accept"

Finished(t) ==
  /\ At(t, "finished")
  /\ ReleaseLock(t, ReturnTo(t))
  /\ UNCHANGED <<out, holder, backlog, answer, nconn>>

\* just-send-message: channel-write may need several writes, with waits between.
BeginWrite(t) ==
  /\ At(t, "write")
  /\ th' = [th EXCEPT ![t].pc = "writing", ![t].conn = Out(t)]
  /\ UNCHANGED <<lock, out, holder, backlog, answer, nconn>>

\* Mutant: the lock is not released after writing.
EndWriteKeepingLock(t) ==
  /\ At(t, "writing")
  /\ Goto(t, "done")
  /\ UNCHANGED <<lock, out, holder, backlog, answer, nconn>>
EndWrite(t) ==
  /\ At(t, "writing")
  /\ Goto(t, "unlock")
  /\ UNCHANGED <<lock, out, holder, backlog, answer, nconn>>

Unlock(t) ==
  /\ At(t, "unlock")
  /\ ReleaseLock(t, IF t \in Client THEN "done" ELSE "accept")
  /\ UNCHANGED <<out, holder, backlog, answer, nconn>>

-----------------------------------------------------------------------------
(* The connection server: server-make-connection!.                         *)

\* Read who the next client is.  A superior one gets the lock in any case ...
Accept(s) ==
  LET here == home(s)
      client == Head(backlog[here])
  IN  /\ At(s, "accept") /\ backlog[here] # <<>>
      /\ backlog' = [backlog EXCEPT ![here] = Tail(@)]
      /\ th' = [th EXCEPT ![s] = [@ EXCEPT
           !.pc = IF Rank[home(client)] < Rank[here] THEN "superior" ELSE "inferior",
           !.peer = home(client), !.client = client, !.conn = th[client].conn]]
      /\ UNCHANGED <<lock, out, holder, answer, nconn>>

AcceptSuperior(s) ==
  /\ At(s, "superior")
  /\ ObtainLock(s, "welcome")
  /\ UNCHANGED <<out, holder, backlog, answer, nconn>>

\* ... another one only if it is free; if not it is rejected.
AcceptInferior(s) ==
  /\ At(s, "inferior")
  /\ IF Lock(s).owner = NoThread
     THEN /\ SetLock(s, [Lock(s) EXCEPT !.owner = s])
          /\ Goto(s, "welcome")
          /\ UNCHANGED answer
     ELSE /\ answer' = [answer EXCEPT ![th[s].client] = "1"]
          /\ Goto(s, "reject")
          /\ UNCHANGED lock
  /\ UNCHANGED <<out, holder, backlog, nconn>>

Welcome(s) ==
  /\ At(s, "welcome")
  /\ answer' = [answer EXCEPT ![th[s].client] = "0"]
  /\ Goto(s, "finish")
  /\ UNCHANGED <<lock, out, holder, backlog, nconn>>

\* Having rejected a client the server makes the connection itself, if there is
\* none by the time it gets the lock.
Reject(s) ==
  /\ At(s, "reject")
  /\ ObtainLock(s, "recheck")
  /\ UNCHANGED <<out, holder, backlog, answer, nconn>>

Recheck(s) ==
  /\ At(s, "recheck")
  /\ Goto(s, IF Out(s) = 0 THEN "connect" ELSE "unlock")
  /\ UNCHANGED <<lock, out, holder, backlog, answer, nconn>>

-----------------------------------------------------------------------------
Common(t) ==
  \/ Connect(t) \/ Accepted(t) \/ Rejected(t) \/ Retry(t)
  \/ FinishConnection(t) \/ Finished(t) \/ Unlock(t)
ClientStep(t) ==
  Send(t) \/ CheckChannel(t) \/ SendAdmin(t) \/ BeginWrite(t) \/ EndWrite(t)
ServerStep(s) ==
  \/ Accept(s) \/ AcceptSuperior(s) \/ AcceptInferior(s) \/ Welcome(s)
  \/ Reject(s) \/ Recheck(s)

Next ==
  \/ \E t \in Thread : Common(t)
  \/ \E t \in Client : ClientStep(t)
  \/ \E a \in Aspace : ServerStep(Server[a])

\* The scheduler is round-robin: a thread that can run does.
Fairness ==
  /\ \A t \in Client : WF_vars(Common(t) \/ ClientStep(t))
  /\ \A a \in Aspace : WF_vars(Common(Server[a]) \/ ServerStep(Server[a]))

Spec == Init /\ [][Next]_vars
FairSpec == Spec /\ Fairness

-----------------------------------------------------------------------------
(* Properties.                                                             *)

Pcs == {"send", "admin", "blocked", "check", "connect", "answer", "await", "finish",
        "finished", "write", "writing", "unlock", "done", "accept", "superior",
        "inferior", "welcome", "reject", "recheck"}

\* The shape of every variable.
TypeOK ==
  /\ \A a, b \in Aspace : /\ lock[a][b].owner \in Thread \cup {NoThread}
                          /\ lock[a][b].queue \in Seq(Thread)
                          /\ out[a][b] \in 0 .. nconn
                          /\ holder[a][b] \in {"none", "empty", "set"}
  /\ \A t \in Thread : /\ th[t].pc \in Pcs
                        /\ th[t].conn \in 0 .. nconn
                        /\ answer[t] \in {"none", "0", "1"}
  /\ \A a \in Aspace : backlog[a] \in Seq(Thread)
  /\ nconn \in 1 .. MaxConn - 1      \* the bound is never reached

\* Two threads that write to the same connection mix the bytes of two messages
\* (channel-write waits between writes); the lock is there to prevent it.
MessagesIntact ==
  \A t, u \in Client :
    /\ At(t, "writing") /\ At(u, "writing")
    /\ home(t) = home(u) /\ th[t].peer = th[u].peer /\ th[t].conn = th[u].conn
    => t = u

\* When nothing is going on the two ends of a connection agree on it.
Quiet == /\ \A t \in Client : At(t, "done")
         /\ \A a \in Aspace : At(Server[a], "accept") /\ backlog[a] = <<>>
ChannelsAgree == Quiet => \A a, b \in Aspace : out[a][b] = out[b][a]

\* When nothing is going on every lock is free.
LocksReturned ==
  Quiet => \A a, b \in Aspace : lock[a][b].owner = NoThread

\* connect.scm:252, 297: the locks, the two servers and the placeholders do not
\* wait for one another for ever; every message that is sent gets written.
MessagesSent == \A t \in Client : <>At(t, "done")

\* What sending promises, on connections that are up: the detailed program
\* implements MessageStreams (connect.scm:243-311).
streamState ==
  [t \in Client |-> CASE At(t, "writing") -> "writing"
                      [] At(t, "unlock") \/ At(t, "done") -> "sent"
                      [] OTHER -> "unsent"]
Streams == INSTANCE MessageStreams WITH From <- Home, To <- Target, state <- streamState
ImplementsStreams == Streams!Spec
================================================================================
