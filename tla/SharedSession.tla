--------------------------- MODULE SharedSession ---------------------------
(***************************************************************************)
(* What session() of a QUIC outbound promises to the TCP dials that call   *)
(* it, as if it were one atomic step: there is at most one session, made   *)
(* for a caller that asks while there is none and given to everybody who   *)
(* asks while it is up.  A session that is gone never comes back, and once *)
(* the outbound is closed none is made or given any more.  QuicSession     *)
(* implements this specification.                                          *)
(***************************************************************************)
CONSTANTS Caller,   \* who asks for the session
          Session,  \* the sessions that can ever be made
          None      \* no session

VARIABLES
  closed,   \* the outbound has been closed
  session,  \* the session that is up, or None
  used,     \* the sessions made or given up so far
  stage,    \* a caller is "out", "asking" or "using" what it was given
  given     \* the session a caller was given, or None

svars == <<closed, session, used, stage, given>>

SInit ==
  /\ closed = FALSE
  /\ session = None
  /\ used = {}
  /\ stage = [c \in Caller |-> "out"]
  /\ given = [c \in Caller |-> None]

Ask(c) ==
  /\ stage[c] = "out"
  /\ stage' = [stage EXCEPT ![c] = "asking"]
  /\ UNCHANGED <<closed, session, used, given>>

\* A caller is given session s.
Receive(c, s) ==
  /\ stage[c] = "asking" /\ ~closed /\ s # None
  /\ stage' = [stage EXCEPT ![c] = "using"]
  /\ given' = [given EXCEPT ![c] = s]
  /\ UNCHANGED closed

Share(c) == Receive(c, session) /\ UNCHANGED <<session, used>>

\* There is no session: a new one is made, which may be lost at once.
Make(c, s) ==
  /\ session = None
  /\ Receive(c, s)
  /\ session' \in {s, None}
  /\ used' = used \cup {s}

\* The caller ends its use of the session or is refused one.
Leave(c) ==
  /\ stage[c] # "out"
  /\ stage' = [stage EXCEPT ![c] = "out"]
  /\ given' = [given EXCEPT ![c] = None]
  /\ UNCHANGED <<closed, session>>

\* A session that could not be made is used up all the same.
GiveUp(c, s) == stage[c] = "asking" /\ Leave(c) /\ used' = used \cup {s}

Lose ==
  /\ session # None
  /\ session' = None
  /\ UNCHANGED <<closed, used, stage, given>>

Shut ==
  /\ ~closed
  /\ closed' = TRUE
  /\ session' = None
  /\ UNCHANGED <<used, stage, given>>

SNext ==
  \/ \E c \in Caller : \/ Ask(c) \/ Share(c)
                       \/ Leave(c) /\ UNCHANGED used
                       \/ \E s \in Session \ used : Make(c, s) \/ GiveUp(c, s)
  \/ Lose
  \/ Shut

SSpec == SInit /\ [][SNext]_svars
=============================================================================
