--------------------------- MODULE ReservationBook ---------------------------
(***************************************************************************)
(* What the reservation service promises its callers about their writes,   *)
(* without a database, a cache or commands: one book of reservations, and  *)
(* calls that each take effect at most once, at one moment between the     *)
(* request and the reply, on the book as it is at that moment.             *)
(***************************************************************************)
CONSTANTS
    Client,               \* the calls that can overlap
    Id,                   \* the ids there are
    Request,              \* what they may ask for
    Reliable,             \* whether no call ever fails
    None                  \* an absent field of a patch, or no request

VARIABLES
    book,                 \* id -> what the guest is promised
    issued,               \* the ids that were ever given out
    asked,                \* the request of each open call, None between calls
    done,                 \* the open calls that have taken effect
    reply                 \* how each client's latest call ended

vars == <<book, issued, asked, done, reply>>

Writes == {"create", "cancel", "update"}

Init ==
    /\ book = <<>> /\ issued = {}
    /\ asked = [c \in Client |-> None] /\ done = {}
    /\ reply = [c \in Client |-> "none"]

Ask(c) ==
    /\ asked[c] = None
    /\ \E r \in Request : asked' = [asked EXCEPT ![c] = r]
    /\ reply' = [reply EXCEPT ![c] = "none"]
    /\ UNCHANGED <<book, issued, done>>

-----------------------------------------------------------------------------
(* The effect of a request on the book.                                    *)

\* Under an id that nobody had before.
Booked(r, id) ==
    /\ id \notin issued
    /\ issued' = issued \cup {id}
    /\ book' = [i \in DOMAIN book \cup {id} |->
                  IF i = id THEN [name |-> r.name, date |-> r.date, time |-> r.time,
                                  guests |-> r.guests]
                  ELSE book[i]]

Cancelled(r) ==
    /\ r.id \in DOMAIN book
    /\ book' = [i \in DOMAIN book \ {r.id} |-> book[i]]
    /\ UNCHANGED issued

\* The fields that the patch gives, and no others.
Changed(r) ==
    /\ r.id \in DOMAIN book
    /\ book' = [book EXCEPT ![r.id] =
                  [f \in DOMAIN @ |-> IF f = "name" \/ r.patch[f] = None
                                      THEN @[f] ELSE r.patch[f]]]
    /\ UNCHANGED issued

Effect(r) ==
    \/ r.op = "create" /\ \E id \in Id : Booked(r, id)
    \/ r.op = "cancel" /\ Cancelled(r)
    \/ r.op = "update" /\ Changed(r)

-----------------------------------------------------------------------------
\* The call is over.
Close(c, status) ==
    /\ asked' = [asked EXCEPT ![c] = None]
    /\ done'  = done \ {c}
    /\ reply' = [reply EXCEPT ![c] = status]

TakeEffect(c) ==
    /\ asked[c] # None /\ c \notin done
    /\ Effect(asked[c])
    /\ done' = done \cup {c}
    /\ UNCHANGED <<asked, reply>>

\* The same, and the reply with it.
TakeEffectAndReply(c) ==
    /\ asked[c] # None /\ c \notin done
    /\ Effect(asked[c])
    /\ Close(c, "ok")

\* A write that succeeded has taken effect; a read has none.
Succeed(c) ==
    /\ asked[c] # None
    /\ asked[c].op \in Writes => c \in done
    /\ Close(c, "ok")
    /\ UNCHANGED <<book, issued>>

\* A write that is turned down has no effect; a reservation that is there can
\* be cancelled and changed.
TurnDown(c) ==
    /\ asked[c] # None /\ c \notin done
    /\ \/ asked[c].op = "create" /\ \E s \in {"suggested", "unavailable"} : Close(c, s)
       \/ asked[c].op = "cancel" /\ asked[c].id \notin DOMAIN book /\ Close(c, "failed")
       \/ asked[c].op = "update" /\ asked[c].id \notin DOMAIN book /\ Close(c, "notFound")
    /\ UNCHANGED <<book, issued>>

\* After an error the caller does not know whether the call took effect.
Fail(c) ==
    /\ ~Reliable /\ asked[c] # None
    /\ Close(c, "failed")
    /\ UNCHANGED <<book, issued>>

\* Everybody's call is cut off; the book stays.
Crash ==
    /\ ~Reliable
    /\ asked' = [c \in Client |-> None] /\ done' = {}
    /\ reply' = [c \in Client |-> "none"]
    /\ UNCHANGED <<book, issued>>

Next ==
    \/ \E c \in Client : \/ Ask(c) \/ TakeEffect(c) \/ TakeEffectAndReply(c)
                         \/ Succeed(c) \/ TurnDown(c) \/ Fail(c)
    \/ Crash

Spec == Init /\ [][Next]_vars
=============================================================================
