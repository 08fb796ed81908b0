---------------------------- MODULE PaidSessions ----------------------------
(***************************************************************************)
(* Prepaid credits: redeeming a payment, charging and refunding requests.  *)
(*                                                                         *)
(*   norax/commerce/payment_gate.py    SessionStore                        *)
(*   norax/commerce/api_endpoints.py   /api/pay, _paid_service             *)
(*                                                                         *)
(* Each worker process holds a SessionStore over one shared file.  A store *)
(* operation runs under a lock of all workers, so it is one step; requests *)
(* of all workers interleave between their operations.  Writing the file   *)
(* may fail before the replacement or after it (fsync of the directory).   *)
(* Every payment is confirmed on chain, and a request costs one credit.    *)
(***************************************************************************)
EXTENDS Integers, FiniteSets

CONSTANTS
    Workers,
    Payments,       \* transaction hashes
    Requests,       \* concurrent requests for the service
    Credits,        \* what each payment buys
    SessionTtl,     \* SESSION_TTL, in ticks
    MaxTime         \* bound: ticks

ASSUME ConfigAssumption ==
    /\ Credits \in Nat \ {0} /\ SessionTtl \in Nat \ {0} /\ MaxTime \in Nat
    /\ IsFiniteSet(Requests)

VARIABLES
    disk,       \* the session file
    cache,      \* per worker: _sessions and _redeemed_tx_hashes
    fresh,      \* the workers whose _loaded_signature is the file's
    request,
    clock,
    told,       \* history: the tokens handed out
    served,     \* history: requests answered, per payment
    lost,       \* history: charges neither answered nor refunded
    faulted     \* history: a write or read failed, or a process or client went away

vars    == <<disk, cache, fresh, request, clock, told, served, lost, faulted>>
store   == <<disk, cache, fresh>>
history == <<told, served, lost, faulted>>

(* Per payment: the expiry in the token it was redeemed for, 0 if it was   *)
(* not, and the session row with the credits left.  A signed token is      *)
(* determined by its payment and its expiry.                               *)
Expiries == 1..(MaxTime + SessionTtl)
Entries  == [expires : {0} \cup Expiries, credits : 0..Credits, row : BOOLEAN]
Tokens   == [payment : Payments, expires : Expiries]

NotRedeemed == [expires |-> 0, credits |-> 0, row |-> FALSE]
NoToken     == [payment |-> "none", expires |-> 0]
Idle        == [pc |-> "idle", worker |-> "none", token |-> NoToken]
Active      == [pc : {"checked", "running", "refunding"}, worker : Workers, token : Tokens]

TypeOK ==
    /\ disk \in [Payments -> Entries]
    /\ cache \in [Workers -> [Payments -> Entries]]
    /\ fresh \subseteq Workers
    /\ request \in [Requests -> Active \cup {Idle}]
    /\ clock \in 0..MaxTime
    /\ told \subseteq Tokens
    /\ served \in [Payments -> Nat] /\ lost \in [Payments -> Nat]
    /\ faulted \in BOOLEAN

Init ==
    /\ disk = [p \in Payments |-> NotRedeemed]
    /\ cache = [w \in Workers |-> disk]
    /\ fresh = {}
    /\ request = [r \in Requests |-> Idle]
    /\ clock = 0
    /\ told = {} /\ faulted = FALSE
    /\ served = [p \in Payments |-> 0] /\ lost = [p \in Payments |-> 0]

-----------------------------------------------------------------------------
(* SessionStore: loading and persisting *)

Expired(entry) == clock > entry.expires

DropRow(s, p) == [s EXCEPT ![p] = [expires |-> s[p].expires, credits |-> 0, row |-> FALSE]]

(* Expired rows are neither written nor loaded; the redeemed hashes stay.  *)
Current(s) == [p \in Payments |-> IF s[p].row /\ Expired(s[p])
                                    THEN DropRow(s, p)[p] ELSE s[p]]

StaleView(w) == cache[w]                              \* mutant: loaded only once
View(w) == IF w \in fresh THEN cache[w] ELSE Current(disk)

Holds(w, s) == cache' = [cache EXCEPT ![w] = s]

Read(w, s) == Holds(w, s) /\ fresh' = fresh \cup {w} /\ UNCHANGED disk

(* _load fails: the cache is dropped and loaded again the next time. *)
Unreadable(w) == fresh' = fresh \ {w} /\ UNCHANGED <<disk, cache>>

Written(w, new)        == disk' = Current(new) /\ Holds(w, new) /\ fresh' = {w}
Unwritten(w, rollback) == Read(w, rollback)
Unsynced(w, new, rollback) == disk' = Current(new) /\ Holds(w, rollback) /\ fresh' = {}

Fails(w, new, rollback) ==
    Unreadable(w) \/ Unwritten(w, rollback) \/ Unsynced(w, new, rollback)

-----------------------------------------------------------------------------
(* The store's operations *)

Session(w, token) ==
    LET entry == View(w)[token.payment] IN
    IF entry.row /\ entry.expires = token.expires THEN {entry} ELSE {}

Usable(w, token) == \E entry \in Session(w, token) : ~Expired(entry)

(* get, consume and refund find no session, or remove one that expired *)
Absent(w, token) ==
    IF Session(w, token) = {} THEN Read(w, View(w))
    ELSE Written(w, DropRow(View(w), token.payment))

AbsentFails(w, token) ==
    \/ Unreadable(w)
    \/ /\ Session(w, token) # {}
       /\ LET gone == DropRow(View(w), token.payment) IN
            Unwritten(w, gone) \/ Unsynced(w, gone, gone)

RedeemedIfLive(w, p) == View(w)[p].row                \* mutant: forgets old sessions
Redeemed(w, p) == View(w)[p].expires # 0

NewEntry == [expires |-> clock + SessionTtl, credits |-> Credits, row |-> TRUE]

Enough(w, p) == View(w)[p].credits >= 1

Debited(s, p)  == [s EXCEPT ![p].credits = @ - 1]
Credited(s, p) == [s EXCEPT ![p].credits = @ + 1]

Fits(w, p) == View(w)[p].credits + 1 <= Credits

-----------------------------------------------------------------------------
(* /api/pay *)

(* A payment redeemed before yields its session again while that lives. *)
PayAgain(w, p) ==
    /\ Redeemed(w, p)
    /\ Read(w, View(w))
    /\ LET entry == View(w)[p] IN
         told' = IF entry.row /\ ~Expired(entry)
                   THEN told \cup {[payment |-> p, expires |-> entry.expires]} ELSE told
    /\ UNCHANGED <<request, clock, served, lost, faulted>>

Pay(w, p) ==
    /\ ~Redeemed(w, p)
    /\ Written(w, [View(w) EXCEPT ![p] = NewEntry])
    /\ told' = told \cup {[payment |-> p, expires |-> NewEntry.expires]}
    /\ UNCHANGED <<request, clock, served, lost, faulted>>

PayFails(w, p) ==
    /\ \/ Unreadable(w)
       \/ ~Redeemed(w, p) /\ Fails(w, [View(w) EXCEPT ![p] = NewEntry], View(w))
    /\ faulted' = TRUE
    /\ UNCHANGED <<request, clock, told, served, lost>>

-----------------------------------------------------------------------------
(* _paid_service *)

Moves(r, pc) == request' = [request EXCEPT ![r].pc = pc]
Ends(r)      == request' = [request EXCEPT ![r] = Idle]
Loses(p)     == lost' = [lost EXCEPT ![p] = @ + 1]

(* The first get: the session is looked at, not reserved. *)
Check(r, w, token) ==
    /\ request[r] = Idle /\ Usable(w, token)
    /\ Read(w, View(w))
    /\ request' = [request EXCEPT ![r] = [pc |-> "checked", worker |-> w, token |-> token]]
    /\ UNCHANGED <<clock, history>>

CheckRefused(r, w, token) ==
    /\ request[r] = Idle /\ ~Usable(w, token)
    /\ Absent(w, token)
    /\ UNCHANGED <<request, clock, history>>

CheckFails(r, w, token) ==
    /\ request[r] = Idle
    /\ IF Usable(w, token) THEN Unreadable(w) ELSE AbsentFails(w, token)
    /\ faulted' = TRUE
    /\ UNCHANGED <<request, clock, told, served, lost>>

In(r, pc) == request[r].pc = pc

Charge(r) ==
    LET w == request[r].worker  t == request[r].token  p == t.payment IN
    /\ In(r, "checked") /\ Usable(w, t) /\ Enough(w, p)
    /\ Written(w, Debited(View(w), p))
    /\ \/ Moves(r, "running") /\ UNCHANGED history
       \/ (* cancelled while the worker thread charges *)
          Ends(r) /\ Loses(p) /\ faulted' = TRUE /\ UNCHANGED <<told, served>>
    /\ UNCHANGED clock

ChargeRefused(r) ==
    LET w == request[r].worker  t == request[r].token IN
    /\ In(r, "checked")
    /\ \/ ~Usable(w, t) /\ Absent(w, t)
       \/ Usable(w, t) /\ ~Enough(w, t.payment) /\ Read(w, View(w))
    /\ Ends(r)
    /\ UNCHANGED <<clock, history>>

(* A failed charge is reported; written but not synced, it still counts. *)
ChargeFails(r) ==
    LET w == request[r].worker  t == request[r].token  p == t.payment IN
    /\ In(r, "checked")
    /\ \/ ~Usable(w, t) /\ AbsentFails(w, t) /\ UNCHANGED lost
       \/ Unreadable(w) /\ UNCHANGED lost
       \/ Usable(w, t) /\ Enough(w, p) /\ Unwritten(w, View(w)) /\ UNCHANGED lost
       \/ Usable(w, t) /\ Enough(w, p) /\ Unsynced(w, Debited(View(w), p), View(w)) /\ Loses(p)
    /\ Ends(r) /\ faulted' = TRUE
    /\ UNCHANGED <<clock, told, served>>

(* The handler returned and the balance for the answer was read. *)
Answer(r) ==
    LET w == request[r].worker  t == request[r].token IN
    /\ In(r, "running")
    /\ IF Usable(w, t) THEN Read(w, View(w)) ELSE Absent(w, t)
    /\ served' = [served EXCEPT ![t.payment] = @ + 1]
    /\ Ends(r)
    /\ UNCHANGED <<clock, told, lost, faulted>>

(* The handler raised or was cancelled. *)
HandlerFails(r) ==
    /\ In(r, "running")
    /\ Moves(r, "refunding")
    /\ UNCHANGED <<store, clock, history>>

(* The handler returned but the balance could not be read: a failure too.  *)
AnswerFails(r) ==
    LET w == request[r].worker  t == request[r].token IN
    /\ In(r, "running")
    /\ IF Usable(w, t) THEN Unreadable(w) ELSE AbsentFails(w, t)
    /\ Moves(r, "refunding")
    /\ faulted' = TRUE
    /\ UNCHANGED <<clock, told, served, lost>>

Refund(r) ==
    LET w == request[r].worker  t == request[r].token IN
    /\ In(r, "refunding") /\ Usable(w, t) /\ Fits(w, t.payment)
    /\ Written(w, Credited(View(w), t.payment))
    /\ Ends(r)
    /\ UNCHANGED <<clock, history>>

RefundRefused(r) ==
    LET w == request[r].worker  t == request[r].token IN
    /\ In(r, "refunding")
    /\ \/ ~Usable(w, t) /\ Absent(w, t)
       \/ Usable(w, t) /\ ~Fits(w, t.payment) /\ Read(w, View(w))
    /\ Ends(r) /\ Loses(t.payment)
    /\ UNCHANGED <<clock, told, served, faulted>>

RefundFails(r) ==
    LET w == request[r].worker  t == request[r].token  p == t.payment IN
    /\ In(r, "refunding")
    /\ \/ ~Usable(w, t) /\ AbsentFails(w, t) /\ Loses(p)
       \/ Unreadable(w) /\ Loses(p)
       \/ Usable(w, t) /\ Fits(w, p) /\ Unwritten(w, View(w)) /\ Loses(p)
       \/ Usable(w, t) /\ Fits(w, p) /\ Unsynced(w, Credited(View(w), p), View(w))
                                     /\ UNCHANGED lost
    /\ Ends(r) /\ faulted' = TRUE
    /\ UNCHANGED <<clock, told, served>>

-----------------------------------------------------------------------------
(* Environment *)

Outstanding(p) ==
    {r \in Requests : request[r].token.payment = p /\ request[r].pc \in {"running", "refunding"}}

(* A worker dies; a new one takes its place with an empty cache. *)
Crash(w) ==
    /\ fresh' = fresh \ {w}
    /\ request' = [r \in Requests |-> IF request[r].worker = w THEN Idle ELSE request[r]]
    /\ lost' = [p \in Payments |->
                  lost[p] + Cardinality({r \in Outstanding(p) : request[r].worker = w})]
    /\ faulted' = TRUE
    /\ UNCHANGED <<disk, cache, clock, told, served>>

Tick ==
    /\ clock < MaxTime
    /\ clock' = clock + 1
    /\ UNCHANGED <<store, request, history>>

Next ==
    \/ \E w \in Workers, p \in Payments : Pay(w, p) \/ PayAgain(w, p) \/ PayFails(w, p)
    \/ \E r \in Requests, w \in Workers, t \in told :
         Check(r, w, t) \/ CheckRefused(r, w, t) \/ CheckFails(r, w, t)
    \/ \E r \in Requests :
         \/ Charge(r) \/ ChargeRefused(r) \/ ChargeFails(r)
         \/ Answer(r) \/ AnswerFails(r) \/ HandlerFails(r)
         \/ Refund(r) \/ RefundRefused(r) \/ RefundFails(r)
    \/ \E w \in Workers : Crash(w)
    \/ Tick

Spec == Init /\ [][Next]_vars

-----------------------------------------------------------------------------
(* Properties *)

(* A token handed out is the one its payment is redeemed for, on disk and  *)
(* for good: no failed write, other worker, restart or expiry lets a       *)
(* payment buy a second session.                                           *)
OneSessionPerPayment ==
    \A t \in told : disk[t.payment].expires = t.expires

(* Every credit bought is left, charged to a request under way, spent on   *)
(* an answer, or lost; none is spent twice and none reappears.  "Refund on *)
(* failure": without a fault, only the session's expiry takes a charge     *)
(* from a request that was not answered.                                   *)
CreditsConserved ==
    \A p \in Payments :
      LET used == Cardinality(Outstanding(p)) + served[p] + lost[p] IN
      /\ IF disk[p].row THEN disk[p].credits + used = Credits ELSE used <= Credits
      /\ lost[p] > 0 => faulted \/ Expired(disk[p])
=============================================================================
