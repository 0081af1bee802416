----------------------------- MODULE BrokerOrders -----------------------------
(***************************************************************************)
(* One user's accounts at the Delta exchange and what is ordered through    *)
(* them: BrokerService (connect_account, disconnect_account, place_order),  *)
(* the order path of the adapter, and StrategyService.process_signal, which *)
(* stores a signal and then orders.                                        *)
(*                                                                         *)
(* A pair of keys is named by the connect that brought it, an account by    *)
(* the connect that inserted it.  What the keys are worth is known to the   *)
(* exchange alone: ValidAt.  An attempt of an order that times out is still *)
(* on its way and may be accepted later; an order with a client_order_id    *)
(* is accepted once, whatever the number of attempts.                      *)
(*                                                                         *)
(* Left out: the other brokers (their client answers at once), balances and *)
(* positions, the risk limits and the key lock (TradeExecution), and the    *)
(* circuit breaker (DeltaCircuit), which here may refuse any order.         *)
(***************************************************************************)
EXTENDS Naturals, FiniteSets

CONSTANTS
    Requests,
    None,
    Workloads,      \* which operation each request may be
    ValidAt,        \* the base URLs at which the keys of a connect are valid
    PlatformKeys,   \* whether settings.delta_api_key is set
    Attempts,       \* delta_retry_attempts
    Faults          \* "exchange": it cannot be reached, or its answer is lost;
                    \* "database": a commit fails, or its answer is lost

Urls == {"primary", "alternate"}
Kinds == {"connect", "disconnect", "order", "signal"}

ASSUME NoneAssumption == None \notin Requests \cup Urls \cup {"platform"}
ASSUME RequestsAssumption == "platform" \notin Requests
ASSUME WorkloadsAssumption == Workloads \subseteq [Requests -> Kinds]
ASSUME ValidAtAssumption == ValidAt \in [Requests -> SUBSET Urls]
ASSUME PlatformAssumption == PlatformKeys \in BOOLEAN
ASSUME AttemptsAssumption == Attempts \in Nat \ {0}
ASSUME FaultsAssumption == Faults \subseteq {"exchange", "database"}

VARIABLES
    kind,        \* which operation each request is
    pc,          \* where it is
    selected,    \* the base URL a connect has chosen, None for the primary one
    loaded,      \* the account a request has loaded, None for no account
    loadedUrl,   \* and its base URL at that moment
    keys,        \* api_key and api_secret of each account, None: no such row
    url,         \* base_url in its metadata_json, None: the primary one
    active,      \* is_active
    stamp,       \* updated_at
    clock,       \* the latest updated_at
    used,        \* the keys and the base URL an order is sent with
    sent,        \* attempts of an order sent to the exchange
    onWire,      \* those the exchange has not seen yet
    accepted,    \* orders the exchange has made of them
    tagged,      \* whether the strategy of the signals exists
    signals,     \* requests whose signal is stored
    trades,      \* requests whose trade is stored
    after        \* history: the requests that had ended when a request began

accountVars == <<keys, url, active, stamp, clock>>
connectVars == <<selected, loaded, loadedUrl>>
exchangeVars == <<used, sent, onWire, accepted>>
recordVars == <<tagged, signals, trades>>
vars == <<kind, pc, accountVars, connectVars, exchangeVars, recordVars, after>>

PCs == {"idle", "validate", "read", "write", "disconnect", "create", "store", "lookup",
        "send", "await", "record", "done", "refused", "failed"}
Credentials == [keys : Requests \cup {"platform", None}, url : Urls]
Unused == [keys |-> None, url |-> "primary"]

Init ==
    /\ kind \in Workloads
    /\ pc = [q \in Requests |-> "idle"]
    /\ selected = [q \in Requests |-> None]
    /\ loaded = [q \in Requests |-> None]
    /\ loadedUrl = [q \in Requests |-> None]
    /\ keys = [a \in Requests |-> None]
    /\ url = [a \in Requests |-> None]
    /\ active = [a \in Requests |-> FALSE]
    /\ stamp = [a \in Requests |-> 0]
    /\ clock = 0
    /\ used = [q \in Requests |-> Unused]
    /\ sent = [q \in Requests |-> 0]
    /\ onWire = [q \in Requests |-> 0]
    /\ accepted = [q \in Requests |-> 0]
    /\ tagged \in BOOLEAN
    /\ signals = {} /\ trades = {}
    /\ after = [q \in Requests |-> {}]

Go(q, step) == pc' = [pc EXCEPT ![q] = step]

(* A commit goes through.  When its answer is lost, or the refresh after it  *)
(* fails, the request ends with an error although everything is written.     *)
Committed(q, step) ==
    \/ Go(q, step)
    \/ "database" \in Faults /\ Go(q, "failed")

Over == {"done", "refused", "failed"}
Ended == {m \in Requests : pc[m] \in Over}
Begin(q) ==
    /\ pc[q] = "idle"
    /\ after' = [after EXCEPT ![q] = Ended]

-----------------------------------------------------------------------------
(* Accounts. *)

Accounts == {a \in Requests : active[a]}

(* get_active_for_user: the account updated last. *)
ActiveForUser ==
    IF Accounts = {} THEN None
    ELSE CHOOSE a \in Accounts : \A b \in Accounts : stamp[b] <= stamp[a]

(* Every UPDATE of the row sets updated_at. *)
Touch(a) == clock' = clock + 1 /\ stamp' = [stamp EXCEPT ![a] = clock + 1]

StartConnect(q) ==
    /\ kind[q] = "connect" /\ Begin(q) /\ Go(q, "validate")
    /\ UNCHANGED <<kind, accountVars, connectVars, exchangeVars, recordVars>>

(* The error of the primary URL is invalid_api_key. *)
UnknownKeys(q) == "primary" \notin ValidAt[q]

(* The balance is fetched with the new keys from the primary URL, and from  *)
(* the alternate one only if the primary one does not know the keys.        *)
Validate(q) ==
    /\ pc[q] = "validate"
    /\ \/ ~UnknownKeys(q) /\ Go(q, "read") /\ UNCHANGED selected
       \/ /\ UnknownKeys(q) /\ "alternate" \in ValidAt[q] /\ Go(q, "read")
          /\ selected' = [selected EXCEPT ![q] = "alternate"]
       \/ (ValidAt[q] = {} \/ "exchange" \in Faults) /\ Go(q, "refused") /\ UNCHANGED selected
    /\ UNCHANGED <<kind, accountVars, loaded, loadedUrl, exchangeVars, recordVars, after>>

(* Faulty variant: nobody looks whether the user has an account. *)
LoadNoAccount(q) ==
    /\ pc[q] = "read" /\ Go(q, "write")
    /\ UNCHANGED <<kind, accountVars, connectVars, exchangeVars, recordVars, after>>

LoadAccount(q) ==
    LET a == ActiveForUser
    IN  /\ pc[q] = "read" /\ Go(q, "write")
        /\ loaded' = [loaded EXCEPT ![q] = a]
        /\ loadedUrl' = [loadedUrl EXCEPT ![q] = IF a = None THEN None ELSE url[a]]
        /\ UNCHANGED <<kind, accountVars, selected, exchangeVars, recordVars, after>>

InsertAccount(q) ==
    /\ loaded[q] = None
    /\ keys' = [keys EXCEPT ![q] = q]
    /\ url' = [url EXCEPT ![q] = selected[q]]
    /\ active' = [active EXCEPT ![q] = TRUE]
    /\ Touch(q)

(* Faulty variant: the keys of the account stay as they are.                *)
UpdateUrlOnly(q) ==
    LET a == loaded[q]
        merged == IF selected[q] = None THEN loadedUrl[q] ELSE selected[q]
    IN  /\ a # None
        /\ url' = [url EXCEPT ![a] = IF merged = loadedUrl[q] THEN @ ELSE merged]
        /\ Touch(a) /\ UNCHANGED <<keys, active>>

(* The metadata that was loaded, with the URL selected now if there is one: *)
(* base_url is never taken out.  Only columns whose value differs from the  *)
(* loaded one are written, and is_active is not among them.                *)
UpdateAccount(q) ==
    LET a == loaded[q]
        merged == IF selected[q] = None THEN loadedUrl[q] ELSE selected[q]
    IN  /\ a # None
        /\ keys' = [keys EXCEPT ![a] = q]
        /\ url' = [url EXCEPT ![a] = IF merged = loadedUrl[q] THEN @ ELSE merged]
        /\ Touch(a) /\ UNCHANGED active

ConnectAccount(q) ==
    /\ pc[q] = "write" /\ Committed(q, "done")
    /\ InsertAccount(q) \/ UpdateAccount(q)
    /\ UNCHANGED <<kind, connectVars, exchangeVars, recordVars, after>>

(* The row of an account the user has been shown, loaded and looked at. *)
StartDisconnect(q) ==
    /\ kind[q] = "disconnect" /\ Begin(q)
    /\ \E a \in Requests :
         /\ keys[a] # None
         /\ loaded' = [loaded EXCEPT ![q] = a]
         /\ Go(q, IF active[a] THEN "disconnect" ELSE "refused")
    /\ UNCHANGED <<kind, accountVars, selected, loadedUrl, exchangeVars, recordVars>>

DisconnectAccount(q) ==
    /\ pc[q] = "disconnect" /\ Committed(q, "done")
    /\ active' = [active EXCEPT ![loaded[q]] = FALSE]
    /\ Touch(loaded[q])
    /\ UNCHANGED <<kind, keys, url, connectVars, exchangeVars, recordVars, after>>

-----------------------------------------------------------------------------
(* Orders, with the key of the client, and signals, without one. *)

Keyed(q) == kind[q] = "order"

StartOrder(q) ==
    /\ kind[q] = "order" /\ Begin(q) /\ Go(q, "lookup")
    /\ UNCHANGED <<kind, accountVars, connectVars, exchangeVars, recordVars>>

(* The strategy of the tag is found, or will be created with the signal. *)
StartSignal(q) ==
    /\ kind[q] = "signal" /\ Begin(q) /\ Go(q, IF tagged THEN "store" ELSE "create")
    /\ UNCHANGED <<kind, accountVars, connectVars, exchangeVars, recordVars>>

(* Committed before the order; below a confidence of 0.6 there is none.  Of *)
(* two signals that both create the strategy the unique tag refuses one.    *)
StoreSignal(q) ==
    /\ \/ /\ pc[q] = "store" \/ (pc[q] = "create" /\ ~tagged)
          /\ \E step \in {"lookup", "done"} : Committed(q, step)
          /\ tagged' = TRUE /\ signals' = signals \cup {q} /\ UNCHANGED trades
       \/ /\ pc[q] = "create" /\ tagged /\ Go(q, "failed")
          /\ UNCHANGED recordVars
    /\ UNCHANGED <<kind, accountVars, connectVars, exchangeVars, after>>

(* The configured URL, unless the account has one of its own. *)
BaseUrl(own) == IF own = None THEN "primary" ELSE own

(* get_active_client: the keys of the account, or the platform's. *)
GetActiveClient(q) ==
    LET a == ActiveForUser
        client == IF a = None THEN [keys |-> "platform", url |-> BaseUrl(None)]
                  ELSE [keys |-> keys[a], url |-> BaseUrl(url[a])]
    IN  /\ pc[q] = "lookup"
        /\ \/ a = None /\ ~PlatformKeys /\ Go(q, "failed") /\ UNCHANGED used
           \/ /\ a # None \/ PlatformKeys
              /\ Go(q, "send") /\ used' = [used EXCEPT ![q] = client]
        /\ UNCHANGED <<kind, accountVars, connectVars, sent, onWire, accepted, recordVars, after>>

(* Before the first attempt: the order is checked, and an open circuit ends *)
(* the call.                                                               *)
RefusedUnsent(q) ==
    /\ pc[q] = "send" /\ sent[q] = 0 /\ Go(q, "failed")
    /\ UNCHANGED <<kind, accountVars, connectVars, exchangeVars, recordVars, after>>

(* One attempt. *)
SendOrder(q) ==
    /\ pc[q] = "send" /\ Go(q, "await")
    /\ sent' = [sent EXCEPT ![q] = @ + 1]
    /\ onWire' = [onWire EXCEPT ![q] = @ + 1]
    /\ UNCHANGED <<kind, accountVars, connectVars, used, accepted, recordVars, after>>

(* The platform's own keys are valid where settings say. *)
Valid(credentials) ==
    credentials.keys \in Requests => credentials.url \in ValidAt[credentials.keys]

(* Faulty variant: the key is not passed on as client_order_id. *)
ReceiveUnkeyed(q) ==
    /\ onWire[q] > 0 /\ onWire' = [onWire EXCEPT ![q] = @ - 1]
    /\ Valid(used[q])
    /\ accepted' = [accepted EXCEPT ![q] = @ + 1]

(* The exchange takes an attempt: a new order, unless it has one under the *)
(* client_order_id already.                                                *)
Receive(q) ==
    /\ onWire[q] > 0 /\ onWire' = [onWire EXCEPT ![q] = @ - 1]
    /\ Valid(used[q])
    /\ accepted' = [accepted EXCEPT ![q] = IF Keyed(q) THEN 1 ELSE @ + 1]

(* An answer that does not hold an order is an error, whatever happened. *)
OrderAnswered(q) ==
    /\ pc[q] = "await" /\ Receive(q)
    /\ \E step \in {"record", "failed"} : Go(q, step)
    /\ UNCHANGED <<kind, accountVars, connectVars, used, sent, recordVars, after>>

(* An error status that is not retried: keys, funds, a key used before. *)
OrderRefused(q) ==
    /\ pc[q] = "await" /\ Go(q, "failed")
    /\ onWire[q] > 0 /\ onWire' = [onWire EXCEPT ![q] = @ - 1]
    /\ UNCHANGED <<kind, accountVars, connectVars, used, sent, accepted, recordVars, after>>

(* Faulty variant: one attempt too many. *)
OrderTimesOutOnceMore(q) ==
    /\ pc[q] = "await"
    /\ Go(q, IF sent[q] <= Attempts THEN "send" ELSE "failed")
    /\ UNCHANGED <<kind, accountVars, connectVars, exchangeVars, recordVars, after>>

(* A timeout, a broken connection or a retryable status: the same body is   *)
(* sent again, or the last attempt's error ends the call.                   *)
OrderTimesOut(q) ==
    /\ "exchange" \in Faults
    /\ pc[q] = "await"
    /\ Go(q, IF sent[q] < Attempts THEN "send" ELSE "failed")
    /\ UNCHANGED <<kind, accountVars, connectVars, exchangeVars, recordVars, after>>

(* The exchange takes an attempt nobody waits for any more. *)
ArrivesLate(q) ==
    /\ Receive(q)
    /\ UNCHANGED <<kind, pc, accountVars, connectVars, used, sent, recordVars, after>>

RecordTrade(q) ==
    /\ pc[q] = "record" /\ Committed(q, "done")
    /\ trades' = trades \cup {q}
    /\ UNCHANGED <<kind, accountVars, connectVars, exchangeVars, tagged, signals, after>>

(* A commit is not carried out: what it would have written is not there. *)
DatabaseFails(q) ==
    /\ "database" \in Faults
    /\ pc[q] \in {"write", "disconnect", "store", "create", "record"}
    /\ Go(q, "failed")
    /\ UNCHANGED <<kind, accountVars, connectVars, exchangeVars, recordVars, after>>

Connect(q) == StartConnect(q) \/ Validate(q) \/ LoadAccount(q) \/ ConnectAccount(q)
Disconnect(q) == StartDisconnect(q) \/ DisconnectAccount(q)
Signal(q) == StartSignal(q) \/ StoreSignal(q)
PlaceOrder(q) ==
    \/ StartOrder(q) \/ GetActiveClient(q) \/ RefusedUnsent(q) \/ SendOrder(q)
    \/ OrderAnswered(q) \/ OrderRefused(q) \/ OrderTimesOut(q) \/ RecordTrade(q)

Next == \E q \in Requests :
    Connect(q) \/ Disconnect(q) \/ Signal(q) \/ PlaceOrder(q) \/ ArrivesLate(q) \/ DatabaseFails(q)

Spec == Init /\ [][Next]_vars

-----------------------------------------------------------------------------
(* Properties. *)

(* Every variable keeps its type; no call sends more than its attempts. *)
TypeOK ==
    /\ kind \in [Requests -> Kinds]
    /\ pc \in [Requests -> PCs]
    /\ selected \in [Requests -> {None, "alternate"}]
    /\ loaded \in [Requests -> Requests \cup {None}]
    /\ loadedUrl \in [Requests -> {None, "alternate"}]
    /\ keys \in [Requests -> Requests \cup {None}]
    /\ url \in [Requests -> {None, "alternate"}]
    /\ active \in [Requests -> BOOLEAN]
    /\ stamp \in [Requests -> Nat] /\ clock \in Nat
    /\ used \in [Requests -> Credentials]
    /\ sent \in [Requests -> 0..Attempts]
    /\ onWire \in [Requests -> 0..Attempts]
    /\ accepted \in [Requests -> 0..Attempts]
    /\ tagged \in BOOLEAN
    /\ signals \subseteq Requests /\ trades \subseteq Requests
    /\ after \in [Requests -> SUBSET Requests]

(* A user has two active accounts only when the two connects overlapped: a  *)
(* connect that begins after another has ended updates its account, whether *)
(* the other was answered or its commit went through unheard.              *)
OneAccountUnlessOverlap ==
    \A a, b \in Accounts : a # b => a \notin after[b]

Overlapped == \E a, b \in Requests :
    /\ keys[a] # None /\ keys[b] # None /\ a # b
    /\ a \notin after[b] /\ b \notin after[a]

(* The account a connect writes to. *)
AccountOf(c) == IF loaded[c] = None THEN c ELSE loaded[c]

(* A disconnect of that very account, which had not ended when the connect  *)
(* began.  Its caller may have been told of an error: the commit counts.   *)
DisconnectedSince(c) == \E d \in Requests :
    /\ kind[d] = "disconnect" /\ pc[d] \in {"done", "failed"}
    /\ loaded[d] = AccountOf(c) /\ d \notin after[c]

(* An order that begins after a connect was answered does not go out with   *)
(* the platform's keys, unless the connect's account is disconnected, by a  *)
(* disconnect that came after the connect or overlapped it; nor with keys   *)
(* the connect replaced, unless two connects overlapped and left two        *)
(* accounts.                                                               *)
KeysAreCurrent ==
    \A q \in Requests : \A c \in after[q] : kind[c] = "connect" /\ pc[c] = "done" =>
        /\ used[q].keys = "platform" => DisconnectedSince(c) /\ ~active[AccountOf(c)]
        /\ used[q].keys \in after[c] => Overlapped

(* What the exchange, the trades and the signals tell of one request fits:  *)
(* one order for a key however often it was sent, a trade only for an order *)
(* that was accepted and no answer without one, and an order for a signal   *)
(* only once the signal is stored.                                         *)
OrdersAccountedFor ==
    \A q \in Requests :
        /\ Keyed(q) => accepted[q] <= 1
        /\ accepted[q] + onWire[q] <= sent[q]
        /\ q \in trades => accepted[q] > 0
        /\ pc[q] = "done" /\ accepted[q] > 0 => q \in trades
        /\ kind[q] = "signal" /\ sent[q] > 0 => q \in signals

(* Keys are sent to a URL at which connect_account has validated them. *)
UsedWhereValidated == \A q \in Requests : Valid(used[q])

=============================================================================
