----------------------------- MODULE FeeSchedule -----------------------------
(***************************************************************************)
(* The fee configuration: versions of each fee, the one in force at an      *)
(* instant, and what POST /init and GET /validate-client make of it.        *)
(***************************************************************************)
EXTENDS Integers, Sequences

CONSTANT StaticFees   \* fee key -> [tcsAppId : BOOLEAN, versions : Seq(version)]

(* A version is [from, isVariable, amount]; an activation date or an amount *)
(* that is missing or malformed is Unset.                                   *)
Unset == -1
FeeVersions == [from : Int, isVariable : BOOLEAN, amount : Int]

ASSUME ScheduleAssumption ==
  \A fee \in DOMAIN StaticFees : StaticFees[fee].versions \in Seq(FeeVersions)

NotFound      == [error |-> "FeeNotFoundError"]
Misconfigured == [error |-> "FeeConfigurationError"]
Resolves(fee) == "error" \notin DOMAIN fee

Started(versions, date) == {i \in DOMAIN versions : versions[i].from <= date}

(* Of two versions activated at one instant the first declared wins.        *)
InForce(versions, date) ==
  versions[CHOOSE i \in Started(versions, date) :
             \A j \in Started(versions, date) :
               \/ versions[j].from < versions[i].from
               \/ versions[j].from = versions[i].from /\ i <= j]

ActiveFee(fee, date) ==
  IF fee \notin DOMAIN StaticFees THEN NotFound
  ELSE LET versions == StaticFees[fee].versions IN
    IF \/ ~StaticFees[fee].tcsAppId
       \/ \E i \in DOMAIN versions : versions[i].from = Unset
    THEN Misconfigured
    ELSE IF Started(versions, date) = {} THEN NotFound
    ELSE LET version == InForce(versions, date) IN
      IF ~version.isVariable /\ version.amount = Unset THEN Misconfigured ELSE version

(* What the POST /init of an authorised client answers; 0: it goes on.      *)
FeeForRequest(fee, hasAmount, date) ==
  LET active == ActiveFee(fee, date) IN
    CASE active = NotFound -> 400
      [] active = Misconfigured -> 500
      [] OTHER -> IF hasAmount # active.isVariable THEN 400 ELSE 0

MayCharge(keys, fee) == "*" \in keys \/ fee \in keys

(* GET /validate-client for a client registered with these fee keys.  The   *)
(* keys are tried in the order listed, so when one is unknown and another   *)
(* malformed either answer may come; both refuse.                           *)
(* (slip: one key that resolves is enough)                                  *)
ValidateClientAny(keys, date) ==
  IF \E k \in keys : Resolves(ActiveFee(k, date)) THEN {200} ELSE {403}

ValidateClient(keys, date) ==
  LET failing == {ActiveFee(k, date) : k \in keys} IN
    IF "*" \in keys \/ keys = {} THEN {403}
    ELSE IF \A fee \in failing : Resolves(fee) THEN {200}
    ELSE {403 : fee \in failing \cap {NotFound}}
         \cup {500 : fee \in failing \cap {Misconfigured}}
=============================================================================
