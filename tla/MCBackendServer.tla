---- MODULE MCBackendServer ----
(***************************************************************************)
(* An instance of BackendServer for TLC: what its requests may ask for.    *)
(***************************************************************************)
EXTENDS BackendServer

\* The attribute values of the instance.
value(from, chars, width) == [from |-> from, chars |-> chars, width |-> width]
nothing == [k \in {} |-> value("", 0, 1)]

anyRequest ==
  [method |-> "POST", path |-> <<"devices">>, shape |-> "object", good |-> Fields,
   platform |-> "iOS", pushToken |-> "t1", customerId |-> "A", key |-> None,
   claims |-> nothing, device |-> nothing, context |-> <<>>]

\* Registrations: a new token, a device handed over, a platform without push.
register(customer, token) ==
  [anyRequest EXCEPT !.customerId = customer, !.pushToken = token]
Registrations ==
  { register("A", "t1"), register("A", "t2"), register("B", "t1"),
    [register("A", "t1") EXCEPT !.platform = "Android", !.path = <<"v1", "devices", "">>] }

\* A start: the context wants to be somebody and more than the budget.
start ==
  [anyRequest EXCEPT
     !.path = <<"v1", "calls">>, !.key = "k1",
     !.claims = [k \in {"customerId"} |-> value("claim", 1, 1)],
     !.device = [k \in {"devicePlatform", "locale"} |-> value("device", 1, 1)],
     !.context = << <<"customerId", value("context", 1, 1)>>, <<"x-y", value("context", 1, 1)>>,
                    <<"lastScreen", value("context", 5, 2)>>, <<"tier", value("context", 2, 1)>>,
                    <<"locale", value("context", 2, 1)>>, <<"issueType", value("context", 0, 1)>>,
                    <<"segment", value("context", 1, 1)>> >>]

Others ==
  { [anyRequest EXCEPT !.method = "DELETE", !.path = <<"calls", "c">>],
    [anyRequest EXCEPT !.method = "DELETE", !.path = <<"calls", Malformed>>],
    [anyRequest EXCEPT !.path = <<"calls", "dtmf">>],
    [anyRequest EXCEPT !.path = <<"calls", "outbound", "o", "answer">>],
    [anyRequest EXCEPT !.good = @ \ {"pushToken"}],
    [anyRequest EXCEPT !.shape = "huge"] }

Symmetry == Permutations(Requests)

MCInputs == Registrations \cup {start} \cup Others
====
