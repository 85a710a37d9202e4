------------------------------ MODULE MCDashboard ------------------------------
(* Instances of Dashboard for TLC. *)
EXTENDS Dashboard

\* The clock is set forward or back by a second.
Corrections == {-1, 1}

Nobody == [kind |-> "none", role |-> "nobody", exp |-> 0]
Token(role, exp) == [kind |-> "token", role |-> role, exp |-> exp]

View1 == [kind |-> "view", text |-> "plain", dry |-> FALSE, approved |-> FALSE, asks |-> TRUE,
          agent |-> "voice", permission |-> TRUE, titled |-> FALSE, input |-> TextOnly, credential |-> Nobody]

Texts == {"plain", "injection", "rm -rf", "../.env", "password", "password=x", "sk-1", "preference"}
Inputs == {TextOnly, [TextOnly EXCEPT !.unknown = 6], [TextOnly EXCEPT !.rate = 300],
           [TextOnly EXCEPT !.rate = 120, !.weak = TRUE, !.authenticated = FALSE]}

Work ==
       {[View1 EXCEPT !.kind = "execute", !.text = t, !.dry = d, !.approved = ~d, !.agent = a] :
            t \in {"plain", "rm -rf", "password"}, d \in BOOLEAN, a \in {"voice"}}
  \cup {[View1 EXCEPT !.kind = "execute", !.text = t] : t \in {"plain", "injection"}}
  \cup {[View1 EXCEPT !.kind = "execute", !.agent = "custom", !.approved = TRUE]}
  \cup {[View1 EXCEPT !.kind = "workflow", !.asks = a, !.approved = b] : a, b \in BOOLEAN}
  \cup {[View1 EXCEPT !.kind = "workflow", !.dry = TRUE]}
  \cup {[View1 EXCEPT !.kind = "save", !.text = t] : t \in {"plain", "preference", "password", "sk-1"}}
  \cup {[View1 EXCEPT !.kind = "save", !.permission = FALSE]}
  \cup {[View1 EXCEPT !.kind = "save", !.text = "password", !.titled = TRUE]}
  \cup {[View1 EXCEPT !.kind = "workflow", !.text = "rm -rf", !.approved = TRUE]}
  \cup {[View1 EXCEPT !.kind = k, !.text = t] : k \in {"search", "store_key"}, t \in {"plain", "password"}}
  \cup {[View1 EXCEPT !.kind = "scan", !.input = i] : i \in Inputs}
  \cup {[View1 EXCEPT !.kind = k] : k \in {"lockdown", "create", "view"}}

\* With authentication: who may call what, while the clock runs.
Watched == {[View1 EXCEPT !.credential = c, !.kind = k] :
              c \in {Nobody, Token("user", 1)}, k \in {"view"}}

MCRequests == [clock |-> Watched, work |-> Work]

Settings == {[load |-> "clock", auth |-> TRUE, secret |-> TRUE, lockdown |-> FALSE]}
       \cup {[load |-> "work", auth |-> FALSE, secret |-> FALSE, lockdown |-> l] : l \in BOOLEAN}
       \cup {[load |-> "work", auth |-> TRUE, secret |-> FALSE, lockdown |-> FALSE]}
================================================================================
