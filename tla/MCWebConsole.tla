---------------------------- MODULE MCWebConsole ----------------------------
(* Small instances of WebConsole: what may be submitted to each form.        *)
EXTENDS WebConsole, TLC

CONSTANTS p1, p2

\* The last one is accepted by no form: contact with the fake backend.
Controls == {[fields |-> c, phrase |-> b] : b \in BOOLEAN,
             c \in {[backend |-> "cached_tcp", reader |-> TRUE,  odoo |-> FALSE],
                    [backend |-> "active_tcp", reader |-> TRUE,  odoo |-> FALSE],
                    [backend |-> "cached_tcp", reader |-> TRUE,  odoo |-> TRUE],
                    [backend |-> "fake",       reader |-> FALSE, odoo |-> TRUE],
                    [backend |-> "fake",       reader |-> TRUE,  odoo |-> FALSE]}}

Operationals == {FactoryRow.operational, [batch |-> 50, initial |-> 60, max |-> 30]}

Complete == [method |-> "odoo_session", filled |-> Fields, enabled |-> FALSE, poc |-> TRUE]

\* A complete form with a new credential, one that keeps the credential, which is
\* valid if there was one when the form was loaded, and one that clears it, which
\* is never valid; and a form that clears it with everything else.
Integrations == {[fields |-> Complete, secret |-> TRUE,  clear |-> FALSE],
                 [fields |-> Complete, secret |-> FALSE, clear |-> FALSE],
                 [fields |-> Complete, secret |-> FALSE, clear |-> TRUE],
                 [fields |-> FactoryRow.integration, secret |-> FALSE, clear |-> TRUE]}

\* The change page of the admin site: the settings as the forms may have left
\* them, which is the page saved as it was shown, or over another state; and
\* what no form accepts: both switches on with the fake backend, the longest
\* delay below the initial one, a method whether or not there is a credential.
Admins == {[control     |-> [backend |-> "cached_tcp", reader |-> TRUE, odoo |-> FALSE],
            operational |-> FactoryRow.operational,
            integration |-> Complete, setup |-> TRUE],
           [control     |-> [backend |-> "fake", reader |-> TRUE, odoo |-> TRUE],
            operational |-> [batch |-> 50, initial |-> 60, max |-> 30],
            integration |-> Complete, setup |-> TRUE]}

\* The forms accept 0 to 300 and 1 to 60 seconds, gunicorn waits 45.
Seconds == {1, 60}

Symmetry == Permutations(Processes)

=============================================================================
