----------------------------- MODULE WebConsole -----------------------------
(***************************************************************************)
(* The web interface of the bridge and the OperationalConfiguration row    *)
(* its pages edit and obey.                                                *)
(*                                                                         *)
(* gunicorn runs several processes, each executes one request at a time.   *)
(* A request passes the middleware, loads the row, and then either saves a *)
(* form or contacts the reader or Odoo on the strength of what it loaded.  *)
(* A ModelForm saves every column of the row it loaded, those of the other *)
(* forms included; only the setup wizard names the columns it saves.       *)
(* Every query is a transaction of its own.                                *)
(*                                                                         *)
(* A request is a POST: what the user typed is a member of the input sets. *)
(* Pages that only read are left out, and SENDER_BACKEND is "disabled".    *)
(***************************************************************************)
EXTENDS Integers, QueuePolicy

CONSTANTS
    Processes,           \* gunicorn worker processes
    ControlInputs,       \* what may be submitted to PocRuntimeControlForm
    OperationalInputs,   \* ... to OperationalConfigurationForm
    IntegrationInputs,   \* ... to OdooIntegrationConfigurationForm
    AdminInputs,         \* ... to the change page of the Django admin site
    EnvReader,           \* settings.ALLOW_PHYSICAL_READER_CONTACT
    EnvOdoo,             \* settings.ALLOW_ODOO_CONTACT
    ScanSeconds,         \* durations asked for in the scan forms
    RequestTimeout,      \* gunicorn --timeout
    RetriesShown         \* bound of RetryComputable: attempt numbers looked at

Backends == {"fake", "cached_tcp", "active_tcp"}
Physical == {"cached_tcp", "active_tcp"}

Methods == {"none", "bearer_token", "basic", "api_key", "odoo_session"}

\* The fields of the Odoo settings that may be left blank.
Fields == {"url", "database", "session", "event", "identifier", "inventory", "location"}

\* Authenticated requests carry the stored credential.
Authenticated == Methods \ {"none"}

ControlFields     == [backend : Backends, reader : BOOLEAN, odoo : BOOLEAN]
OperationalFields == [batch : Nat, initial : Nat, max : Nat]
IntegrationFields == [method : Methods, filled : SUBSET Fields, enabled : BOOLEAN, poc : BOOLEAN]

\* The groups of columns a form edits and has rules for.
Groups == {"control", "operational", "integration"}

\* The columns by the form that edits them; the encrypted credential has none
\* of its own, and setup is edited by the wizard.
Columns == Groups \cup {"secret", "setup"}

\* unchecked is history and no column: the groups whose values were last
\* changed in the admin site, which applies none of the rules.
Rows == [control : ControlFields, operational : OperationalFields,
         integration : IntegrationFields, secret : BOOLEAN, setup : BOOLEAN,
         unchecked : SUBSET Groups]

\* The row as the migrations create it.
FactoryRow ==
    [control     |-> [backend |-> "fake", reader |-> FALSE, odoo |-> FALSE],
     operational |-> [batch |-> 50, initial |-> 30, max |-> 3600],
     integration |-> [method |-> "none", filled |-> {"inventory"}, enabled |-> FALSE, poc |-> FALSE],
     secret      |-> FALSE,
     setup       |-> FALSE,
     unchecked   |-> {}]

Users == {"admin", "operator"}

\* staff_member_required; the other account is an ordinary one.
Staff == {"admin"}

FormPages == {"poc_control_centre", "operational_settings", "odoo_integration_settings",
              "admin_change", "setup_wizard"}
ReaderPages == {"reader_validation", "active_session_scan"}
OdooPages == {"odoo_connection_test", "odoo_inventory_count_poc_manual_test"}
Pages == {"password_change"} \cup FormPages \cup ReaderPages \cup OdooPages

StaffPages == Pages \ {"password_change", "operational_settings", "setup_wizard"}

ASSUME ConsoleAssumption ==
    /\ ControlInputs \subseteq [fields : ControlFields, phrase : BOOLEAN]
    /\ OperationalInputs \subseteq OperationalFields
    /\ IntegrationInputs \subseteq [fields : IntegrationFields, secret : BOOLEAN, clear : BOOLEAN]
    /\ AdminInputs \subseteq [control : ControlFields, operational : OperationalFields,
                              integration : IntegrationFields, setup : BOOLEAN]
    /\ EnvReader \in BOOLEAN /\ EnvOdoo \in BOOLEAN
    /\ ScanSeconds \subseteq Nat /\ RequestTimeout \in Nat
    /\ RetriesShown \in Nat

VARIABLES
    row,         \* OperationalConfiguration "default"
    factory,     \* the account admin still has the password admin
    request,     \* the request each process executes
    delivery,    \* the settings the delivery worker runs with, unchecked or not
    approved,    \* history: switches once enabled with the confirmation phrase
    completed    \* history: the setup wizard has been completed once

vars == <<row, factory, request, delivery, approved, completed>>

\* raced: the row was written by another request since this one loaded it.
Doing(step, page, user, loaded, seconds) ==
    [step |-> step, page |-> page, user |-> user, row |-> loaded,
     seconds |-> seconds, raced |-> FALSE]

Idle == Doing("idle", "none", "none", FactoryRow, 0)

Contacting == {"reading", "authenticating", "counting"}
Steps == {"idle", "admitted", "loaded", "command"} \cup Contacting

\* What the delivery worker takes from the row.
SettingsOf(r) ==
    [settings |-> r.operational, unchecked |-> "operational" \in r.unchecked]

Init ==
    /\ row = FactoryRow
    /\ factory = TRUE
    /\ request = [p \in Processes |-> Idle]
    /\ delivery = SettingsOf(FactoryRow)
    /\ approved = {}
    /\ completed = FALSE

-----------------------------------------------------------------------------
(* The form rules: clean() adds no error.                                  *)

ControlRules(c) == c.reader => c.backend \in Physical

\* Mutant: the phrase is asked for the reader only.
ReaderPhraseOnly(f) ==
    /\ f.fields.reader => f.phrase
    /\ ControlRules(f.fields)

ControlValid(f) ==
    /\ f.fields.reader \/ f.fields.odoo => f.phrase
    /\ ControlRules(f.fields)

OperationalRules(o) ==
    /\ o.batch \in 1 .. 1000
    /\ o.initial >= 1
    /\ o.max >= o.initial

\* has_secret: effective_secret_exists.
IntegrationRules(i, has_secret) ==
    /\ i.method \in Authenticated => has_secret
    /\ i.method \in {"basic", "odoo_session"} => "identifier" \in i.filled
    /\ i.poc => /\ i.method = "odoo_session"
                /\ {"url", "database", "inventory", "location"} \subseteq i.filled
    /\ i.enabled => {"url", "session", "event"} \subseteq i.filled

\* The credential after the save: cleared, replaced, or kept as it was loaded.
SecretAfter(f, loaded) == f.secret \/ (loaded /\ ~f.clear)

IntegrationValid(f, loaded) ==
    /\ ~(f.secret /\ f.clear)
    /\ IntegrationRules(f.fields, SecretAfter(f, loaded))

-----------------------------------------------------------------------------
(* The middleware and the decorators.                                      *)

SetupAllowed == Pages \ ({"active_session_scan", "admin_change"} \cup OdooPages)

\* Mutant: the Odoo pages are allowed before the setup is completed.
AdmittedBeforeSetup(user, page) ==
    /\ user = "admin" /\ factory => page = "password_change"
    /\ page \in StaffPages => user \in Staff

\* A page that is not admitted redirects and changes nothing.
Admitted(user, page) ==
    /\ user = "admin" /\ factory => page = "password_change"
    /\ ~row.setup => page \in SetupAllowed
    /\ page \in StaffPages => user \in Staff

Receive(p, user, page) ==
    /\ request[p].step = "idle"
    /\ Admitted(user, page)
    /\ request' = [request EXCEPT ![p] = Doing("admitted", page, user, FactoryRow, 0)]
    /\ UNCHANGED <<row, factory, delivery, approved, completed>>

At(p, step, page) == request[p].step = step /\ request[p].page = page

\* A form page queries the row; it is saved as part of a later step.
Load(p) ==
    /\ request[p].step = "admitted"
    /\ request[p].page \in FormPages
    /\ request' = [request EXCEPT ![p] = Doing("loaded", request[p].page, "none", row, 0)]
    /\ UNCHANGED <<row, factory, delivery, approved, completed>>

\* The request is answered, with success or with an error message or page.
Respond(p) == request' = [request EXCEPT ![p] = Idle]

\* The view answers without doing anything: the form is not valid, a gate is
\* closed, a setting is missing.
Refuse(p) ==
    /\ request[p].step \in {"admitted", "loaded", "command"}
    /\ Respond(p)
    /\ UNCHANGED <<row, factory, delivery, approved, completed>>

\* The row is written, and the request answered.
Write(p, new) ==
    /\ row' = new
    /\ request' = [q \in Processes |->
                       IF q = p THEN Idle
                       ELSE IF request[q].step \in {"idle", "admitted"} THEN request[q]
                       ELSE [request[q] EXCEPT !.raced = TRUE]]

-----------------------------------------------------------------------------
(* The pages that change something.                                        *)

\* InitialPasswordChangeForm: the password admin does not pass the validators.
ChangePassword(p) ==
    /\ At(p, "admitted", "password_change")
    /\ factory' = (factory /\ request[p].user # "admin")
    /\ Respond(p)
    /\ UNCHANGED <<row, delivery, approved, completed>>

SaveControl(p, f) ==
    /\ At(p, "loaded", "poc_control_centre")
    /\ ControlValid(f)
    /\ Write(p, [request[p].row EXCEPT !.control = f.fields, !.unchecked = @ \ {"control"}])
    /\ approved' = approved \cup {s \in {"reader", "odoo"} : f.phrase /\ f.fields[s]}
    /\ UNCHANGED <<factory, delivery, completed>>

\* Mutant: the form is not bound to the row of the database.
SaveOperationalFresh(p, f) ==
    /\ At(p, "loaded", "operational_settings")
    /\ OperationalRules(f)
    /\ Write(p, [FactoryRow EXCEPT !.operational = f])
    /\ UNCHANGED <<factory, delivery, approved, completed>>

SaveOperational(p, f) ==
    /\ At(p, "loaded", "operational_settings")
    /\ OperationalRules(f)
    /\ Write(p, [request[p].row EXCEPT !.operational = f, !.unchecked = @ \ {"operational"}])
    /\ UNCHANGED <<factory, delivery, approved, completed>>

\* Mutant: a new credential is validated and not saved.
SaveIntegrationOldSecret(p, f) ==
    /\ At(p, "loaded", "odoo_integration_settings")
    /\ IntegrationValid(f, request[p].row.secret)
    /\ Write(p, [request[p].row EXCEPT !.integration = f.fields, !.unchecked = @ \ {"integration"}])
    /\ UNCHANGED <<factory, delivery, approved, completed>>

SaveIntegration(p, f) ==
    /\ At(p, "loaded", "odoo_integration_settings")
    /\ IntegrationValid(f, request[p].row.secret)
    /\ Write(p, [request[p].row EXCEPT !.integration = f.fields,
                                       !.secret = SecretAfter(f, request[p].row.secret),
                                       !.unchecked = @ \ {"integration"}])
    /\ UNCHANGED <<factory, delivery, approved, completed>>

\* The admin site has every editable column on one page and none of the rules:
\* it stores any mixture.  The credential is not editable and saved as it was
\* loaded.
SaveAdmin(p, f) ==
    /\ At(p, "loaded", "admin_change")
    /\ Write(p, [control |-> f.control, operational |-> f.operational,
                 integration |-> f.integration, setup |-> f.setup,
                 secret |-> request[p].row.secret,
                 unchecked |-> request[p].row.unchecked
                                   \cup {g \in Groups : f[g] # request[p].row[g]}])
    /\ UNCHANGED <<factory, delivery, approved, completed>>

\* required_checks of the setup wizard, an enabled reader being configured.
DeploymentReady(r) ==
    /\ {"url", "database", "identifier"} \subseteq r.integration.filled
    /\ r.secret
    /\ r.integration.method = "odoo_session"

\* save(update_fields): the other columns stay as they are in the database.
CompleteSetup(p) ==
    /\ At(p, "loaded", "setup_wizard")
    /\ DeploymentReady(request[p].row)
    /\ Write(p, [row EXCEPT !.setup = TRUE])
    /\ completed' = TRUE
    /\ UNCHANGED <<factory, delivery, approved>>

-----------------------------------------------------------------------------
(* The pages that contact the reader.                                      *)

ReaderAllowed(r) == r.control.reader \/ EnvReader
OdooAllowed(r)   == r.control.odoo \/ EnvOdoo

\* effective_reader_backend, the environment's READER_BACKEND being "fake".
EffectiveBackend(r) ==
    IF r.control.reader THEN r.control.backend
    ELSE IF EnvReader THEN "cached_tcp" ELSE "fake"

\* A contact starts on the strength of the row as it is now: the view reads
\* nothing else between its query and the contact.
Contact(p, step, seconds) ==
    /\ request' = [request EXCEPT ![p] = Doing(step, request[p].page, "none", FactoryRow, seconds)]
    /\ UNCHANGED <<row, factory, delivery, approved, completed>>

\* Mutant: the Odoo switch is not looked at.
TestReaderAnyway(p) ==
    /\ At(p, "admitted", "reader_validation")
    /\ ReaderAllowed(row)
    /\ EffectiveBackend(row) = "cached_tcp"
    /\ \E seconds \in ScanSeconds : Contact(p, "reading", seconds)

\* reader_validation, of an enabled reader in cached mode: the active backend
\* refuses such a reader, the fake one contacts nothing.
TestReader(p) ==
    /\ At(p, "admitted", "reader_validation")
    /\ ReaderAllowed(row)
    /\ ~OdooAllowed(row)
    /\ EffectiveBackend(row) = "cached_tcp"
    /\ \E seconds \in ScanSeconds : Contact(p, "reading", seconds)

\* The gates the view and the command share.
ScanAllowed(r) ==
    /\ ReaderAllowed(r)
    /\ ~OdooAllowed(r)
    /\ ~r.integration.enabled

\* active_session_scan, for an ACTIVE session: the command is called.
CallScan(p) ==
    /\ At(p, "admitted", "active_session_scan")
    /\ row.control.backend = "active_tcp"
    /\ ScanAllowed(row)
    /\ Contact(p, "command", 0)

\* The command loads the row itself and checks the gates again.
RunScan(p) ==
    /\ request[p].step = "command"
    /\ ScanAllowed(row)
    /\ \E seconds \in ScanSeconds : Contact(p, "reading", seconds)

-----------------------------------------------------------------------------
(* The pages that contact Odoo.                                            *)

\* What execute_odoo_connection_test and execute_inventory_count_poc demand of
\* the row they were given.
ConnectionConfigured(r) ==
    /\ r.integration.method = "odoo_session"
    /\ {"url", "session", "database", "identifier"} \subseteq r.integration.filled
    /\ r.secret

CountConfigured(r) ==
    /\ r.integration.poc
    /\ r.integration.method = "odoo_session"
    /\ {"url", "database", "identifier", "inventory", "location"} \subseteq r.integration.filled
    /\ r.secret

Authenticate(p) ==
    /\ \/ At(p, "admitted", "odoo_connection_test") /\ ConnectionConfigured(row)
       \/ At(p, "admitted", "odoo_inventory_count_poc_manual_test") /\ CountConfigured(row)
    /\ OdooAllowed(row)
    /\ Contact(p, "authenticating", 0)

\* The session is open: the inventory test goes on with the same opener.
PostCount(p) ==
    /\ At(p, "authenticating", "odoo_inventory_count_poc_manual_test")
    /\ request' = [request EXCEPT ![p].step = "counting"]
    /\ UNCHANGED <<row, factory, delivery, approved, completed>>

-----------------------------------------------------------------------------
(* The end of a contact.                                                   *)

\* The contact ends in time: with its result, with an error the view reports,
\* or with an exception that becomes an error page (a read timeout of Odoo, a
\* credential that cannot be decrypted).  That gunicorn kills the process during
\* a contact with Odoo has no other effect.
ContactEnds(p) ==
    /\ request[p].step \in Contacting
    /\ request[p].seconds <= RequestTimeout
    /\ Respond(p)
    /\ UNCHANGED <<row, factory, delivery, approved, completed>>

\* gunicorn kills a process whose request takes longer than its timeout, and
\* starts another one.
ProcessKilled(p) ==
    /\ request[p].step \in Contacting
    /\ request[p].seconds > RequestTimeout
    /\ Respond(p)
    /\ UNCHANGED <<row, factory, delivery, approved, completed>>

-----------------------------------------------------------------------------
(* The delivery worker reads its settings once, when it starts.            *)

DeliveryStarts ==
    /\ delivery' = SettingsOf(row)
    /\ UNCHANGED <<row, factory, request, approved, completed>>

PageStep(p) ==
    \/ \E user \in Users, page \in Pages : Receive(p, user, page)
    \/ Load(p) \/ Refuse(p)
    \/ ChangePassword(p)
    \/ \E f \in ControlInputs : SaveControl(p, f)
    \/ \E f \in OperationalInputs : SaveOperational(p, f)
    \/ \E f \in IntegrationInputs : SaveIntegration(p, f)
    \/ \E f \in AdminInputs : SaveAdmin(p, f)
    \/ CompleteSetup(p)
    \/ TestReader(p) \/ CallScan(p) \/ RunScan(p)
    \/ Authenticate(p) \/ PostCount(p)
    \/ ContactEnds(p) \/ ProcessKilled(p)

Next == (\E p \in Processes : PageStep(p)) \/ DeliveryStarts

Spec == Init /\ [][Next]_vars

-----------------------------------------------------------------------------
(* Correctness.                                                            *)

\* The value every variable may take.
TypeOK ==
    /\ row \in Rows
    /\ factory \in BOOLEAN /\ completed \in BOOLEAN
    /\ request \in [Processes -> [step : Steps, page : Pages \cup {"none"},
                                  user : Users \cup {"none"}, row : Rows,
                                  seconds : ScanSeconds \cup {0}, raced : BOOLEAN]]
    /\ delivery \in [settings : OperationalFields, unchecked : BOOLEAN]
    /\ approved \subseteq {"reader", "odoo"}

\* The groups the forms answer for satisfy their rules.
Consistent(r) ==
    /\ "control" \notin r.unchecked => ControlRules(r.control)
    /\ "operational" \notin r.unchecked => OperationalRules(r.operational)
    /\ "integration" \notin r.unchecked => IntegrationRules(r.integration, r.secret)

\* However the saves of forms and admin site interleave, each writing back
\* columns it did not edit, a group of columns in the stored row satisfies the
\* rules of its form unless it was itself changed in the admin site, and no
\* form saved it since.  In particular an authentication method never outlives
\* its credential by a race.  Nothing is said of what the admin site changed:
\* OperationalConfigurationAdmin stores any mixture.
RowConsistent == Consistent(row)

SwitchesApproved(r) ==
    "control" \notin r.unchecked
    => \A s \in {"reader", "odoo"} : r.control[s] => s \in approved

\* A switch that is on, or about to be written back by a form that loaded it,
\* was once switched on with the confirmation phrase, whatever form saved the
\* row since, unless the runtime controls were changed in the admin site, which
\* asks for no phrase, and not saved by their form since.
EnabledWasApproved ==
    /\ SwitchesApproved(row)
    /\ \A p \in Processes : request[p].step = "loaded" => SwitchesApproved(request[p].row)

\* Odoo is contacted from the web interface only after the factory password was
\* changed and the setup completed.
OdooContactAfterSetup ==
    \A p \in Processes :
        request[p].step \in {"authenticating", "counting"} => ~factory /\ completed

\* The reader and Odoo are contacted at the same time only if the settings were
\* saved during one of the contacts: the pages exclude each other by the Odoo
\* switch, which both look at.
ContactsExclude ==
    \A p, q \in Processes :
        /\ request[p].step = "reading"
        /\ request[q].step \in {"authenticating", "counting"}
        => request[p].raced \/ request[q].raced

\* The columns by the page that edits them.
Own == [poc_control_centre        |-> {"control"},
        operational_settings      |-> {"operational"},
        odoo_integration_settings |-> {"integration", "secret"},
        admin_change              |-> {"control", "operational", "integration", "setup"},
        setup_wizard              |-> {"setup"}]

\* A save of one form changes a setting of another form only if that form was
\* saved while this one was being submitted: an edit is lost to a race and
\* never otherwise.
OverwriteNeedsRace ==
    [][\A p \in Processes :
           (request[p].step = "loaded" /\ request'[p].step = "idle" /\ row' # row)
           => \/ request[p].raced
              \/ \A c \in Columns : row'[c] # row[c] => c \in Own[request[p].page]]_vars

\* With settings that the operational form let through, and whatever was saved
\* around them, the delivery worker can compute the delay of every retry, and
\* the delay grows from the initial to the maximum one.  With settings changed
\* in the admin site, a maximum below the initial one for instance,
\* calculate_retry_delay_seconds may raise instead.
RetryComputable ==
    LET initial == delivery.settings.initial
        max     == delivery.settings.max
    IN  ~delivery.unchecked =>
            \A n \in 1 .. RetriesShown :
                /\ RetryDelayDefined(n, initial, max)
                /\ RetryDelay(n, initial, max) \in initial .. max
                /\ RetryDelay(n, initial, max) <= RetryDelay(n + 1, initial, max)

\* forms.py: the confirmation phrase is "Required when enabling physical-reader
\* or Odoo contact."  A switch is turned on only by the form that asks for it.
ContactNeedsPhrase ==
    [][\A s \in {"reader", "odoo"} :
           row'.control[s] /\ ~row.control[s]
           => \E p \in Processes, f \in ControlInputs : f.phrase /\ SaveControl(p, f)]_vars

=============================================================================
