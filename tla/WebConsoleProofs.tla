-------------------------- MODULE WebConsoleProofs --------------------------
(***************************************************************************)
(* What holds of WebConsole for every set of processes and whatever is     *)
(* typed into the forms and into the change page of the admin site, which  *)
(* checks nothing.                                                         *)
(***************************************************************************)
EXTENDS WebConsole, WellFoundedInduction, TLAPS

RequestType == [step : Steps, page : Pages \cup {"none"}, user : Users \cup {"none"},
                row : Rows, seconds : ScanSeconds \cup {0}, raced : BOOLEAN]

-----------------------------------------------------------------------------
(* The inductive invariant: what holds of a row, of a request and of the   *)
(* row it has loaded.  It is written with the state as parameters, so that *)
(* a lemma can speak of two states at once.                                *)

\* A row w that is stored or will be written back.
GoodRow(w, done, ok) ==
    /\ Consistent(w)
    /\ "control" \notin w.unchecked => \A s \in {"reader", "odoo"} : w.control[s] => s \in ok
    /\ w.setup => done

\* A request r while w is stored, f says that the password is the factory one.
GoodRequest(r, w, f, done, ok) ==
    /\ r.step = "admitted" => /\ r.page \in StaffPages => ~f
                              /\ r.page \notin SetupAllowed => done
    /\ r.step = "loaded" => /\ GoodRow(r.row, done, ok)
                            /\ r.page \in FormPages
                            /\ r.page = "admin_change" => done
                            /\ ~r.raced => r.row = w
    /\ r.step = "command" => r.page = "active_session_scan"
    /\ r.step = "reading" /\ ~r.raced => ~OdooAllowed(w)
    /\ r.step \in {"authenticating", "counting"} => /\ ~f
                                                    /\ done
                                                    /\ ~r.raced => OdooAllowed(w)

\* Settings d of the delivery worker.
GoodSettings(d) == ~d.unchecked => OperationalRules(d.settings)

IInv ==
    /\ TypeOK
    /\ GoodSettings(delivery)
    /\ GoodRow(row, completed, approved)
    /\ \A p \in Processes : GoodRequest(request[p], row, factory, completed, approved)

\* The row as it is created and a process without a request are well-typed.
LEMMA FactoryRowType == FactoryRow \in Rows /\ Idle \in RequestType
  BY ConsoleAssumption DEF Doing, FactoryRow, Rows, ControlFields, OperationalFields, IntegrationFields,
     Backends, Methods, Fields, Groups, Idle, RequestType, Steps, Pages, Users

\* Nothing is demanded of an idle process.
LEMMA IdleIsGood ==
  ASSUME NEW w, NEW f, NEW done, NEW ok
  PROVE  GoodRequest(Idle, w, f, done, ok)
  BY DEF Idle, Doing, GoodRequest

\* The invariant holds of the new installation.
LEMMA InitInv == Init => IInv
<1> SUFFICES ASSUME Init PROVE IInv
  OBVIOUS
<1>1. TypeOK
  <2>1. delivery \in [settings : OperationalFields, unchecked : BOOLEAN]
    BY FactoryRowType DEF Init, SettingsOf, Rows
  <2>2. row \in Rows /\ request \in [Processes -> RequestType]
    BY FactoryRowType DEF Init
  <2> QED
    BY <2>1, <2>2 DEF Init, TypeOK, RequestType
<1>2. GoodRow(row, completed, approved)
  BY DEF Init, GoodRow, Consistent, ControlRules, OperationalRules, IntegrationRules, FactoryRow,
     Authenticated, Methods
<1>3. ASSUME NEW p \in Processes PROVE GoodRequest(request[p], row, factory, completed, approved)
  BY IdleIsGood DEF Init
<1>4. GoodSettings(delivery)
  BY DEF Init, GoodSettings, SettingsOf, OperationalRules, FactoryRow
<1> QED
  BY <1>1, <1>2, <1>3, <1>4 DEF IInv

Becomes(p, r) == request' = [request EXCEPT ![p] = r]

\* A step that does not write the row: one request becomes r, and the history
\* grows.
LEMMA QuietStep ==
  ASSUME IInv, NEW p \in Processes, NEW r \in RequestType,
         Becomes(p, r),
         UNCHANGED <<row, delivery, approved, completed>>,
         factory' \in BOOLEAN, factory' => factory,
         GoodRequest(r, row, factory', completed, approved)
  PROVE  IInv'
<1>1. TypeOK'
  BY DEF Becomes, IInv, TypeOK, RequestType
<1>2. ASSUME NEW q \in Processes
      PROVE  GoodRequest(request[q], row, factory, completed, approved)'
  <2>1. CASE q = p
    BY <2>1 DEF Becomes, IInv, TypeOK, GoodRequest, OdooAllowed
  <2>2. CASE q # p
    BY <2>2 DEF Becomes, IInv, TypeOK, GoodRequest, OdooAllowed
  <2> QED
    BY <2>1, <2>2
<1>3. GoodRow(row, completed, approved)'
  BY DEF IInv, GoodRow, Consistent
<1>4. GoodSettings(delivery)'
  BY DEF IInv, GoodSettings
<1> QED
  BY <1>1, <1>2, <1>3, <1>4 DEF IInv

\* A step that writes the row: the requests that have loaded it are raced.
LEMMA WriteStep ==
  ASSUME IInv, NEW p \in Processes, NEW new \in Rows, Write(p, new),
         UNCHANGED <<factory, delivery>>,
         completed' \in BOOLEAN, completed => completed',
         approved' \subseteq {"reader", "odoo"}, approved \subseteq approved',
         GoodRow(new, completed', approved')
  PROVE  IInv'
<1>1. TypeOK'
  BY FactoryRowType DEF IInv, TypeOK, RequestType, Write
<1>2. ASSUME NEW q \in Processes
      PROVE  GoodRequest(request[q], row, factory, completed, approved)'
  <2>1. CASE q = p
    BY <2>1, IdleIsGood DEF Write
  <2>2. CASE q # p /\ request[q].step \in {"idle", "admitted"}
    BY <2>2 DEF IInv, TypeOK, GoodRequest, Write
  <2>3. CASE q # p /\ request[q].step \notin {"idle", "admitted"}
    <3>1. request'[q] = [request[q] EXCEPT !.raced = TRUE]
      BY <2>3 DEF Write
    <3>2. GoodRow(request[q].row, completed, approved) => GoodRow(request[q].row, completed', approved')
      BY DEF GoodRow
    <3> QED
      BY <2>3, <3>1, <3>2 DEF IInv, TypeOK, GoodRequest
  <2> QED
    BY <2>1, <2>2, <2>3
<1>3. GoodRow(row, completed, approved)'
  BY DEF Write, GoodRow
<1>4. GoodSettings(delivery)'
  BY DEF IInv, GoodSettings
<1> QED
  BY <1>1, <1>2, <1>3, <1>4 DEF IInv

\* What the types say of the fields of the row.
LEMMA RowFields ==
  ASSUME NEW w \in Rows
  PROVE  /\ w = [control |-> w.control, operational |-> w.operational,
                 integration |-> w.integration, secret |-> w.secret, setup |-> w.setup,
                 unchecked |-> w.unchecked]
         /\ w.control \in ControlFields /\ w.operational \in OperationalFields
         /\ w.integration \in IntegrationFields
         /\ w.secret \in BOOLEAN /\ w.setup \in BOOLEAN
         /\ w.unchecked \in SUBSET Groups
  BY DEF Rows

\* A request that begins a step.
LEMMA DoingType ==
  ASSUME NEW step \in Steps, NEW page \in Pages, NEW user \in Users \cup {"none"},
         NEW w \in Rows, NEW seconds \in ScanSeconds \cup {0}
  PROVE  Doing(step, page, user, w, seconds) \in RequestType
  BY DEF Doing, RequestType

\* A request that has begun is for a page.
LEMMA HasPage ==
  ASSUME IInv, NEW p \in Processes
  PROVE  request[p] \in RequestType
  BY DEF IInv, TypeOK, RequestType

-----------------------------------------------------------------------------
(* The steps that do not write the row.                                    *)

\* The invariant is kept when a request arrives,
LEMMA ReceiveStep ==
  ASSUME IInv, NEW p \in Processes, NEW user \in Users, NEW page \in Pages, Receive(p, user, page)
  PROVE  IInv'
<1> DEFINE r == Doing("admitted", page, user, FactoryRow, 0)
<1>1. r \in RequestType /\ r.step = "admitted" /\ r.page = page
  BY FactoryRowType, DoingType DEF Steps, Doing
<1>2. page \in StaffPages => ~factory
  BY DEF Receive, Admitted, Staff, StaffPages, Pages, FormPages, ReaderPages, OdooPages, Users
<1>3. page \notin SetupAllowed => completed
  BY DEF Receive, Admitted, IInv, GoodRow
<1>4. Becomes(p, r) /\ UNCHANGED <<row, factory, delivery, approved, completed>>
  BY DEF Receive, Becomes
<1>5. factory' \in BOOLEAN /\ factory' = factory
  BY <1>4 DEF IInv, TypeOK
<1>6. GoodRequest(r, row, factory', completed, approved)
  BY <1>1, <1>2, <1>3, <1>5 DEF GoodRequest
<1> HIDE DEF r
<1> QED
  BY <1>1, <1>4, <1>5, <1>6, QuietStep

\* when a form page has read the row,
LEMMA LoadStep ==
  ASSUME IInv, NEW p \in Processes, Load(p)
  PROVE  IInv'
<1> DEFINE r == Doing("loaded", request[p].page, "none", row, 0)
<1>1. r \in RequestType /\ r.step = "loaded" /\ r.page = request[p].page /\ r.row = row
  <2>1. request[p].page \in Pages
    BY HasPage DEF Load, Pages
  <2> QED
    BY <2>1, DoingType DEF Steps, IInv, TypeOK, Doing
<1>2. GoodRow(r.row, completed, approved)
  BY <1>1 DEF IInv
<1>3. r.page \in FormPages /\ (r.page = "admin_change" => completed)
  <2>1. request[p].page = "admin_change" => request[p].page \notin SetupAllowed
    BY DEF SetupAllowed
  <2> QED
    BY <1>1, <2>1 DEF Load, IInv, GoodRequest
<1>4. Becomes(p, r) /\ UNCHANGED <<row, factory, delivery, approved, completed>>
  BY DEF Load, Becomes
<1>5. factory' \in BOOLEAN /\ factory' = factory
  BY <1>4 DEF IInv, TypeOK
<1>6. GoodRequest(r, row, factory', completed, approved)
  BY <1>1, <1>2, <1>3, <1>5 DEF GoodRequest
<1> HIDE DEF r
<1> QED
  BY <1>1, <1>4, <1>5, <1>6, QuietStep

\* A request that is answered.
LEMMA RespondStep ==
  ASSUME IInv, NEW p \in Processes, Respond(p), UNCHANGED <<row, delivery, approved, completed>>,
         factory' \in BOOLEAN, factory' => factory
  PROVE  IInv'
<1>1. Idle \in RequestType /\ GoodRequest(Idle, row, factory', completed, approved)
  BY FactoryRowType, IdleIsGood
<1> QED
  BY <1>1, QuietStep DEF Respond, Becomes

\* A contact, or the call of the command: what was demanded of the row holds
\* of the row that is stored.
LEMMA ContactStep ==
  ASSUME IInv, NEW p \in Processes, NEW step \in Steps, NEW seconds \in ScanSeconds \cup {0},
         Contact(p, step, seconds), request[p].page \in Pages,
         step \notin {"admitted", "loaded"},
         step = "command" => request[p].page = "active_session_scan",
         step = "reading" => ~OdooAllowed(row),
         step \in {"authenticating", "counting"} => ~factory /\ completed /\ OdooAllowed(row)
  PROVE  IInv'
<1> DEFINE r == Doing(step, request[p].page, "none", FactoryRow, seconds)
<1>1. r \in RequestType /\ r.step = step /\ r.page = request[p].page /\ r.raced = FALSE
  BY DoingType, FactoryRowType DEF Doing
<1>2. Becomes(p, r) /\ UNCHANGED <<row, factory, delivery, approved, completed>>
  BY DEF Contact, Becomes
<1>3. factory' \in BOOLEAN /\ factory' = factory
  BY <1>2 DEF IInv, TypeOK
<1> HIDE DEF r
<1>4. GoodRequest(r, row, factory', completed, approved)
  BY <1>1, <1>3 DEF GoodRequest
<1> QED
  BY <1>1, <1>2, <1>3, <1>4, QuietStep

\* when the inventory count is posted,
LEMMA PostCountStep ==
  ASSUME IInv, NEW p \in Processes, PostCount(p)
  PROVE  IInv'
<1> DEFINE r == [request[p] EXCEPT !.step = "counting"]
<1>1. request[p] \in RequestType
  BY HasPage
<1>2. /\ r \in RequestType /\ r.step = "counting" /\ r.raced = request[p].raced
      /\ request[p].step = "authenticating"
  BY <1>1 DEF RequestType, Steps, Contacting, PostCount, At
<1>3. Becomes(p, r) /\ UNCHANGED <<row, factory, delivery, approved, completed>>
  BY <1>1 DEF Becomes, PostCount, RequestType, IInv, TypeOK
<1>4. factory' \in BOOLEAN /\ factory' = factory
  BY <1>3 DEF IInv, TypeOK
<1>5. GoodRequest(r, row, factory', completed, approved)
  BY <1>2, <1>4 DEF GoodRequest, IInv
<1> HIDE DEF r
<1> QED
  BY <1>2, <1>3, <1>4, <1>5, QuietStep

-----------------------------------------------------------------------------
(* The steps that write the row.                                           *)

\* when the runtime control form is saved,
LEMMA SaveControlStep ==
  ASSUME IInv, NEW p \in Processes, NEW f \in ControlInputs, SaveControl(p, f)
  PROVE  IInv'
<1> DEFINE w   == request[p].row
           new == [w EXCEPT !.control = f.fields, !.unchecked = @ \ {"control"}]
<1>1. w \in Rows /\ GoodRow(w, completed, approved)
  BY HasPage DEF SaveControl, At, IInv, GoodRequest, RequestType
<1>2. f.fields \in ControlFields
  BY ConsoleAssumption
<1>3. /\ new \in Rows /\ new.control = f.fields /\ new.operational = w.operational
      /\ new.integration = w.integration /\ new.secret = w.secret /\ new.setup = w.setup
      /\ new.unchecked = w.unchecked \ {"control"}
  BY <1>1, <1>2, RowFields DEF Rows
<1>4. Write(p, new) /\ ControlValid(f) /\ UNCHANGED <<factory, delivery, completed>>
  BY DEF SaveControl
<1>5. approved' = approved \cup {s \in {"reader", "odoo"} : f.phrase /\ f.fields[s]}
  BY DEF SaveControl
<1>6. approved' \subseteq {"reader", "odoo"} /\ approved \subseteq approved'
  BY <1>5 DEF IInv, TypeOK
<1>7. \A s \in {"reader", "odoo"} : new.control[s] => s \in approved'
  BY <1>3, <1>4, <1>5 DEF ControlValid
<1>8. Consistent(new)
  BY <1>1, <1>3, <1>4 DEF GoodRow, Consistent, ControlValid
<1>9. new.setup => completed
  BY <1>1, <1>3 DEF GoodRow
<1>10. completed' \in BOOLEAN /\ completed' = completed
  BY <1>4 DEF IInv, TypeOK
<1>11. GoodRow(new, completed', approved')
  BY <1>7, <1>8, <1>9, <1>10 DEF GoodRow
<1> HIDE DEF new
<1> QED
  BY <1>3, <1>4, <1>6, <1>10, <1>11, WriteStep

\* when the operational settings are saved,
LEMMA SaveOperationalStep ==
  ASSUME IInv, NEW p \in Processes, NEW f \in OperationalInputs, SaveOperational(p, f)
  PROVE  IInv'
<1> DEFINE w   == request[p].row
           new == [w EXCEPT !.operational = f, !.unchecked = @ \ {"operational"}]
<1>1. w \in Rows /\ GoodRow(w, completed, approved)
  BY HasPage DEF SaveOperational, At, IInv, GoodRequest, RequestType
<1>2. f \in OperationalFields
  BY ConsoleAssumption
<1>3. /\ new \in Rows /\ new.control = w.control /\ new.operational = f
      /\ new.integration = w.integration /\ new.secret = w.secret /\ new.setup = w.setup
      /\ new.unchecked = w.unchecked \ {"operational"}
  BY <1>1, <1>2, RowFields DEF Rows
<1>4. /\ Write(p, new) /\ OperationalRules(f)
      /\ UNCHANGED <<factory, delivery, approved, completed>>
  BY DEF SaveOperational
<1>5. GoodRow(new, completed, approved)
  BY <1>1, <1>3, <1>4 DEF GoodRow, Consistent
<1>6. completed' \in BOOLEAN /\ completed' = completed /\ approved' = approved
      /\ approved \subseteq {"reader", "odoo"}
  BY <1>4 DEF IInv, TypeOK
<1> HIDE DEF new
<1> QED
  BY <1>3, <1>4, <1>5, <1>6, WriteStep

\* when the Odoo integration is saved,
LEMMA SaveIntegrationStep ==
  ASSUME IInv, NEW p \in Processes, NEW f \in IntegrationInputs, SaveIntegration(p, f)
  PROVE  IInv'
<1> DEFINE w   == request[p].row
           new == [w EXCEPT !.integration = f.fields, !.secret = SecretAfter(f, w.secret),
                          !.unchecked = @ \ {"integration"}]
<1>1. w \in Rows /\ GoodRow(w, completed, approved)
  BY HasPage DEF SaveIntegration, At, IInv, GoodRequest, RequestType
<1>2. f.fields \in IntegrationFields /\ SecretAfter(f, w.secret) \in BOOLEAN
  BY ConsoleAssumption, <1>1, RowFields DEF SecretAfter
<1>3. /\ new \in Rows /\ new.control = w.control /\ new.operational = w.operational
      /\ new.integration = f.fields /\ new.secret = SecretAfter(f, w.secret)
      /\ new.setup = w.setup /\ new.unchecked = w.unchecked \ {"integration"}
  BY <1>1, <1>2, RowFields DEF Rows
<1>4. /\ Write(p, new) /\ IntegrationValid(f, w.secret)
      /\ UNCHANGED <<factory, delivery, approved, completed>>
  BY DEF SaveIntegration
<1>5. GoodRow(new, completed, approved)
  BY <1>1, <1>3, <1>4 DEF GoodRow, Consistent, IntegrationValid
<1>6. completed' \in BOOLEAN /\ completed' = completed /\ approved' = approved
      /\ approved \subseteq {"reader", "odoo"}
  BY <1>4 DEF IInv, TypeOK
<1> HIDE DEF new
<1> QED
  BY <1>3, <1>4, <1>5, <1>6, WriteStep

\* when the row is saved in the admin site,
LEMMA SaveAdminStep ==
  ASSUME IInv, NEW p \in Processes, NEW f \in AdminInputs, SaveAdmin(p, f)
  PROVE  IInv'
<1> DEFINE w   == request[p].row
           new == [control |-> f.control, operational |-> f.operational,
                   integration |-> f.integration, setup |-> f.setup, secret |-> w.secret,
                   unchecked |-> w.unchecked \cup {g \in Groups : f[g] # w[g]}]
<1>1. w \in Rows /\ completed /\ GoodRow(w, completed, approved)
  BY HasPage DEF SaveAdmin, At, IInv, GoodRequest, RequestType
<1>2. /\ f.control \in ControlFields /\ f.operational \in OperationalFields
      /\ f.integration \in IntegrationFields /\ f.setup \in BOOLEAN /\ w.secret \in BOOLEAN
      /\ w.unchecked \in SUBSET Groups
  BY ConsoleAssumption, <1>1, RowFields
<1>3. new \in Rows
  BY <1>2 DEF Rows
<1>4. Write(p, new) /\ UNCHANGED <<factory, delivery, approved, completed>>
  BY DEF SaveAdmin
<1>5. /\ new.control = f.control /\ new.operational = f.operational
      /\ new.integration = f.integration /\ new.secret = w.secret
      /\ new.unchecked = w.unchecked \cup {g \in Groups : f[g] # w[g]}
  OBVIOUS
<1>6. \* What was not changed is as it was loaded.
      \A g \in Groups : g \notin new.unchecked => g \notin w.unchecked /\ f[g] = w[g]
  BY <1>5
<1>7. /\ "control" \notin new.unchecked => "control" \notin w.unchecked /\ f.control = w.control
      /\ "operational" \notin new.unchecked
           => "operational" \notin w.unchecked /\ f.operational = w.operational
      /\ "integration" \notin new.unchecked
           => "integration" \notin w.unchecked /\ f.integration = w.integration
  BY <1>6 DEF Groups
<1>8. GoodRow(new, completed, approved)
  <2> HIDE DEF new
  <2> QED
    BY <1>1, <1>5, <1>7 DEF GoodRow, Consistent
<1>9. completed' \in BOOLEAN /\ completed' = completed /\ approved' = approved
      /\ approved \subseteq {"reader", "odoo"}
  BY <1>4 DEF IInv, TypeOK
<1> HIDE DEF new
<1> QED
  BY <1>3, <1>4, <1>8, <1>9, WriteStep

\* when the setup is completed,
LEMMA CompleteSetupStep ==
  ASSUME IInv, NEW p \in Processes, CompleteSetup(p)
  PROVE  IInv'
<1> DEFINE new == [row EXCEPT !.setup = TRUE]
<1>1. row \in Rows /\ GoodRow(row, completed, approved)
  BY DEF IInv, TypeOK
<1>2. /\ new \in Rows /\ new.control = row.control /\ new.operational = row.operational
      /\ new.integration = row.integration /\ new.secret = row.secret
      /\ new.unchecked = row.unchecked
  BY <1>1, RowFields DEF Rows
<1>3. Write(p, new) /\ completed' = TRUE /\ UNCHANGED <<factory, delivery, approved>>
  BY DEF CompleteSetup
<1>4. GoodRow(new, TRUE, approved)
  BY <1>1, <1>2 DEF GoodRow, Consistent
<1>5. approved' = approved /\ approved \subseteq {"reader", "odoo"}
  BY <1>3 DEF IInv, TypeOK
<1> HIDE DEF new
<1> QED
  BY <1>2, <1>3, <1>4, <1>5, WriteStep

-----------------------------------------------------------------------------
(* The invariant.                                                          *)

\* and when a delivery worker looks at the row.
LEMMA DeliveryStep ==
  ASSUME IInv, DeliveryStarts
  PROVE  IInv'
<1>1. UNCHANGED <<row, factory, request, approved, completed>> /\ delivery' = SettingsOf(row)
  BY DEF DeliveryStarts
<1>2. SettingsOf(row) \in [settings : OperationalFields, unchecked : BOOLEAN]
  BY RowFields DEF IInv, TypeOK, SettingsOf
<1>3. GoodSettings(SettingsOf(row))
  BY DEF IInv, GoodRow, Consistent, GoodSettings, SettingsOf
<1> QED
  BY <1>1, <1>2, <1>3 DEF IInv, TypeOK

\* Every step of a web process keeps the invariant.
LEMMA PageStepInv ==
  ASSUME IInv, NEW p \in Processes, PageStep(p)
  PROVE  IInv'
<1> USE DEF Steps
<1>1. ASSUME NEW user \in Users, NEW page \in Pages, Receive(p, user, page) PROVE IInv'
  BY <1>1, ReceiveStep
<1>2. CASE Load(p)
  BY <1>2, LoadStep
<1>3. CASE Refuse(p) \/ ContactEnds(p) \/ ProcessKilled(p)
  <2>1. Respond(p) /\ UNCHANGED <<row, factory, delivery, approved, completed>>
    BY <1>3 DEF Refuse, ContactEnds, ProcessKilled
  <2>2. factory' \in BOOLEAN /\ factory' = factory
    BY <2>1 DEF IInv, TypeOK
  <2> QED
    BY <2>1, <2>2, RespondStep
<1>4. CASE ChangePassword(p)
  <2>1. Respond(p) /\ UNCHANGED <<row, delivery, approved, completed>>
    BY <1>4 DEF ChangePassword
  <2>2. factory' \in BOOLEAN /\ (factory' => factory)
    BY <1>4 DEF ChangePassword, IInv, TypeOK
  <2> QED
    BY <2>1, <2>2, RespondStep
<1>5. ASSUME NEW f \in ControlInputs, SaveControl(p, f) PROVE IInv'
  BY <1>5, SaveControlStep
<1>6. ASSUME NEW f \in OperationalInputs, SaveOperational(p, f) PROVE IInv'
  BY <1>6, SaveOperationalStep
<1>7. ASSUME NEW f \in IntegrationInputs, SaveIntegration(p, f) PROVE IInv'
  BY <1>7, SaveIntegrationStep
<1>8. ASSUME NEW f \in AdminInputs, SaveAdmin(p, f) PROVE IInv'
  BY <1>8, SaveAdminStep
<1>9. CASE CompleteSetup(p)
  BY <1>9, CompleteSetupStep
<1>10. CASE TestReader(p)
  <2>1. PICK seconds \in ScanSeconds : Contact(p, "reading", seconds)
    BY <1>10 DEF TestReader
  <2>2. request[p].page \in Pages /\ ~OdooAllowed(row)
    BY <1>10 DEF TestReader, At, Pages, ReaderPages
  <2> QED
    BY <2>1, <2>2, ContactStep DEF Contacting
<1>11. CASE CallScan(p)
  <2>1. /\ Contact(p, "command", 0) /\ request[p].page = "active_session_scan"
        /\ request[p].page \in Pages
    BY <1>11 DEF CallScan, At, Pages, ReaderPages
  <2> QED
    BY <2>1, ContactStep
<1>12. CASE RunScan(p)
  <2>1. PICK seconds \in ScanSeconds : Contact(p, "reading", seconds)
    BY <1>12 DEF RunScan
  <2>2. request[p].page \in Pages /\ ~OdooAllowed(row)
    BY <1>12 DEF RunScan, ScanAllowed, IInv, GoodRequest, Pages, ReaderPages
  <2> QED
    BY <2>1, <2>2, ContactStep DEF Contacting
<1>13. CASE Authenticate(p)
  <2>1. Contact(p, "authenticating", 0) /\ OdooAllowed(row) /\ request[p].step = "admitted"
    BY <1>13 DEF Authenticate, At
  <2>2. request[p].page \in OdooPages
    BY <1>13 DEF Authenticate, At, OdooPages
  <2>3. request[p].page \in Pages /\ request[p].page \in StaffPages /\ request[p].page \notin SetupAllowed
    BY <2>2 DEF OdooPages, Pages, StaffPages, SetupAllowed
  <2>4. ~factory /\ completed
    BY <2>1, <2>3 DEF IInv, GoodRequest
  <2> QED
    BY <2>1, <2>3, <2>4, ContactStep DEF Contacting
<1>14. CASE PostCount(p)
  BY <1>14, PostCountStep
<1> QED
  BY <1>1, <1>2, <1>3, <1>4, <1>5, <1>6, <1>7, <1>8, <1>9, <1>10, <1>11, <1>12, <1>13, <1>14
  DEF PageStep

\* The invariant holds in every reachable state.
LEMMA InductiveInvariant == Spec => []IInv
<1>1. IInv /\ [Next]_vars => IInv'
  <2> SUFFICES ASSUME IInv, [Next]_vars PROVE IInv'
    OBVIOUS
  <2>1. ASSUME NEW p \in Processes, PageStep(p) PROVE IInv'
    BY <2>1, PageStepInv
  <2>2. CASE DeliveryStarts
    BY <2>2, DeliveryStep
  <2>3. CASE UNCHANGED vars
    BY <2>3 DEF vars, IInv, TypeOK, GoodRow, GoodSettings, Consistent, GoodRequest, OdooAllowed
  <2> QED
    BY <2>1, <2>2, <2>3 DEF Next
<1> QED
  BY <1>1, InitInv, PTL DEF Spec

-----------------------------------------------------------------------------
(* The delay of a retry.                                                   *)

\* A set of numbers that is not empty has a least element.
LEMMA Least ==
  ASSUME NEW T \in SUBSET Nat, T # {}
  PROVE  \E x \in T : \A y \in T : x <= y
<1> DEFINE R == {ss \in Nat \X Nat : ss[1] < ss[2]}
<1>1. IsWellFoundedOn(R, Nat)
  BY NatLessThanWellFounded DEF OpToRel
<1>2. \A x, y \in Nat : y < x => <<y, x>> \in R
  OBVIOUS
<1> HIDE DEF R
<1>3. PICK x \in T : \A y \in T : ~(<<y, x>> \in R)
  BY <1>1, WFMin
<1>4. ASSUME NEW y \in T PROVE x <= y
  <2>1. x \in Nat /\ y \in Nat
    OBVIOUS
  <2>2. ~(y < x)
    BY <1>2, <1>3, <2>1
  <2> QED  BY <2>1, <2>2
<1> QED  BY <1>4

\* g is the function of the first n powers of two.
Powers(n, g) ==
    /\ g \in [0 .. n -> Nat \ {0}]
    /\ \A k \in 0 .. n : g[k] = IF k = 0 THEN 1 ELSE 2 * g[k - 1]

\* Powers of two can be tabulated up to every n.
LEMMA PowersExist ==
  ASSUME NEW n \in Nat
  PROVE  \E g : Powers(n, g)
<1> DEFINE T == {m \in Nat : ~ \E g : Powers(m, g)}
<1>1. T = {}
  <2>1. SUFFICES ASSUME T # {} PROVE FALSE
    OBVIOUS
  <2>2. PICK m \in T : \A y \in T : m <= y
    <3>1. T \in SUBSET Nat
      OBVIOUS
    <3> HIDE DEF T
    <3> QED  BY <2>1, <3>1, Least
  <2>3. CASE m = 0
    <3>1. Powers(0, [k \in 0 .. 0 |-> 1])
      BY DEF Powers
    <3> QED  BY <2>2, <2>3, <3>1
  <2>4. CASE m # 0
    <3>1. m \in Nat /\ m - 1 \in Nat /\ ~(m <= m - 1)
      BY <2>4
    <3>2. PICK g : Powers(m - 1, g)
      BY <2>2, <3>1
    <3> DEFINE h == [k \in 0 .. m |-> IF k = m THEN 2 * g[m - 1] ELSE g[k]]
    <3>3. /\ \A k \in 0 .. m - 1 : g[k] \in Nat \ {0} /\ h[k] = g[k]
          /\ h[m] = 2 * g[m - 1]
      BY <3>1, <3>2 DEF Powers
    <3>4. ASSUME NEW k \in 0 .. m
          PROVE  h[k] \in Nat \ {0} /\ h[k] = IF k = 0 THEN 1 ELSE 2 * h[k - 1]
      <4> HIDE DEF h
      <4>1. CASE k = m
        BY <2>4, <3>1, <3>3, <4>1
      <4>2. CASE k # m
        <5>1. k \in 0 .. m - 1 /\ (k # 0 => k - 1 \in 0 .. m - 1)
          BY <3>1, <4>2
        <5> QED  BY <3>2, <3>3, <5>1 DEF Powers
      <4> QED  BY <4>1, <4>2
    <3>5. Powers(m, h)
      <4>1. DOMAIN h = 0 .. m /\ h = [k \in 0 .. m |-> h[k]]
        OBVIOUS
      <4> HIDE DEF h
      <4> QED  BY <3>4, <4>1 DEF Powers
    <3> HIDE DEF h
    <3> QED  BY <2>2, <3>5
  <2> QED  BY <2>3, <2>4
<1> QED  BY <1>1

\* Two such functions agree where both are defined.
LEMMA PowersAgree ==
  ASSUME NEW n \in Nat, NEW g, Powers(n, g), NEW m \in Nat, NEW h, Powers(m, h), n <= m
  PROVE  \A k \in 0 .. n : g[k] = h[k]
<1> DEFINE T == {k \in 0 .. n : g[k] # h[k]}
<1>1. T = {}
  <2>1. SUFFICES ASSUME T # {} PROVE FALSE
    OBVIOUS
  <2>2. PICK k \in T : \A y \in T : k <= y
    <3>1. T \in SUBSET Nat
      OBVIOUS
    <3> HIDE DEF T
    <3> QED  BY <2>1, <3>1, Least
  <2>3. k \in 0 .. n /\ k \in 0 .. m
    OBVIOUS
  <2>4. k # 0
    BY <2>2, <2>3 DEF Powers
  <2>5. k - 1 \in 0 .. n /\ ~(k <= k - 1)
    BY <2>3, <2>4
  <2>6. g[k - 1] = h[k - 1]
    BY <2>2, <2>5
  <2> QED  BY <2>2, <2>3, <2>4, <2>6 DEF Powers
<1> QED  BY <1>1

\* The recursion of PowerOfTwo is well defined.
LEMMA PowerOfTwoIs ==
  /\ PowerOfTwo \in [Nat -> Nat \ {0}]
  /\ PowerOfTwo[0] = 1
  /\ \A k \in Nat : PowerOfTwo[k + 1] = 2 * PowerOfTwo[k]
<1> DEFINE upTo(n) == CHOOSE g : Powers(n, g)
           f == [k \in Nat |-> upTo(k)[k]]
<1>1. \A n \in Nat : Powers(n, upTo(n))
  BY PowersExist
<1> HIDE DEF upTo
<1>2. ASSUME NEW k \in Nat PROVE f[k] \in Nat \ {0}
  BY <1>1 DEF Powers
<1>3. ASSUME NEW k \in Nat PROVE f[k] = IF k = 0 THEN 1 ELSE 2 * f[k - 1]
  <2>1. CASE k = 0
    BY <1>1, <2>1 DEF Powers
  <2>2. CASE k # 0
    <3>1. k - 1 \in Nat /\ k - 1 <= k /\ k \in 0 .. k /\ k - 1 \in 0 .. k - 1
      BY <2>2
    <3>2. Powers(k, upTo(k)) /\ Powers(k - 1, upTo(k - 1))
      BY <1>1, <3>1
    <3>3. upTo(k)[k] = 2 * upTo(k)[k - 1]
      BY <2>2, <3>1, <3>2 DEF Powers
    <3>4. upTo(k - 1)[k - 1] = upTo(k)[k - 1]
      BY <3>1, <3>2, PowersAgree
    <3> QED  BY <2>2, <3>1, <3>3, <3>4
  <2> QED  BY <2>1, <2>2
<1>4. f = [k \in Nat |-> IF k = 0 THEN 1 ELSE 2 * f[k - 1]]
  <2>1. f = [k \in Nat |-> f[k]]
    OBVIOUS
  <2> HIDE DEF f
  <2> QED  BY <1>3, <2>1
<1> HIDE DEF f
<1>5. PowerOfTwo = [k \in Nat |-> IF k = 0 THEN 1 ELSE 2 * PowerOfTwo[k - 1]]
  BY <1>4 DEF PowerOfTwo
<1>6. ASSUME NEW n \in Nat PROVE PowerOfTwo[n] \in Nat \ {0}
  <2> DEFINE T == {k \in Nat : PowerOfTwo[k] \notin Nat \ {0}}
  <2>1. T = {}
    <3>1. SUFFICES ASSUME T # {} PROVE FALSE
      OBVIOUS
    <3>2. PICK k \in T : \A y \in T : k <= y
      <4>1. T \in SUBSET Nat
        OBVIOUS
      <4> HIDE DEF T
      <4> QED  BY <3>1, <4>1, Least
    <3>3. PowerOfTwo[k] = IF k = 0 THEN 1 ELSE 2 * PowerOfTwo[k - 1]
      BY <1>5
    <3>4. k # 0
      BY <3>2, <3>3
    <3>5. k - 1 \in Nat /\ ~(k <= k - 1)
      BY <3>4
    <3>6. PowerOfTwo[k - 1] \in Nat \ {0}
      BY <3>2, <3>5
    <3> QED  BY <3>2, <3>3, <3>4, <3>6
  <2> QED  BY <2>1
<1>7. ASSUME NEW k \in Nat PROVE PowerOfTwo[k + 1] = 2 * PowerOfTwo[k]
  <2>1. k + 1 \in Nat /\ k + 1 # 0 /\ (k + 1) - 1 = k
    OBVIOUS
  <2>2. PowerOfTwo[k + 1] = IF k + 1 = 0 THEN 1 ELSE 2 * PowerOfTwo[(k + 1) - 1]
    BY <1>5, <2>1
  <2> QED  BY <2>1, <2>2
<1>8. PowerOfTwo[0] = 1
  BY <1>5
<1>9. PowerOfTwo \in [Nat -> Nat \ {0}]
  <2>1. PowerOfTwo = [k \in Nat |-> PowerOfTwo[k]]
    BY <1>5
  <2> QED  BY <1>6, <2>1
<1> QED  BY <1>7, <1>8, <1>9

\* The delay of a retry lies between the limits and grows with the attempts.
LEMMA DelayBounds ==
  ASSUME NEW n \in Nat \ {0}, NEW initial \in Nat \ {0}, NEW maximum \in Nat, maximum >= initial
  PROVE  /\ RetryDelay(n, initial, maximum) \in initial .. maximum
         /\ RetryDelay(n, initial, maximum) <= RetryDelay(n + 1, initial, maximum)
<1>1. n - 1 \in Nat /\ n \in Nat /\ (n - 1) + 1 = n /\ (n + 1) - 1 = n
  OBVIOUS
<1>2. /\ PowerOfTwo[n - 1] \in Nat \ {0}
      /\ PowerOfTwo[n] = 2 * PowerOfTwo[n - 1]
  BY <1>1, PowerOfTwoIs
<1>3. \A a, b \in Nat \ {0} : a * b \in Nat /\ a <= a * b /\ a * (2 * b) = 2 * (a * b)
  OBVIOUS
<1> DEFINE u == initial * PowerOfTwo[n - 1]
           v == initial * PowerOfTwo[n]
<1>4. u \in Nat /\ initial <= u /\ v = 2 * u
  BY <1>2, <1>3
<1>5. /\ RetryDelay(n, initial, maximum) = IF u < maximum THEN u ELSE maximum
      /\ RetryDelay(n + 1, initial, maximum) = IF v < maximum THEN v ELSE maximum
  BY <1>1 DEF RetryDelay
<1> HIDE DEF u, v
<1> QED  BY <1>4, <1>5
-----------------------------------------------------------------------------
(* What the invariant says.                                                *)

\* However many forms are saved at once, and whatever the admin site saves in
\* between, the stored row keeps the rules of each form for the columns that were
\* not changed in the admin site.
THEOREM RowKeepsRules == Spec => []RowConsistent
<1>1. IInv => RowConsistent
  BY DEF IInv, GoodRow, RowConsistent
<1> QED
  BY <1>1, InductiveInvariant, PTL

\* A switch is never on without having been confirmed at some time, unless the
\* runtime controls were last changed in the admin site.
THEOREM SwitchesWereApproved == Spec => []EnabledWasApproved
<1>1. IInv => EnabledWasApproved
  BY DEF IInv, GoodRow, GoodRequest, EnabledWasApproved, SwitchesApproved
<1> QED
  BY <1>1, InductiveInvariant, PTL

\* No Odoo contact before the factory password is changed and the setup done.
THEOREM OdooAfterSetup == Spec => []OdooContactAfterSetup
<1>1. IInv => OdooContactAfterSetup
  BY DEF IInv, GoodRequest, OdooContactAfterSetup
<1> QED
  BY <1>1, InductiveInvariant, PTL

\* The reader and Odoo are contacted at once only when a save came between.
THEOREM OneContactUnlessRaced == Spec => []ContactsExclude
<1>1. IInv => ContactsExclude
  BY DEF IInv, GoodRequest, ContactsExclude
<1> QED
  BY <1>1, InductiveInvariant, PTL

\* The values of the variables.
THEOREM ConsoleTypes == Spec => []TypeOK
<1>1. IInv => TypeOK
  BY DEF IInv
<1> QED
  BY <1>1, InductiveInvariant, PTL

\* The delivery worker can compute the delay of every retry from the settings it
\* started with, if they were not changed in the admin site, and the delays grow
\* up to the maximum, for any number of retries.
THEOREM DelaysComputable == Spec => []RetryComputable
<1>1. IInv => RetryComputable
  <2> DEFINE initial == delivery.settings.initial
             max     == delivery.settings.max
  <2> SUFFICES ASSUME IInv, ~delivery.unchecked, NEW n \in 1 .. RetriesShown
               PROVE  /\ RetryDelayDefined(n, initial, max)
                      /\ RetryDelay(n, initial, max) \in initial .. max
                      /\ RetryDelay(n, initial, max) <= RetryDelay(n + 1, initial, max)
    BY DEF RetryComputable
  <2>1. n \in Nat \ {0}
    OBVIOUS
  <2>2. initial \in Nat \ {0} /\ max \in Nat /\ max >= initial
    <3>1. /\ delivery.settings \in OperationalFields
          /\ initial >= 1 /\ max >= initial
      BY DEF IInv, TypeOK, GoodSettings, OperationalRules
    <3>2. initial \in Nat /\ max \in Nat
      BY <3>1 DEF OperationalFields
    <3> HIDE DEF initial, max
    <3> QED
      BY <3>1, <3>2
  <2> HIDE DEF initial, max
  <2>3. RetryDelayDefined(n, initial, max)
    BY <2>1, <2>2 DEF RetryDelayDefined
  <2> QED
    BY <2>1, <2>2, <2>3, DelayBounds
<1> QED
  BY <1>1, InductiveInvariant, PTL

\* Only the page's own settings change when a form is saved, unless the row
\* was written since the form loaded it.
THEOREM OnlyRacesOverwrite == Spec => OverwriteNeedsRace
<1> DEFINE Kept(p) ==
      (request[p].step = "loaded" /\ request'[p].step = "idle" /\ row' # row)
      => \/ request[p].raced
         \/ \A c \in Columns : row'[c] # row[c] => c \in Own[request[p].page]
<1>1. IInv /\ [Next]_vars => \A p \in Processes : Kept(p)
  <2> SUFFICES ASSUME IInv, [Next]_vars, NEW p \in Processes,
                      request[p].step = "loaded", request'[p].step = "idle", row' # row,
                      ~request[p].raced
               PROVE  \A c \in Columns : row'[c] # row[c] => c \in Own[request[p].page]
    OBVIOUS
  <2>1. /\ row \in Rows /\ request[p].row = row
        /\ Columns = {"control", "operational", "integration", "secret", "setup"}
    BY RowFields DEF IInv, TypeOK, GoodRequest, Rows, Columns, Groups
  <2>2. PICK q \in Processes : PageStep(q)
    BY DEF Next, vars, DeliveryStarts
  <2>3. request[p] \in RequestType
    BY HasPage
  <2>4. ASSUME NEW new, Write(q, new) PROVE p = q /\ row' = new
    <3>1. CASE p # q
      <4>1. request'[p] = [request[p] EXCEPT !.raced = TRUE]
        BY <2>4, <3>1 DEF Write
      <4>2. request'[p].step = "loaded"
        BY <4>1, <2>3 DEF RequestType
      <4> QED
        BY <4>2
    <3> QED
      BY <2>4, <3>1 DEF Write
  <2>5. ASSUME NEW f \in ControlInputs, SaveControl(q, f)
        PROVE  \A c \in Columns : row'[c] # row[c] => c \in Own[request[p].page]
    <3>1. p = q /\ row' = [row EXCEPT !.control = f.fields, !.unchecked = @ \ {"control"}]
      BY <2>1, <2>4, <2>5 DEF SaveControl
    <3>2. request[p].page = "poc_control_centre"
      BY <2>5, <3>1 DEF SaveControl, At
    <3>3. /\ row'.operational = row.operational /\ row'.integration = row.integration
          /\ row'.secret = row.secret /\ row'.setup = row.setup
      BY <2>1, <3>1 DEF Rows
    <3> QED
      BY <2>1, <3>2, <3>3 DEF Own
  <2>6. ASSUME NEW f \in OperationalInputs, SaveOperational(q, f)
        PROVE  \A c \in Columns : row'[c] # row[c] => c \in Own[request[p].page]
    <3>1. p = q /\ row' = [row EXCEPT !.operational = f, !.unchecked = @ \ {"operational"}]
      BY <2>1, <2>4, <2>6 DEF SaveOperational
    <3>2. request[p].page = "operational_settings"
      BY <2>6, <3>1 DEF SaveOperational, At
    <3>3. /\ row'.control = row.control /\ row'.integration = row.integration
          /\ row'.secret = row.secret /\ row'.setup = row.setup
      BY <2>1, <3>1 DEF Rows
    <3> QED
      BY <2>1, <3>2, <3>3 DEF Own
  <2>7. ASSUME NEW f \in IntegrationInputs, SaveIntegration(q, f)
        PROVE  \A c \in Columns : row'[c] # row[c] => c \in Own[request[p].page]
    <3>1. /\ p = q
          /\ row' = [row EXCEPT !.integration = f.fields, !.secret = SecretAfter(f, row.secret),
                                !.unchecked = @ \ {"integration"}]
      BY <2>1, <2>4, <2>7 DEF SaveIntegration
    <3>2. request[p].page = "odoo_integration_settings"
      BY <2>7, <3>1 DEF SaveIntegration, At
    <3>3. /\ row'.control = row.control /\ row'.operational = row.operational
          /\ row'.setup = row.setup
      BY <2>1, <3>1 DEF Rows
    <3> QED
      BY <2>1, <3>2, <3>3 DEF Own
  <2>8. ASSUME NEW f \in AdminInputs, SaveAdmin(q, f)
        PROVE  \A c \in Columns : row'[c] # row[c] => c \in Own[request[p].page]
    <3>1. /\ p = q
          /\ row' = [control |-> f.control, operational |-> f.operational,
                     integration |-> f.integration, setup |-> f.setup, secret |-> row.secret,
                     unchecked |-> row.unchecked \cup {g \in Groups : f[g] # row[g]}]
      BY <2>1, <2>4, <2>8 DEF SaveAdmin
    <3>2. request[p].page = "admin_change"
      BY <2>8, <3>1 DEF SaveAdmin, At
    <3> QED
      BY <2>1, <3>1, <3>2 DEF Own
  <2>9. CASE CompleteSetup(q)
    <3>1. p = q /\ row' = [row EXCEPT !.setup = TRUE]
      BY <2>4, <2>9 DEF CompleteSetup
    <3>2. request[p].page = "setup_wizard"
      BY <2>9, <3>1 DEF CompleteSetup, At
    <3> QED
      BY <2>1, <3>1, <3>2 DEF Own, Rows
  <2>10. \/ \E f \in ControlInputs : SaveControl(q, f)
         \/ \E f \in OperationalInputs : SaveOperational(q, f)
         \/ \E f \in IntegrationInputs : SaveIntegration(q, f)
         \/ \E f \in AdminInputs : SaveAdmin(q, f)
         \/ CompleteSetup(q)
    BY <2>2 DEF PageStep, Receive, Load, Refuse, ChangePassword, TestReader, CallScan, RunScan,
       Authenticate, PostCount, ContactEnds, ProcessKilled, Contact
  <2> QED
    BY <2>5, <2>6, <2>7, <2>8, <2>9, <2>10
<1> HIDE DEF Kept
<1>2. IInv /\ [Next]_vars => [\A p \in Processes : Kept(p)]_vars
  BY <1>1
<1> USE DEF Kept
<1> QED
  BY <1>2, InductiveInvariant, PTL DEF OverwriteNeedsRace, Spec

=============================================================================
