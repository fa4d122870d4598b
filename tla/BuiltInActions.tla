--------------------------- MODULE BuiltInActions ---------------------------
(* The actions every server has (SystemActions of columns.go), as data flow: what the
   attributes of each outcome are made from, what the performer it runs demands of
   them, and what it leaves for the outcomes after it.

   Values are told apart by their Go type only: "string", "number", "bool", "files"
   (a list from JSON), "list" (of strings), "object" (a map), "rows" (a list of maps
   that is not empty), "noRows" (one that is), "nil" (present, without value). *)
EXTENDS StandardTables, TLC

------------------------------------------------------------------------------
(* What an attribute is made from (EvaluateString): a constant; the value of a
   name (~x) or a field of it (~x.f); a text with a field of a named object ($x.f),
   of the first row of a list ($x[0].f), or with a named value ($x); the value of a
   script (!...) that reads fields of named values. *)
Value(op, of, field, shape) == [op |-> op, of |-> of, field |-> field, shape |-> shape]

Constant == Value("constant", "", "", "string")
Named(x) == Value("named", x, "", "any")
FieldOf(x, f) == Value("field", x, f, "string")
TextOf(x, f) == Value("text", x, f, "string")
TextOfFirst(x, f) == Value("textOfFirst", x, f, "string")
TextWith(x) == Value("textWith", x, "", "string")
Script(x, f, shape) == Value("script", x, f, shape)
Of(f) == TextOf("subject", f)

Always == Value("always", "", "", "bool")

Outcome(method, type, ref, attributes) ==
  [method |-> method, type |-> type, ref |-> ref, condition |-> Always,
   attributes |-> attributes]

Execute(type, attributes) == Outcome("EXECUTE", type, "", attributes)
Respond(type, attributes) == Outcome("ACTIONRESPONSE", type, "", attributes)
When(condition, outcome) == [outcome EXCEPT !.condition = condition]

Action(name, table, optional, in, out) ==
  [name |-> name, table |-> table, optional |-> optional, in |-> in, out |-> out]

None == [k \in {} |-> "string"]
NoAttributes == [k \in {} |-> Constant]
Labels(names) == [n \in names |-> "string"]
Inputs(names) == [n \in names |-> Named(n)]

Download(content, name) ==
  <<Respond("client.file.download",
      [content |-> Script("subject", content, "string"),
       name |-> Script("subject", name, "string"),
       contentType |-> Constant, message |-> Script("subject", name, "string")])>>

------------------------------------------------------------------------------
import_files_from_store ==
  Action("import_files_from_store", "world", FALSE, Labels({"table_name"}),
    <<Execute("cloud_store.files.import", [table_name |-> Of("table_name")])>>)

install_integration ==
  Action("install_integration", "integration", FALSE, None,
    <<Execute("integration.install", [reference_id |-> Of("reference_id")])>>)

download_certificate ==
  Action("download_certificate", "certificate", FALSE, None,
    Download("certificate_pem", "hostname"))

get_action_schema ==
  Action("get_action_schema", "action", FALSE, None, Download("action_schema", "action_name"))

download_public_key ==
  Action("download_public_key", "certificate", FALSE, None,
    Download("public_key_pem", "hostname"))

generate_acme_certificate ==
  Action("generate_acme_certificate", "certificate", FALSE, Labels({"email"}),
    <<Execute("acme.tls.generate", Inputs({"email"}) @@ [certificate |-> Named("subject")])>>)

generate_self_certificate ==
  Action("generate_self_certificate", "certificate", FALSE, None,
    <<Execute("self.tls.generate", [certificate |-> Named("subject")])>>)

register_otp ==
  Action("register_otp", "user_account", FALSE, Labels({"mobile_number"}),
    <<Outcome("EXECUTE", "otp.generate", "otp",
        [email |-> Of("email"), mobile |-> Named("mobile_number")])>>)

verify_mobile_number ==
  Action("verify_mobile_number", "user_otp_account", TRUE,
    Labels({"mobile_number", "email", "otp"}),
    <<Execute("otp.login.verify", Inputs({"otp", "email"}) @@ [mobile |-> Named("mobile_number")])>>)

send_otp ==
  Action("send_otp", "user_otp_account", TRUE, Labels({"mobile_number", "email"}),
    <<Outcome("EXECUTE", "otp.generate", "otp",
        Inputs({"email"}) @@ [mobile |-> Named("mobile_number")])>>)

verify_otp ==
  Action("verify_otp", "user_account", TRUE, Labels({"mobile_number", "email", "otp"}),
    <<Execute("otp.login.verify", Inputs({"otp", "email"}) @@ [mobile |-> Named("mobile_number")])>>)

(* The performer asks for world_name. *)
remove_column ==
  Action("remove_column", "world", FALSE, Labels({"column_name"}),
    <<Execute("world.column.delete", Inputs({"column_name"}) @@ [world_id |-> Of("reference_id")])>>)

remove_table ==
  Action("remove_table", "world", FALSE, None,
    <<Execute("world.delete", [world_id |-> Of("reference_id")])>>)

rename_column ==
  Action("rename_column", "world", TRUE, Labels({"table_name", "column_name", "new_column_name"}),
    <<Execute("world.column.rename",
        Inputs({"column_name", "new_column_name"}) @@ [world_name |-> Named("table_name")])>>)

sync_site_storage ==
  Action("sync_site_storage", "site", FALSE, Labels({"path"}),
    <<Execute("site.storage.sync",
        Inputs({"path"}) @@ [cloud_store_id |-> Of("cloud_store_id"), site_id |-> Of("reference_id")])>>)

sync_column_storage ==
  Action("sync_column_storage", "world", TRUE,
    Labels({"table_name", "column_name", "credential_name"}),
    <<Execute("column.storage.sync", Inputs({"table_name", "column_name", "credential_name"}))>>)

sync_mail_servers ==
  Action("sync_mail_servers", "mail_server", TRUE, None,
    <<Execute("mail.servers.sync", NoAttributes)>>)

restart_daptin ==
  Action("restart_daptin", "world", TRUE, None,
    <<Execute("system_json_schema_update", [json_schema |-> Script("", "", "files")])>>)

generate_random_data ==
  Action("generate_random_data", "world", TRUE, Labels({"table_name"}) @@ [count |-> "number"],
    <<Execute("generate.random.data",
        Inputs({"count", "table_name"}) @@
        [user_reference_id |-> TextOf("user", "reference_id"), user_account_id |-> TextOf("user", "id")])>>)

export_data ==
  Action("export_data", "world", TRUE,
    Labels({"table_name", "format", "columns"}) @@ [include_headers |-> "bool"],
    <<Execute("__data_export", Inputs({"table_name", "format", "include_headers", "columns"}))>>)

export_csv_data ==
  Action("export_csv_data", "world", TRUE, Labels({"table_name"}),
    <<Execute("__csv_data_export", Inputs({"table_name"}))>>)

import_data ==
  Action("import_data", "world", FALSE,
    [dump_file |-> "files", truncate_before_insert |-> "bool", batch_size |-> "number"],
    <<Execute("__data_import",
        Inputs({"dump_file", "truncate_before_insert", "batch_size", "user"}) @@
        [world_reference_id |-> Of("reference_id"), table_name |-> Of("table_name")])>>)

upload_file ==
  Action("upload_file", "cloud_store", FALSE, Labels({"path"}) @@ [file |-> "files"],
    <<Execute("cloudstore.file.upload",
        Inputs({"file", "path"}) @@
        [credential_name |-> Of("credential_name"), store_provider |-> Of("store_provider"),
         root_path |-> Of("root_path")])>>)

(* Mutant of create_site: the root of the store is not passed on. *)
create_site_nowhere ==
  Action("create_site", "cloud_store", FALSE, Labels({"site_type", "path", "hostname"}),
    <<Execute("cloudstore.site.create",
        Inputs({"path", "hostname", "site_type"}) @@
        [credential_name |-> Of("credential_name"), store_provider |-> Of("store_provider"),
         cloud_store_id |-> Of("reference_id"), user_account_id |-> TextOf("user", "reference_id")])>>)

create_site ==
  Action("create_site", "cloud_store", FALSE, Labels({"site_type", "path", "hostname"}),
    <<Execute("cloudstore.site.create",
        Inputs({"path", "hostname", "site_type"}) @@
        [credential_name |-> Of("credential_name"), store_provider |-> Of("store_provider"),
         cloud_store_id |-> Of("reference_id"), user_account_id |-> TextOf("user", "reference_id"),
         root_path |-> Of("root_path")])>>)

(* What happens to a path of a cloud store. *)
StorePath(name, in, type) ==
  Action(name, "cloud_store", FALSE, Labels(in),
    <<Execute(type,
        Inputs(in) @@
        [credential_name |-> Of("credential_name"), store_provider |-> Of("store_provider"),
         root_path |-> Of("root_path")])>>)

(* Mutant of delete_path: a performer that nobody installs. *)
delete_path_misnamed == StorePath("delete_path", {"path"}, "cloudstore.path.delete")

delete_path == StorePath("delete_path", {"path"}, "cloudstore.file.delete")

create_folder == StorePath("create_folder", {"path", "name"}, "cloudstore.folder.create")

move_path == StorePath("move_path", {"source", "destination"}, "cloudstore.path.move")

(* What happens to a file of a site. *)
SiteFile(name, type) ==
  Action(name, "site", FALSE, Labels({"path"}),
    <<Execute(type, Inputs({"path"}) @@ [site_id |-> Of("reference_id")])>>)

list_files == SiteFile("list_files", "site.file.list")

get_file == SiteFile("get_file", "site.file.get")

(* No performer has this name. *)
delete_file == SiteFile("delete_file", "site.file.delete")

upload_system_schema ==
  Action("upload_system_schema", "world", TRUE, [schema_file |-> "files"],
    <<Execute("system_json_schema_update", [json_schema |-> Named("schema_file")])>>)

(* The upload of a table's rows. *)
UploadSheet(name, file, type) ==
  Action(name, "world", TRUE,
    Labels({"entity_name"}) @@ [f \in {file} |-> "files"] @@
    [create_if_not_exists |-> "bool", add_missing_columns |-> "bool"],
    <<Execute(type, Inputs({file, "entity_name", "add_missing_columns", "create_if_not_exists"}))>>)

upload_xls_to_system_schema ==
  UploadSheet("upload_xls_to_system_schema", "data_xls_file", "__upload_xlsx_file_to_entity")

upload_csv_to_system_schema ==
  UploadSheet("upload_csv_to_system_schema", "data_csv_file", "__upload_csv_file_to_entity")

download_system_schema ==
  Action("download_system_schema", "world", TRUE, None,
    <<Execute("__download_cms_config", NoAttributes)>>)

become_an_administrator ==
  Action("become_an_administrator", "world", TRUE, None,
    <<Execute("__become_admin", Inputs({"user"}) @@ [user_account_id |-> TextOf("user", "id")])>>)

------------------------------------------------------------------------------
Notify == Respond("client.notify", [type |-> Constant, title |-> Constant, message |-> Constant])

Redirect == Respond("client.redirect", [location |-> Constant, window |-> Constant, delay |-> Constant])

NewAccount(name, email, password) ==
  Outcome("POST", "user_account", "user",
    [name |-> name, email |-> email, password |-> password])

(* Mutant of signup: the notification quotes the code that only some accounts get. *)
signup_quotes_code ==
  Action("signup", "user_account", TRUE,
    Labels({"name", "email", "mobile", "password", "passwordConfirm"}),
    <<NewAccount(Named("name"), Named("email"), Named("password")),
      When(Script("mobile", "", "bool"),
           Outcome("EXECUTE", "otp.generate", "otp", Inputs({"mobile", "email"}))),
      Respond("client.notify", [message |-> TextOf("otp", "otp")]), Redirect>>)

(* An account, and a code for the mobile if one is given. *)
signup ==
  Action("signup", "user_account", TRUE,
    Labels({"name", "email", "mobile", "password", "passwordConfirm"}),
    <<NewAccount(Named("name"), Named("email"), Named("password")),
      When(Script("mobile", "", "bool"),
           Outcome("EXECUTE", "otp.generate", "otp", Inputs({"mobile", "email"}))),
      Notify, Redirect>>)

FindByEmail == Outcome("GET", "user_account", "user", [query |-> TextWith("email")])

(* The performer asks for a list of receivers, "to" is a string. *)
MailTo(body) ==
  Execute("mail.send",
    [to |-> Named("email"), subject |-> Constant, body |-> body, from |-> Constant])

reset_password ==
  Action("reset-password", "user_account", TRUE, Labels({"email"}),
    <<FindByEmail,
      Outcome("EXECUTE", "otp.generate", "otp", [email |-> TextWith("email")]),
      MailTo(TextOf("otp", "otp"))>>)

reset_password_verify ==
  Action("reset-password-verify", "user_account", TRUE, Labels({"email", "otp"}),
    <<FindByEmail,
      Execute("otp.login.verify", Inputs({"otp", "email"})),
      Outcome("EXECUTE", "random.generate", "newPassword", [type |-> Constant]),
      Outcome("PATCH", "user_account", "",
        [reference_id |-> TextOfFirst("user", "reference_id"),
         password |-> Script("newPassword", "", "string")]),
      MailTo(TextOf("newPassword", "value"))>>)

signin ==
  Action("signin", "user_account", TRUE, Labels({"email", "password"}),
    <<Execute("jwt.token", Inputs({"email", "password"}))>>)

oauth_login_begin ==
  Action("oauth_login_begin", "oauth_connect", FALSE, None,
    <<Execute("oauth.client.redirect", [authenticator |-> Of("name"), scope |-> Of("scope")])>>)

(* The profile is fetched for a connection that allows login, and a token made from it
   for any. *)
oauth_login_response ==
  LET Allowed == TextOfFirst("connection", "allow_login")
      NewUser == Script("user", "", "bool")
      Email == Script("profile", "", "string")
  IN Action("oauth.login.response", "oauth_token", TRUE,
       Labels({"code", "state", "authenticator"}),
       <<Outcome("GET", "oauth_connect", "connection", [filter |-> Named("authenticator")]),
         Outcome("EXECUTE", "oauth.login.response", "auth",
           Inputs({"authenticator", "state", "code"}) @@
           [user_account_id |-> FieldOf("user", "id"),
            user_reference_id |-> FieldOf("user", "reference_id")]),
         When(Allowed, Outcome("EXECUTE", "oauth.profile.exchange", "profile",
           [authenticator |-> Named("authenticator"), token |-> TextOf("auth", "access_token"),
            tokenInfoUrl |-> TextOfFirst("connection", "token_url"),
            profileUrl |-> TextOfFirst("connection", "profile_url")])),
         When(Allowed, Outcome("GET", "user_account", "user", [filter |-> Email])),
         When(NewUser, NewAccount(TextOf("profile", "displayName"), Email, TextOf("profile", "id"))),
         When(NewUser, Outcome("POST", "usergroup", "usergroup",
           [name |-> Script("profile", "emails", "string")])),
         When(NewUser, Outcome("POST", "user_account_user_account_id_has_usergroup_usergroup_id", "",
           [user_account_id |-> TextOf("user", "reference_id"),
            usergroup_id |-> TextOf("usergroup", "reference_id")])),
         Execute("jwt.token", [email |-> Email, skipPasswordCheck |-> Value("constant", "", "", "bool")]),
         Redirect>>)

add_exchange ==
  Action("add_exchange", "world", FALSE, Labels({"name", "sheet_id", "app_key"}),
    <<Outcome("POST", "data_exchange", "",
        [name |-> Script("subject", "table_name", "string"),
         source_attributes |-> Script("subject", "table_name", "string"),
         source_type |-> Constant, target_type |-> Constant,
         options |-> Script("", "", "string"), attributes |-> Script("", "", "string"),
         target_attributes |-> Script("sheet_id", "", "string")])>>)

SystemActions ==
  {import_files_from_store, install_integration, download_certificate, get_action_schema,
   download_public_key, generate_acme_certificate, generate_self_certificate,
   register_otp, verify_mobile_number, send_otp, verify_otp, remove_column, remove_table,
   rename_column, sync_site_storage, sync_column_storage, sync_mail_servers,
   restart_daptin, generate_random_data, export_data, export_csv_data, import_data,
   upload_file, create_site, delete_path, create_folder, move_path, list_files,
   get_file, delete_file, upload_system_schema, upload_xls_to_system_schema,
   upload_csv_to_system_schema, download_system_schema, become_an_administrator,
   signup, reset_password, reset_password_verify, signin, oauth_login_begin,
   oauth_login_response, add_exchange}

------------------------------------------------------------------------------
(* GetActionPerformers. *)
Installed ==
  {"__become_admin", "cloud_store.files.import", "otp.generate", "otp.login.verify",
   "template.render", "response.create", "__download_cms_config", "__data_export",
   "__csv_data_export", "__data_import", "oauth.client.redirect",
   "oauth.login.response", "site.storage.sync", "column.storage.sync",
   "site.file.list", "site.file.get", "cloudstore.file.delete",
   "oauth.profile.exchange", "jwt.token", "$network.request", "generate.random.data",
   "oauth.token", "mail.servers.sync", "mail.send", "aws.mail.send", "__restart",
   "__upload_xlsx_file_to_entity", "$transaction", "__upload_csv_file_to_entity",
   "world.column.delete", "world.delete", "world.column.rename", "random.generate",
   "__enable_graphql", "command.execute", "cloudstore.file.upload",
   "cloudstore.folder.create", "cloudstore.path.move", "cloudstore.site.create",
   "acme.tls.generate", "self.tls.generate", "integration.install"}

(* The type assertions without a check in the performers: the attribute must be there
   and of that type. *)
Demands(type) ==
  CASE type \in {"cloudstore.file.delete", "cloudstore.file.upload",
                 "cloudstore.folder.create", "cloudstore.path.move"} -> Labels({"root_path"})
    [] type = "cloudstore.site.create" ->
         Labels({"user_account_id", "cloud_store_id", "root_path", "path"})
    [] type = "__upload_csv_file_to_entity" ->
         Labels({"entity_name"}) @@ [data_csv_file |-> "files"]
    [] type = "__upload_xlsx_file_to_entity" ->
         Labels({"entity_name"}) @@ [data_xls_file |-> "files"]
    [] type = "world.column.delete" -> Labels({"world_name", "column_name"})
    [] type = "world.column.rename" -> Labels({"world_name", "column_name", "new_column_name"})
    [] type \in {"acme.tls.generate", "self.tls.generate"} -> [certificate |-> "object"]
    [] type = "generate.random.data" ->
         Labels({"user_account_id", "table_name"}) @@ [count |-> "number"]
    [] type = "cloud_store.files.import" -> Labels({"table_name"})
    [] type = "mail.send" -> Labels({"subject", "from", "body"}) @@ [to |-> "list"]
    [] type = "oauth.client.redirect" -> Labels({"authenticator"})
    [] type = "oauth.login.response" -> Labels({"state", "authenticator", "code"})
    [] type = "oauth.profile.exchange" -> Labels({"authenticator", "token", "profileUrl"})
    [] type = "random.generate" -> Labels({"type"})
    [] type \in {"site.file.get", "site.file.list", "site.storage.sync"} -> Labels({"path"})
    [] OTHER -> None

Shapes == {"string", "number", "bool", "files", "list", "object", "rows", "noRows"}

------------------------------------------------------------------------------
VARIABLES
  builtIn,      \* the action that runs
  env,          \* inFieldMap: names to the types of their values
  nextOut,      \* the outcome it is at
  unperformed,  \* outcomes that had no performer and were passed over
  lacking,      \* the name an attribute could not be made from, "" if there is none
  ended         \* "no", "done", "failed", "missing" or "panic"

dataVars == <<builtIn, env, nextOut, unperformed, lacking, ended>>

DataTypeOK ==
  /\ builtIn \in SystemActions
  /\ \A x \in DOMAIN env : env[x] \in Shapes
  /\ nextOut \in 1 .. Len(builtIn.out) + 1
  /\ unperformed \subseteq DOMAIN builtIn.out
  /\ ended \in {"no", "done", "failed", "missing", "panic"}
  /\ lacking # "" => ended = "missing"

(* Every declared input is given, by its declared type; the subject is loaded when its
   reference is, which only an optional one may lack; a guest has no "user". *)
DataInit ==
  /\ builtIn \in SystemActions
  /\ \E user \in BOOLEAN, subject \in IF builtIn.optional THEN BOOLEAN ELSE {TRUE} :
       env = builtIn.in @@ (IF user THEN [user |-> "object"] ELSE None)
                        @@ (IF subject THEN [subject |-> "object"] ELSE None)
  /\ nextOut = 1
  /\ unperformed = {}
  /\ lacking = ""
  /\ ended = "no"

Bound(x) == x \in DOMAIN env

(* "missing": an error; "omitted": the attribute is left out; "crash": a failed type
   assertion of the evaluation itself. *)
Evaluate(v) ==
  CASE v.op = "constant" -> v.shape
    [] v.op = "script" -> IF v.of = "" \/ Bound(v.of) THEN v.shape ELSE "missing"
    [] v.op = "named" -> IF Bound(v.of) THEN env[v.of] ELSE "omitted"
    [] v.op = "field" -> IF ~Bound(v.of) THEN "omitted"
                         ELSE IF env[v.of] = "object" THEN v.shape ELSE "crash"
    [] v.op = "text" -> IF Bound(v.of) /\ env[v.of] \in {"object", "files", "list"}
                        THEN v.shape ELSE "missing"
    [] v.op = "textOfFirst" -> IF Bound(v.of) /\ env[v.of] = "rows" THEN v.shape ELSE "missing"
    [] OTHER -> v.shape

(* A condition is true if its text is, a script tests whether a list is empty or
   whether a text is. One that cannot be evaluated is false. *)
Holds(v) ==
  CASE v.op = "always" -> {TRUE}
    [] Evaluate(v) = "missing" -> {FALSE}
    [] v.op = "script" /\ env[v.of] \in {"rows", "object"} -> {FALSE}
    [] v.op = "script" /\ env[v.of] = "noRows" -> {TRUE}
    [] OTHER -> BOOLEAN

(* BuildOutcome gives an uploaded schema to the performer that restarts the server. *)
PerformerOf(out) ==
  IF out.type = "system_json_schema_update" THEN "__restart" ELSE out.type

Current == builtIn.out[nextOut]
AtOut == ended = "no" /\ nextOut <= Len(builtIn.out)
Failing(out) == {k \in DOMAIN out.attributes : Evaluate(out.attributes[k]) = "missing"}
Crashing(out) == {k \in DOMAIN out.attributes : Evaluate(out.attributes[k]) = "crash"}

(* What the performer or the model is given. *)
Produced(out) ==
  LET keys == {k \in DOMAIN out.attributes : Evaluate(out.attributes[k]) # "omitted"}
  IN [k \in keys |-> Evaluate(out.attributes[k])]

IsServed(out) ==
  LET given == Produced(out)
      asked == Demands(out.type)
  IN \A k \in DOMAIN asked : k \in DOMAIN given /\ given[k] = asked[k]

(* Mutant of Results: a list found is bound as it is, also when it is nil. *)
ResultsOrNil(out) == IF out.method = "GET" THEN {"rows", "nil"} ELSE {"object"}

(* What is left under the reference of the outcome. *)
Results(out) == IF out.method = "GET" THEN {"rows", "noRows"} ELSE {"object"}

SkipBuiltIn ==
  /\ AtOut
  /\ FALSE \in Holds(Current.condition)
  /\ nextOut' = nextOut + 1
  /\ UNCHANGED <<builtIn, env, unperformed, lacking, ended>>

Reached == AtOut /\ TRUE \in Holds(Current.condition)

(* An attribute cannot be made: the action fails. *)
LackData ==
  /\ Reached
  /\ \E k \in Failing(Current) : lacking' = Current.attributes[k].of
  /\ ended' = "missing"
  /\ UNCHANGED <<builtIn, env, nextOut, unperformed>>

(* A performer asserts the type of an attribute that has another or is not there. *)
CrashOnData ==
  /\ Reached
  /\ \/ Crashing(Current) # {}
     \/ Failing(Current) = {} /\ Current.method = "EXECUTE"
        /\ PerformerOf(Current) \in Installed /\ ~IsServed(Current)
  /\ ended' = "panic"
  /\ UNCHANGED <<builtIn, env, nextOut, unperformed, lacking>>

Complete(out) == Failing(out) = {} /\ Crashing(out) = {}

(* An outcome of method EXECUTE without a performer is logged and passed over. *)
PassOverBuiltIn ==
  /\ Reached /\ Complete(Current)
  /\ Current.method = "EXECUTE" /\ PerformerOf(Current) \notin Installed
  /\ unperformed' = unperformed \cup {nextOut}
  /\ nextOut' = nextOut + 1
  /\ UNCHANGED <<builtIn, env, lacking, ended>>

(* What was executed, found or stored is there for the outcomes after it. *)
PerformBuiltIn ==
  /\ Reached /\ Complete(Current)
  /\ Current.method = "EXECUTE" => PerformerOf(Current) \in Installed /\ IsServed(Current)
  /\ \E r \in Results(Current) :
       env' = IF Current.ref = "" THEN env ELSE [x \in {Current.ref} |-> r] @@ env
  /\ nextOut' = nextOut + 1
  /\ UNCHANGED <<builtIn, unperformed, lacking, ended>>

(* The performer, the statement or a script fails on the data itself. *)
FailBuiltIn ==
  /\ Reached /\ Complete(Current) /\ Current.method # "ACTIONRESPONSE"
  /\ ended' = "failed"
  /\ UNCHANGED <<builtIn, env, nextOut, unperformed, lacking>>

EndBuiltIn ==
  /\ ended = "no"
  /\ nextOut = Len(builtIn.out) + 1
  /\ ended' = "done"
  /\ UNCHANGED <<builtIn, env, nextOut, unperformed, lacking>>

DataNext ==
  \/ SkipBuiltIn \/ LackData \/ CrashOnData \/ PassOverBuiltIn
  \/ PerformBuiltIn \/ FailBuiltIn \/ EndBuiltIn

DataSpec == DataInit /\ [][DataNext]_dataVars

------------------------------------------------------------------------------
(* An action of the server that is called with the inputs it declares, by their declared
   types, gives every performer what it asserts. Only the removal of a column, which
   passes world_id where world_name is asserted, and the mails of a password reset,
   whose receiver is not a list, panic. *)
PanicsAreKnown ==
  ended = "panic" => builtIn \in {remove_column, reset_password, reset_password_verify}

(* An outcome never depends on one that a condition has skipped: what may be missing is
   the user, for a guest or an unknown address. The login with a connection that does
   not allow login is the exception: no profile is fetched, the token is made from it. *)
NothingDependsOnSkipped ==
  lacking \notin {"", "user"} => builtIn = oauth_login_response /\ lacking = "profile"

(* Every outcome is carried out by a performer, except for the removal of a file of a
   site, which is answered as if it had been. *)
EveryOutcomeIsPerformed == unperformed # {} => builtIn = delete_file

(* What an outcome reads of its subject is a column of the subject's table, and what it
   stores are columns of the table it is stored in. *)
DataFitsTables ==
  AtOut =>
    /\ \A k \in DOMAIN Current.attributes :
         LET v == Current.attributes[k]
         IN v.of = "subject" /\ v.field # "" => v.field \in ColumnsOf(builtIn.table)
    /\ Current.method \in {"POST", "PATCH"} /\ Current.type \in StandardTables
         => DOMAIN Current.attributes \subseteq ColumnsOf(Current.type)
=============================================================================
