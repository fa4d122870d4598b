--------------------------- MODULE PerformerTable ---------------------------
(* The performers of src/server/actions: what an outcome of method EXECUTE does.
   Each is a constant: which statements it runs on the transaction of the action,
   what it changes outside of the database, what it leaves to a goroutine, and what
   a failure of each step makes it answer. Performers runs them.

   A performer is a set of paths, one for each way its branches and loops can
   go (a loop is taken at most twice), and a set of jobs its goroutine may have.
   The checks of input, the answers' texts and the payloads are left out. *)
EXTENDS Integers, Sequences

(* op: a "check" of input or state; a "read" or "write" on the transaction of the
   action; a statement on another connection of the "pool"; an effect "outside" of
   the database; the temporary directory made ("tmp") or removed ("clean"); the
   transaction ended by the performer itself ("commit"); a step that cannot
   succeed ("impossible").
   fail: what its failure does. "error" is returned; "log" and "count" go on, the
   second telling the number of failures; "later" goes on at skip steps further and
   returns the error at the end; "notice" answers with a notification but no error,
   "success" with that of a success; "panic"; "clean" removes the temporary
   directory and goes on; "never" is the branch of a success; "undo", "undoPanic",
   "giveUp" roll the transaction back and return the error, panic, answer without error; "stop" ends a job. *)
StepOf(op, fail) == [op |-> op, fail |-> fail, skip |-> 0]
Later(op, skip) == [op |-> op, fail |-> "later", skip |-> skip]

Check(fail) == StepOf("check", fail)
DbRead(fail) == StepOf("read", fail)
DbWrite(fail) == StepOf("write", fail)
Pool(fail) == StepOf("pool", fail)
Outside(fail) == StepOf("outside", fail)
Impossible(fail) == StepOf("impossible", fail)
Input == Check("panic")       \* an unchecked type assertion on an input field
Tmp == StepOf("tmp", "log")
Clean == StepOf("clean", "log")
Commit == StepOf("commit", "log")

A \odot B == {a \o b : a \in A, b \in B}
Maybe(s) == {<<>>, s}
AtMostTwice(A) == {<<>>} \cup A \cup (A \odot A)

Performer(name, paths) == [name |-> name, paths |-> paths, jobs |-> {<<>>}]
Spawning(name, paths, jobs) == [name |-> name, paths |-> paths, jobs |-> jobs]

------------------------------------------------------------------------------
(* Calls several performers share. *)

(* A named credential; the code goes on with a nil one. *)
Credential == Maybe(<<DbRead("panic")>>)

(* CertificateManager.GetTLSConfig, allowed to create: a certificate that is there
   is decrypted; otherwise one is made and stored, and if that fails the
   transaction of the caller is rolled back. *)
Certificate(fail, undo) ==
  {<<DbRead("never"), Check(fail)>>,
   <<DbRead("log"), Check(fail), DbRead("log"), DbWrite(undo)>>}

(* Mutant of ExistingCertificate: it is looked up on a connection of the pool. *)
ExistingCertificateOnPool(fail) == {<<Pool(fail), Check(fail)>>}

(* The same, not allowed to create. *)
ExistingCertificate(fail) == {<<DbRead(fail), Check(fail)>>}

(* GetTokenByTokenReferenceId: a token that has expired is refreshed and stored. *)
StoredToken(fail) ==
  {<<DbRead(fail), DbRead("log"), DbRead(fail)>>} \odot
  Maybe(<<Outside(fail), DbWrite("log")>>)

(* GetOauthConnectionDescription. *)
OauthConnection(fail) == <<DbRead(fail), DbRead(fail), Check(fail)>>

------------------------------------------------------------------------------
(* Answers, system and configuration. *)

ResponseCreate == Performer("response.create", {<<Input>>})

RandomValue == Performer("random.generate", {<<Input>>})

RestartSystem == Performer("__restart", {<<>>})

DownloadConfig == Performer("__download_cms_config", {<<>>})

(* The test of err is the wrong way round: after a success err.Error() is called
   on nil. *)
EnableGraphql ==
  Performer("__enable_graphql", {<<DbWrite("success"), Impossible("panic")>>})

BecomeAdministrator ==
  Performer("__become_admin",
    {<<Check("error"), Check("error"), Input, DbWrite("giveUp"), Commit>>})

(* The pipes are read after Run has closed them, which fails and hides the error of
   the command itself. *)
ExecuteCommand ==
  Performer("command.execute", {<<Input, Outside("log"), Impossible("notice")>>})

RenderTemplate ==
  Performer("template.render",
    {<<Check("error"), DbRead("error"), Check("error"), Check("error")>>} \odot
    Maybe(<<Check("error"), Check("error"), Check("error"), Check("error")>>) \odot
    {<<Check("error"), Check("error")>>})

NetworkRequest ==
  Performer("$network.request", {<<Input, Check("error"), Input, Outside("error")>>})

SelfSignedCertificate ==
  Performer("self.tls.generate", {<<Input>>} \odot Certificate("error", "undo"))

(* The key pair of the account: made and stored the first time. *)
AcmeAccount ==
  {<<Check("error"), DbRead("error"), Check("error"), DbRead("log"), Input>>} \odot
  {<<Check("error"), Check("error"), DbWrite("error"), DbWrite("error")>>,
   <<Check("error"), Check("error")>>}

(* Registration and order at the authority, then the row of the certificate. *)
AcmeObtain ==
  <<Check("panic"), Check("error"), Outside("error"), Outside("error"),
    Check("log"), DbWrite("error")>>

AcmeCertificate == Performer("acme.tls.generate", AcmeAccount \odot {AcmeObtain})

------------------------------------------------------------------------------
(* Accounts and tokens. *)

OauthToken ==
  Performer("oauth.token", {<<Check("error")>>} \odot StoredToken("panic"))

OauthLoginBegin ==
  Performer("oauth.client.redirect",
    {<<Check("error"), Input>> \o OauthConnection("panic")})

(* The code is exchanged, and so used up, before the token is stored. *)
OauthLoginResponse ==
  Performer("oauth.login.response",
    {<<Input, Check("error"), Input>> \o OauthConnection("error") \o
     <<Outside("error"), DbRead("error"), DbWrite("error")>>})

(* GetTokenByTokenName prepares its statement on the pool, not on the transaction
   of the action. *)
OauthProfileExchange ==
  Performer("oauth.profile.exchange",
    {<<Input>> \o OauthConnection("error")} \odot
    {<<Input, Outside("error")>>,
     <<Pool("log")>>,
     <<Pool("log"), Input, Outside("error"), Pool("log")>>})

GenerateJwtToken ==
  Performer("jwt.token",
    {<<Check("error"), Check("error"), DbRead("error"), Check("error"), Check("error")>>})

(* Under the name of GenerateJwtToken too, and not installed: a wrong password is
   only a notification. *)
SwitchSessionUser ==
  Performer("jwt.token (session user)",
    {<<Check("error"), Check("error"), DbRead("notice"), Check("notice"), Check("error")>>})

(* The reset of a password by mail is not installed. *)
PasswordResetBegin ==
  Performer("password.reset.begin",
    {<<DbRead("notice"), Check("error"), Input, Outside("notice")>>})

PasswordResetVerify ==
  Performer("password.reset.verify",
    {<<DbRead("notice"), Input, Check("notice"), Check("notice")>>})

(* Mutant of OtpGenerate: a profile that cannot be stored is only logged. *)
OtpGenerateLogs ==
  Performer("otp.generate",
    {<<Check("error"), DbRead("error"), Check("error"), DbRead("log")>>} \odot
    Maybe(<<Check("error"), DbWrite("log")>>) \odot
    {<<Check("notice"), Check("notice")>>})

(* By address or by number; a profile is created when the account has none. *)
OtpGenerate ==
  Performer("otp.generate",
    {<<Check("error"), DbRead("error"), Check("error"), DbRead("log")>>,
     <<Check("error"), DbRead("error"), Check("error"), DbRead("error")>>,
     <<Check("error")>>} \odot
    {<<Input>>} \odot
    Maybe(<<Check("error"), DbWrite("error")>>) \odot
    {<<Check("notice"), Check("notice")>>})

OtpLoginVerify ==
  Performer("otp.login.verify",
    {<<Check("error"), DbRead("error"), DbRead("error")>>,
     <<DbRead("error"), Check("error"), DbRead("error")>>} \odot
    {<<Check("error")>>} \odot Maybe(<<DbWrite("error")>>) \odot {<<Check("error")>>})

------------------------------------------------------------------------------
(* Mail. *)

(* Mutant of MailSend: the mail goes out before its signature is checked. *)
MailSendUnsigned ==
  Performer("mail.send",
    {<<Input, DbRead("error"), Check("error"), Outside("error"), Check("error")>>})

MailSend ==
  Performer("mail.send",
    {<<Input, Check("error"), Outside("error")>>} \cup
    ({<<Input, DbRead("error"), Check("error"), Check("panic")>>} \odot
     ExistingCertificate("error") \odot
     {<<Check("panic"), Check("error"), Check("error"), Outside("error")>>}))

AwsMailSend ==
  Performer("aws.mail.send",
    {<<Input, DbRead("error"), Input, Check("error"), Check("error"), Outside("error")>>})

(* One certificate for each server, in files the daemon goes on to use; a missing
   certificate is dereferenced. *)
MailServersSync ==
  Performer("mail.servers.sync",
    {<<>>} \cup
    ({<<DbRead("error"), Tmp>>} \odot
     AtMostTwice({<<Input>>} \odot Certificate("panic", "undoPanic") \odot {<<Check("log")>>}) \odot
     {<<Outside("log")>>}))

------------------------------------------------------------------------------
(* Cloud stores and sites: the transfer is a job of its own, except for a move. *)

FileUpload ==
  Spawning("cloudstore.file.upload",
    {<<Tmp, Check("error")>>} \odot AtMostTwice({<<Input, Check("log")>>}) \odot
    {<<Input>>} \odot Credential,
    {<<>>, <<Outside("log"), Clean>>})

FileDelete ==
  Spawning("cloudstore.file.delete",
    {<<Check("error"), Input>>} \odot Credential,
    {<<>>, <<Outside("log")>>})

FolderCreate ==
  Spawning("cloudstore.folder.create",
    {<<Tmp, Input>>} \odot Credential,
    {<<>>, <<Outside("stop"), Clean>>})

PathMove ==
  Performer("cloudstore.path.move",
    {<<Tmp, Input>>} \odot Credential \odot {<<Outside("clean")>>})

SiteCreate ==
  Spawning("cloudstore.site.create",
    {<<Tmp, Input, Check("log"), Input, Check("error"), Input, DbWrite("error")>>} \odot
    Credential,
    {<<>>, <<Outside("log"), Clean>>})

SiteSync ==
  Spawning("site.storage.sync",
    {<<Input, DbRead("error"), Check("error")>>} \odot Credential \odot {<<DbRead("error")>>},
    {<<>>, <<Outside("stop")>>, <<Outside("stop"), Check("log")>>})

ColumnSync ==
  Spawning("column.storage.sync",
    {<<Check("error"), Check("error"), Check("error")>>} \odot Credential,
    {<<>>, <<Outside("log")>>})

SiteFileList == Performer("site.file.list", {<<Input, Check("error"), Check("log")>>})

SiteFileGet == Performer("site.file.get", {<<Input, Check("error"), Check("log")>>})

(* A row for each file of the store; the failures are counted in the answer. *)
ImportCloudFiles ==
  Performer("cloud_store.files.import",
    {<<Input, Check("error")>>} \odot
    AtMostTwice({<<DbRead("log")>>} \odot Credential \odot {<<Check("log")>>} \odot
                AtMostTwice({<<DbWrite("count")>>})))

------------------------------------------------------------------------------
(* Tables and data. *)

RenameColumn ==
  Performer("world.column.rename",
    {<<Input>>,
     <<Input, Check("error"), DbRead("error"), Input, Check("error"),
       DbWrite("error"), DbWrite("error")>>})

DeleteColumn ==
  Performer("world.column.delete",
    {<<Input, DbRead("error"), Input, Check("error"), Check("error"),
       DbWrite("error"), DbWrite("error")>>})

(* One relation of a table that goes: its column or join table, then the schema of
   the other table. *)
DeleteRelation ==
  {<<>>, <<Later("write", 0)>>, <<Later("write", 0), DbRead("panic")>>} \odot
  {<<Later("read", 2), Later("check", 1), DbWrite("error")>>}

DeleteTable ==
  Performer("world.delete",
    {<<Check("error"), DbRead("error"), Check("error"), Input, Check("error")>>} \odot
    AtMostTwice(DeleteRelation) \odot
    {<<DbWrite("error")>>} \odot AtMostTwice({<<Later("write", 0)>>}))

(* The temporary file stays. *)
ExportCsv ==
  Performer("__csv_data_export",
    AtMostTwice({<<DbRead("log")>>}) \odot {<<Tmp, Check("notice")>>})

(* A table that cannot be read is left out, or is cut off where it could not. *)
ExportTable == {<<Check("log"), DbRead("log"), DbRead("log")>>}

ExportData ==
  Performer("__data_export",
    {<<Check("error"), Check("error")>>} \odot AtMostTwice(ExportTable) \odot
    {<<Check("log")>>})

(* A file that cannot be read is an error at the end, a row that cannot be inserted
   is counted. *)
ImportFile == {<<Later("check", 1), Input>>, <<Later("check", 2), Input, DbWrite("count")>>,
               <<Later("check", 3), Input, Later("write", 0), DbWrite("count")>>}

ImportData ==
  Performer("__data_import", {<<DbRead("log"), Check("error")>>} \odot AtMostTwice(ImportFile))

(* The files of an upload are kept in the schema folder, with a description of the
   table made from them. *)
UploadFiles(save) ==
  {<<Input, Check("error"), Input, Check("error"), Outside("log"), Check("error"),
     Check("error"), Outside(save)>>} \odot AtMostTwice({<<DbWrite("log")>>})

UploadCsv ==
  Performer("__upload_csv_file_to_entity",
    {<<Input, Check("error"), Impossible("notice")>>} \cup UploadFiles("error"))

UploadXlsx ==
  Performer("__upload_xlsx_file_to_entity",
    {<<Input, Check("error"), Impossible("notice")>>} \cup UploadFiles("log"))

RandomData ==
  Performer("generate.random.data",
    {<<Input, Check("error"), Input>>} \odot
    AtMostTwice({<<DbRead("log")>>}) \odot AtMostTwice({<<DbWrite("log")>>}))

------------------------------------------------------------------------------
(* Integrations described by OpenAPI. *)

InstallIntegration ==
  Performer("integration.install",
    {<<DbRead("error"), Check("error"), Check("error"), Check("error"), Check("panic"),
       Check("error"), DbWrite("error")>>})

IntegrationUrl ==
  <<Check("error"), Check("log"), Check("error"), Check("error"), Input>>

(* The body is made from the schema of the operation and the values of the outcome, of
   a type that is asserted; one that cannot be made is left out. *)
IntegrationBody == Maybe(<<Input, Check("log")>>)

(* A token that cannot be had is left out of the request. *)
IntegrationAuth == {<<>>} \cup StoredToken("log")

(* The answer must be JSON: anything else is an error, after the call. *)
IntegrationCall == <<Check("error"), Outside("error"), Check("error")>>

ExecuteIntegration ==
  Performer("(integration)",
    {IntegrationUrl} \odot IntegrationBody \odot IntegrationAuth \odot {IntegrationCall})

AllPerformers ==
  {ResponseCreate, RandomValue, RestartSystem, DownloadConfig, EnableGraphql,
   BecomeAdministrator, ExecuteCommand, RenderTemplate, NetworkRequest,
   SelfSignedCertificate, AcmeCertificate, OauthToken, OauthLoginBegin,
   OauthLoginResponse, OauthProfileExchange, GenerateJwtToken, SwitchSessionUser,
   PasswordResetBegin, PasswordResetVerify, OtpGenerate, OtpLoginVerify, MailSend,
   AwsMailSend, MailServersSync, FileUpload, FileDelete, FolderCreate, PathMove,
   SiteCreate, SiteSync, ColumnSync, SiteFileList, SiteFileGet, ImportCloudFiles,
   RenameColumn, DeleteColumn, DeleteTable, ExportCsv, ExportData, ImportData,
   UploadCsv, UploadXlsx, RandomData, InstallIntegration, ExecuteIntegration}

------------------------------------------------------------------------------
(* These call a service or write a file and may fail after it: an answer that is not
   JSON, a certificate or a token that cannot be stored, a sheet that cannot be read. *)
FailAfterReaching ==
  {"(integration)", "acme.tls.generate", "oauth.login.response",
   "__upload_csv_file_to_entity", "__upload_xlsx_file_to_entity"}

(* These report a success although writes were lost: rows of an import are counted or
   logged one by one, which on PostgreSQL loses them all; a refreshed token is only
   logged; becoming an administrator and enabling GraphQL confuse the outcomes. *)
LoseWrites ==
  {"(integration)", "oauth.token", "__become_admin", "__enable_graphql", "__data_import",
   "cloud_store.files.import", "generate.random.data",
   "__upload_csv_file_to_entity", "__upload_xlsx_file_to_entity"}
=============================================================================
