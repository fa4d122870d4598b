--------------------------- MODULE StandardTables ---------------------------
(* The tables every server has (StandardTables, StandardColumns, StandardRelations of
   columns.go): for each the names of its own columns. Types, defaults, labels
   and permissions are left out. *)
EXTENDS Integers, Sequences

document == {"document_name", "document_path", "document_extension", "mime_type",
             "document_content"}
calendar == {"rpath", "content"}
collection == {"name", "description"}
credential == {"name", "content"}
certificate == {"hostname", "issuer", "generated_at", "certificate_pem",
                "root_certificate", "private_key_pem", "public_key_pem"}
feed == {"feed_name", "title", "description", "link", "author_name", "author_email",
         "enable", "enable_atom", "enable_json", "enable_rss", "page_size"}
integration == {"name", "specification_language", "specification_format",
                "specification", "authentication_type", "authentication_specification",
                "enable"}
task == {"name", "action_name", "entity_name", "schedule", "active", "attributes",
         "job_type"}
template == {"name", "content", "action_config", "cache_config", "mime_type", "headers",
             "url_pattern"}
json_schema == {"schema_name", "json_schema"}
timeline == {"event_type", "title", "payload"}
world == {"table_name", "world_schema_json", "default_permission", "is_top_level",
          "is_hidden", "is_join_table", "is_state_tracking_enabled", "default_order",
          "icon"}
stream == {"stream_name", "enable", "stream_contract"}
user_otp_account == {"mobile_number", "otp_secret", "verified"}
user_account == {"name", "email", "password", "confirmed"}
usergroup == {"name"}
action == {"action_name", "label", "instance_optional", "action_schema"}
smd == {"name", "label", "initial_state", "events"}
oauth_connect == {"name", "client_id", "client_secret", "scope", "response_type",
                  "redirect_uri", "auth_url", "token_url", "profile_url",
                  "profile_email_path", "allow_login", "access_type_offline"}
data_exchange == {"name", "source_attributes", "source_type", "target_attributes",
                  "attributes", "target_type", "options"}
oauth_token == {"access_token", "expires_in", "refresh_token", "token_type"}
(* Mutant of cloud_store: the root is called differently. *)
cloud_store_renamed == {"name", "store_type", "store_provider", "root", "credential_name",
                        "store_parameters"}

cloud_store == {"name", "store_type", "store_provider", "root_path", "credential_name",
                "store_parameters"}
site == {"name", "hostname", "path", "enable", "ftp_enabled", "site_type"}
mail_server == {"hostname", "is_enabled", "listen_interface", "max_size", "max_clients",
                "xclient_on", "always_on_tls", "authentication_required"}
mail_account == {"username", "password", "password_md5"}
mail_box == {"name", "subscribed", "uidvalidity", "nextuid", "attributes", "flags",
             "permanent_flags"}
mail == {"message_id", "mail_id", "from_address", "internal_date", "to_address",
         "reply_to_address", "sender_address", "subject", "body", "mail", "spam_score",
         "hash", "content_type", "content", "recipient", "has_attachment", "ip_addr",
         "return_path", "is_tls", "seen", "recent", "deleted", "spam", "size", "flags"}
outbox == {"from_address", "to_address", "to_host", "mail", "sent"}

OwnColumns ==
  [document |-> document, calendar |-> calendar, collection |-> collection,
   credential |-> credential, certificate |-> certificate, feed |-> feed,
   integration |-> integration, task |-> task, template |-> template,
   json_schema |-> json_schema, timeline |-> timeline, world |-> world,
   stream |-> stream, user_otp_account |-> user_otp_account,
   user_account |-> user_account, usergroup |-> usergroup, action |-> action,
   smd |-> smd, oauth_connect |-> oauth_connect, data_exchange |-> data_exchange,
   oauth_token |-> oauth_token, cloud_store |-> cloud_store, site |-> site,
   mail_server |-> mail_server, mail_account |-> mail_account, mail_box |-> mail_box,
   mail |-> mail, outbox |-> outbox]

StandardTables == DOMAIN OwnColumns

StandardColumns == {"id", "version", "created_at", "updated_at", "reference_id", "permission"}

(* has_one and belongs_to leave a column in the subject of the relation. *)
Relation(subject, rel, object) ==
  [subject |-> subject, relation |-> rel, object |-> object, column |-> object \o "_id"]
RelationAs(subject, rel, object, column) ==
  [subject |-> subject, relation |-> rel, object |-> object, column |-> column]

StandardRelations ==
  {Relation("action", "belongs_to", "world"), Relation("feed", "belongs_to", "stream"),
   Relation("world", "has_many", "smd"), Relation("oauth_token", "has_one", "oauth_connect"),
   Relation("data_exchange", "has_one", "oauth_token"),
   RelationAs("data_exchange", "has_one", "user_account", "as_user_id"),
   Relation("timeline", "belongs_to", "world"),
   Relation("cloud_store", "has_one", "credential"),
   Relation("site", "has_one", "cloud_store"),
   Relation("mail_account", "belongs_to", "mail_server"),
   Relation("mail_box", "belongs_to", "mail_account"),
   Relation("mail", "belongs_to", "mail_box"),
   RelationAs("task", "has_one", "user_account", "as_user_id"),
   Relation("calendar", "has_one", "collection"),
   RelationAs("user_otp_account", "belongs_to", "user_account", "otp_of_account")}

(* Every table but usergroup belongs to its owner. *)
ColumnsOf(table) ==
  StandardColumns \cup OwnColumns[table] \cup
  {r.column : r \in {q \in StandardRelations :
                       q.subject = table /\ q.relation \in {"has_one", "belongs_to"}}} \cup
  (IF table = "usergroup" THEN {} ELSE {"user_account_id"})
=============================================================================
