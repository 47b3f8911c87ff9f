------------------------------ MODULE Settings ------------------------------
(***************************************************************************)
(* The settings an administrator edits in the console, and the devices     *)
(* that the onboarding confirms: pinoc/config_store.py and the handlers of *)
(* web/app.py, with security.redact() and restore_redacted() between the   *)
(* file and the form.  A configuration is reduced to the notification      *)
(* channels, each with a credential under a key of its own or within its   *)
(* URL, a report that names a channel, an SLO that names a tag, and the    *)
(* sections with a value out of range.  Bundles has the write itself.      *)
(***************************************************************************)
EXTENDS Naturals, Sequences

CONSTANTS Admins,      (* request threads, each of an administrator          *)
          RangedSections,    (* sections of which only ranges and types count      *)
          Tags,        (* tags of devices                                    *)
          MaxEdits,    (* bound: edits of forms                              *)
          MaxConfirms  (* bound: confirmed devices                           *)

VARIABLES saved,    (* config.json                                           *)
          current,  (* app.config["PINOC_CONFIG"]                            *)
          form,     (* an administrator's form, or request in progress       *)
          devices,  (* config/devices.json: tag of each device, or NoTag     *)
          confirm,  (* an onboarding confirmation in progress                *)
          edits, confirms

settingsVars == <<saved, current, form, devices, confirm, edits, confirms>>

Ids      == {"first", "second"}
Redacted == "[REDACTED]"
NoTag    == "no tag"
NoForm   == [at |-> "closed"]
NoConfirm == [at |-> "none"]
Initial  == [channels |-> <<[id |-> "first", in |-> "key", secret |-> "s1"],
                            [id |-> "second", in |-> "url", secret |-> "s2"]>>,
             report |-> "first", slo |-> NoTag, broken |-> {}]

SettingsInit == /\ saved = Initial /\ current = Initial
                /\ form = [a \in Admins |-> NoForm] /\ devices = [d \in Ids |-> NoTag]
                /\ confirm = [a \in Admins |-> NoConfirm] /\ edits = 0 /\ confirms = 0

-----------------------------------------------------------------------------
(* validate_config(), one operator for what it compares.                   *)
IdsOf(v) == {v.channels[i].id : i \in DOMAIN v.channels}
ValidNotifications(v) == \A i, j \in DOMAIN v.channels :
                            v.channels[i].id = v.channels[j].id => i = j
ValidReports(v) == v.report \in IdsOf(v) \cup {NoTag}
KnownTags == {devices[d] : d \in Ids} \ {NoTag}
ValidSlos(v) == v.slo = NoTag \/ KnownTags = {} \/ v.slo \in KnownTags
InRange(v) == v.broken = {}

Valid(v) == ValidNotifications(v) /\ ValidReports(v) /\ ValidSlos(v) /\ InRange(v)

(* redact(): credentials under a key, and those that a URL shows.          *)
Served(v) == [v EXCEPT !.channels = [i \in DOMAIN v.channels |->
                                        [v.channels[i] EXCEPT !.secret = Redacted]]]

(* restore_redacted(): by key and by place in the list; the text of a URL  *)
(* stays as it was sent.                                                   *)
Awaits(c) == c.in = "key" /\ c.secret = Redacted
HasSecret(i) == i \in DOMAIN current.channels /\ current.channels[i].in = "key"
Restorables(v) == \A i \in DOMAIN v.channels : Awaits(v.channels[i]) => HasSecret(i)
Unredacted(v) == [v EXCEPT !.channels = [i \in DOMAIN v.channels |->
                   IF Awaits(v.channels[i]) /\ HasSecret(i)
                   THEN [v.channels[i] EXCEPT !.secret = current.channels[i].secret]
                   ELSE v.channels[i]]]

-----------------------------------------------------------------------------
(* api_settings() serves the form; save_settings() takes it back, restores *)
(* and validates it, writes the file, and only then keeps it as current.   *)
FormOpens(a) == /\ form[a].at = "closed"
                /\ form' = [form EXCEPT ![a] = [at |-> "open", value |-> Served(current)]]
                /\ UNCHANGED <<saved, current, devices, confirm, edits, confirms>>

NewChannel == [id : Ids, in : {"key", "url"}, secret : {"s3"}]
Edited(v) == {[v EXCEPT !.channels = Tail(@)], [v EXCEPT !.report = NoTag]}
             \cup {[v EXCEPT !.channels = Append(@, c)] : c \in NewChannel}
             \cup {[v EXCEPT !.report = k] : k \in Ids}
             \cup {[v EXCEPT !.slo = t] : t \in Tags}
             \cup {[v EXCEPT !.broken = @ \cup {s}] : s \in RangedSections}

FormEdits(a) == /\ form[a].at = "open" /\ edits < MaxEdits /\ edits' = edits + 1
                /\ Len(form[a].value.channels) \in 1..2
                /\ \E v \in Edited(form[a].value) : form' = [form EXCEPT ![a].value = v]
                /\ UNCHANGED <<saved, current, devices, confirm, confirms>>

FormSubmits(a) == /\ form[a].at = "open"
                  /\ LET v == form[a].value IN
                     form' = [form EXCEPT ![a] =
                         IF Restorables(v) /\ Valid(Unredacted(v))
                         THEN [at |-> "restored", value |-> v, whole |-> Unredacted(v)]
                         ELSE NoForm]
                  /\ UNCHANGED <<saved, current, devices, confirm, edits, confirms>>

(* atomic_save(), which validates again, or the write fails.               *)
SettingsWritten(a) == /\ form[a].at = "restored" /\ Valid(form[a].whole)
                      /\ saved' = form[a].whole
                      /\ form' = [form EXCEPT ![a].at = "written"]
                      /\ UNCHANGED <<current, devices, confirm, edits, confirms>>

SettingsRefused(a) == /\ form[a].at = "restored" /\ form' = [form EXCEPT ![a] = NoForm]
                      /\ UNCHANGED <<saved, current, devices, confirm, edits, confirms>>

SettingsKept(a) == /\ form[a].at = "written" /\ current' = form[a].whole
                   /\ form' = [form EXCEPT ![a] = NoForm]
                   /\ UNCHANGED <<saved, devices, confirm, edits, confirms>>

(* The service starts again, with what load_config() finds.                *)
ConsoleRestarts == /\ current # saved /\ current' = saved
                   /\ form' = [a \in Admins |-> IF form[a].at = "open" THEN form[a] ELSE NoForm]
                   /\ confirm' = [a \in Admins |-> NoConfirm]
                   /\ UNCHANGED <<saved, devices, edits, confirms>>

-----------------------------------------------------------------------------
(* api_onboarding_confirm(): the devices are read, the submitted entries   *)
(* replace those of their ids, and all are validated and written.          *)
ConfirmReads(a) ==
    /\ confirm[a].at = "none" /\ confirms < MaxConfirms /\ confirms' = confirms + 1
    /\ \E d \in Ids, t \in Tags \cup {NoTag} :
          confirm' = [confirm EXCEPT ![a] = [at |-> "read", merged |-> [devices EXCEPT ![d] = t]]]
    /\ UNCHANGED <<saved, current, form, devices, edits>>

ConfirmWrites(a) == /\ confirm[a].at = "read" /\ devices' = confirm[a].merged
                    /\ confirm' = [confirm EXCEPT ![a] = NoConfirm]
                    /\ UNCHANGED <<saved, current, form, edits, confirms>>

(* An entry that does not parse, or a write that fails.                    *)
ConfirmFails(a) == /\ confirm[a].at = "read" /\ confirm' = [confirm EXCEPT ![a] = NoConfirm]
                   /\ UNCHANGED <<saved, current, form, devices, edits, confirms>>

SettingsNext == \/ \E a \in Admins : \/ FormOpens(a) \/ FormEdits(a) \/ FormSubmits(a)
                                     \/ SettingsWritten(a) \/ SettingsRefused(a)
                                     \/ SettingsKept(a)
                                     \/ ConfirmReads(a) \/ ConfirmWrites(a) \/ ConfirmFails(a)
                \/ ConsoleRestarts

SettingsSpec == SettingsInit /\ [][SettingsNext]_settingsVars

(* "redacts secret-valued keys and restores them on save" (README): a      *)
(* channel that is sent as it was served keeps the credential it has.      *)
UntouchedStays ==
    [][\A a \in Admins : form[a].at = "restored" /\ form'[a].at = "written" =>
          \A i \in DOMAIN saved'.channels, j \in DOMAIN saved.channels :
             /\ form[a].value.channels[i].secret = Redacted
             /\ saved'.channels[i].id = saved.channels[j].id
             => saved'.channels[i].secret = saved.channels[j].secret]_settingsVars
=============================================================================
