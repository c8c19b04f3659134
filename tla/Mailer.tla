------------------------------- MODULE Mailer -------------------------------
(***************************************************************************)
(* A workspace's own mail server: the row of settings, the transport built  *)
(* from it and cached in the process, the mails and trials that use it, and *)
(* the console's page (mail.service.ts, mail-settings.service.ts,           *)
(* mail.controller.ts, web-admin mail/page.tsx).                            *)
(*                                                                          *)
(* Every await between two accesses is a boundary between steps.  Who gets  *)
(* which mail, how it looks and the sender's name are left out; a server is *)
(* its host, port and user name.                                            *)
(***************************************************************************)
EXTENDS Naturals

CONSTANTS
  Admins,
  Servers, OpenServers,  \* those in OpenServers ask for no user name
  Passwords, Blank,      \* what may be stored; Blank is the empty string
  Absent,                \* no row, no transport, no call, a field left out
  MaxInserts,            \* bound on rows ever inserted
  MaxAsks                \* bound on saves, removals, mails and trials begun

ASSUME MailerAssumption ==
  /\ OpenServers \subseteq Servers
  /\ Blank \notin Passwords /\ Absent \notin Servers \cup Passwords \cup {Blank}
  /\ {MaxInserts, MaxAsks} \subseteq Nat

VARIABLES
  platform,  \* whether the process has a server of its own (SMTP_HOST)
  setting,   \* the row of TenantMailSetting
  inserted,  \* rows inserted so far
  requests,  \* requests begun so far
  cache,     \* tenantTransports of this workspace
  mailTab,   \* each administrator's page
  mailCall   \* the calls under way

mailVars == <<platform, setting, inserted, requests, cache, mailTab, mailCall>>

MailSecrets == Passwords \cup {Blank}
Platform == [server |-> Absent, password |-> Absent]
Transports == [server : Servers, password : MailSecrets] \cup {Platform}

(* A verdict names the transport that was tried, and one is cached; it is   *)
(* late if a write of the settings has come between.                        *)
Tries == [of : Transports, late : BOOLEAN]

SettingType ==
  [ id : 1..MaxInserts, server : Servers, password : MailSecrets, enabled : BOOLEAN,
    verified : Tries \cup {Absent}, error : Tries \cup {Absent} ]

(* An administrator saves or clears in one call and tries in another; one   *)
(* more is any mail of the workspace.                                       *)
TryKeys == (Admins \X {"try"}) \cup {<<Absent, "mail">>}
MailKeys == (Admins \X {"save"}) \cup TryKeys

SaveCall ==
  [ at : {"save"}, server : Servers, enabled : BOOLEAN, typed : MailSecrets \cup {Absent},
    left : BOOLEAN, old : SettingType \cup {Absent}, late : BOOLEAN ]
ClearCall == [at : {"clear"}, left : BOOLEAN, old : SettingType, late : BOOLEAN]
WrittenCall == [at : {"saved", "cleared"}, left : BOOLEAN]
TryCall ==
  [ at : {"resolved", "trying", "failed", "passed", "failing", "passing"},
    verify : BOOLEAN, late : BOOLEAN, of : Transports \cup {Absent},
    old : SettingType \cup {Absent} ]

ASSUME AbsentAssumption ==
  \A records \in {Transports, Tries, SettingType, SaveCall, ClearCall, WrittenCall, TryCall} :
    Absent \notin records

MailerTypeOK ==
  /\ platform \in BOOLEAN /\ inserted \in 0..MaxInserts /\ requests \in 0..MaxAsks
  /\ setting \in SettingType \cup {Absent}
  /\ cache \in Tries \cup {Absent}
  /\ mailTab \in
       [ Admins -> [ at : {"loading", "form"}, saved : BOOLEAN,
                     busy : {"no", "save", "try"}, left : BOOLEAN ] ]
  /\ \A a \in Admins :
       mailCall[a, "save"] \in SaveCall \cup ClearCall \cup WrittenCall \cup {Absent}
  /\ \A k \in TryKeys : mailCall[k] \in TryCall \cup {Absent}

MailerInit ==
  /\ platform \in BOOLEAN
  /\ setting = Absent /\ inserted = 0 /\ requests = 0 /\ cache = Absent
  /\ mailTab = [ a \in Admins |-> [ at |-> "loading", saved |-> FALSE, busy |-> "no",
                                    left |-> FALSE ] ]
  /\ mailCall = [k \in MailKeys |-> Absent]

-----------------------------------------------------------------------------
(* What a row means *)

(* resolveFor: an empty password does not decrypt, so that a server with a  *)
(* user name is not used without one.                                       *)
Own(row) ==
  IF row # Absent /\ row.enabled /\ (row.server \in OpenServers \/ row.password # Blank)
  THEN [server |-> row.server, password |-> row.password]
  ELSE Absent

(* The transport of a mail, given the workspace's own or none. *)
InForce(own) == IF own # Absent THEN own ELSE IF platform THEN Platform ELSE Absent

(* A write overtakes every call that has read, or is trying a transport. *)
Overtaken(calls) ==
  [ k \in MailKeys |->
      IF calls[k] # Absent /\ calls[k].at \notin {"saved", "cleared"}
      THEN [calls[k] EXCEPT !.late = TRUE] ELSE calls[k] ]

(* A save or removal is between its write and the end of the cached         *)
(* transport.                                                               *)
Saving(a) ==
  mailCall[a, "save"] # Absent /\ mailCall[a, "save"].at \in {"saved", "cleared"}
Unsettled == \E a \in Admins : Saving(a)

(* One more request; a test that follows a failed message is not counted. *)
Asked == requests < MaxAsks /\ requests' = requests + 1

-----------------------------------------------------------------------------
(* The page *)

(* load: the reply shows the row and fills the form.  After a failure there *)
(* is only a button to load again.                                          *)
Loaded(a) ==
  /\ mailTab[a].at = "loading"
  /\ mailTab' = [mailTab EXCEPT ![a].at = "form", ![a].saved = setting # Absent]
  /\ UNCHANGED <<requests, platform, setting, inserted, cache, mailCall>>

-----------------------------------------------------------------------------
(* Saving and clearing *)

(* save of the page, and update up to its write.  The password goes along   *)
(* only if the field was touched, which clearing the settings does not undo *)
(* ("left"); without one, what was read is kept.                            *)
SaveBegin(a, server, enabled, typed) ==
  /\ mailTab[a].at = "form" /\ mailTab[a].busy # "save"
  /\ mailCall[a, "save"] = Absent /\ Asked
  /\ mailTab[a].left => typed # Absent
  /\ setting = Absent => typed \in Passwords \/ server \in OpenServers
  /\ mailTab' = [mailTab EXCEPT ![a].busy = "save"]
  /\ mailCall' = [ mailCall EXCEPT
                     ![<<a, "save">>] = [ at |-> "save", server |-> server, enabled |-> enabled,
                                      typed |-> typed, left |-> mailTab[a].left /\ typed = Blank,
                                      old |-> setting, late |-> FALSE ] ]
  /\ UNCHANGED <<platform, setting, inserted, cache>>

SentPassword(call) == IF call.typed = Absent THEN Blank ELSE call.typed

StoredPassword(call) ==
  IF call.typed # Absent THEN call.typed
  ELSE IF call.old = Absent THEN Blank ELSE call.old.password

Written(call, id) ==
  [ id |-> id, server |-> call.server, enabled |-> call.enabled,
    password |-> StoredPassword(call), verified |-> Absent, error |-> Absent ]

(* "Any change invalidates a previous verdict; it has not been tried yet." *)
SavedRow(call, id) == Written(call, id)

(* The row that was read is updated by its id, or the first one inserted. *)
SaveWrite(a) ==
  LET call == mailCall[a, "save"]
  IN  /\ call # Absent /\ call.at = "save"
      /\ IF call.old = Absent
         THEN setting = Absent /\ inserted < MaxInserts /\ inserted' = inserted + 1
         ELSE setting # Absent /\ setting.id = call.old.id /\ UNCHANGED inserted
      /\ setting' = SavedRow(call, IF call.old = Absent THEN inserted + 1 ELSE setting.id)
      /\ mailCall' = Overtaken([ mailCall EXCEPT
                                   ![<<a, "save">>] = [at |-> "saved", left |-> FALSE] ])
      /\ UNCHANGED <<requests, platform, cache, mailTab>>

(* clear; the field may have been touched before. *)
ClearBegin(a, touched) ==
  /\ mailTab[a].at = "form" /\ mailTab[a].busy = "no" /\ mailTab[a].saved
  /\ mailCall[a, "save"] = Absent /\ Asked
  /\ mailTab[a].left => touched
  /\ mailTab' = [mailTab EXCEPT ![a].busy = "save"]
  /\ mailCall' = [ mailCall EXCEPT
                     ![<<a, "save">>] =
                        IF setting = Absent THEN [at |-> "cleared", left |-> touched]
                        ELSE [at |-> "clear", left |-> touched, old |-> setting, late |-> FALSE] ]
  /\ UNCHANGED <<platform, setting, inserted, cache>>

ClearWrite(a) ==
  LET call == mailCall[a, "save"]
  IN  /\ call # Absent /\ call.at = "clear"
      /\ setting # Absent /\ setting.id = call.old.id
      /\ setting' = Absent
      /\ mailCall' = Overtaken([ mailCall EXCEPT
                                   ![<<a, "save">>] = [at |-> "cleared", left |-> call.left] ])
      /\ UNCHANGED <<requests, platform, inserted, cache, mailTab>>

DroppedIfReplaced(transport) == IF Own(setting) = Absent THEN transport ELSE Absent
Dropped(transport) == Absent

(* Once the audit log is written, the controller drops the transport; the   *)
(* page forgets the password, though not that it was touched when clearing, *)
(* and loads anew.  If the reply is lost, the page stays as it is.          *)
Invalidate(a, heard) ==
  /\ Saving(a)
  /\ cache' = Dropped(cache)
  /\ mailTab' =
       [ mailTab EXCEPT
           ![a] = IF heard
                  THEN [@ EXCEPT !.at = "loading", !.busy = "no", !.left = mailCall[a, "save"].left]
                  ELSE [@ EXCEPT !.busy = "no"] ]
  /\ mailCall' = [mailCall EXCEPT ![<<a, "save">>] = Absent]
  /\ UNCHANGED <<requests, platform, setting, inserted>>

(* A save that fails: the row has gone or come meanwhile, or any statement, *)
(* the audit's too, after which the transport stays.                        *)
SaveFails(a) ==
  /\ mailCall[a, "save"] # Absent
  /\ cache' = IF Saving(a) /\ cache # Absent THEN [cache EXCEPT !.late = TRUE] ELSE cache
  /\ mailTab' = [mailTab EXCEPT ![a].busy = "no"]
  /\ mailCall' = [mailCall EXCEPT ![<<a, "save">>] = Absent]
  /\ UNCHANGED <<requests, platform, setting, inserted>>

-----------------------------------------------------------------------------
(* Mails and trials *)

(* transportFor: the cached transport, or the row is read for one. *)
Begun(verify) ==
  IF cache # Absent
  THEN [ at |-> "trying", verify |-> verify, of |-> cache.of,
         late |-> cache.late \/ Unsettled, old |-> Absent ]
  ELSE [at |-> "resolved", verify |-> verify, of |-> Own(setting), late |-> FALSE, old |-> Absent]

(* Any mail of the workspace: an invitation, a link, a reminder. *)
MailBegin ==
  /\ mailCall[Absent, "mail"] = Absent /\ Asked
  /\ mailCall' = [mailCall EXCEPT ![<<Absent, "mail">>] = Begun(FALSE)]
  /\ UNCHANGED <<platform, setting, inserted, cache, mailTab>>

(* test and sendTest of the page. *)
TrialBegin(a, verify) ==
  /\ mailTab[a].at = "form" /\ mailTab[a].busy = "no" /\ mailTab[a].saved
  /\ mailCall[a, "try"] = Absent /\ Asked
  /\ mailTab' = [mailTab EXCEPT ![a].busy = "try"]
  /\ mailCall' = [mailCall EXCEPT ![<<a, "try">>] = Begun(verify)]
  /\ UNCHANGED <<platform, setting, inserted, cache>>

(* The call is over.  A test message that was not sent is followed by a     *)
(* test of the connection, which does not keep the page busy.               *)
Over(k, sent) ==
  /\ mailCall' = [ mailCall EXCEPT
                     ![k] = IF k[2] = "try" /\ ~mailCall[k].verify /\ ~sent
                            THEN Begun(TRUE) ELSE Absent ]
  /\ mailTab' = IF k[2] = "try" THEN [mailTab EXCEPT ![k[1]].busy = "no"] ELSE mailTab

At(k, where) == mailCall[k] # Absent /\ mailCall[k].at = where

(* The workspace's own transport is built and cached; without one, the      *)
(* platform's serves.                                                       *)
Build(k) ==
  LET call == mailCall[k]
      of   == InForce(call.of)
  IN  /\ At(k, "resolved")
      /\ cache' = IF call.of = Absent THEN cache ELSE [of |-> call.of, late |-> call.late]
      /\ IF of = Absent THEN Over(k, FALSE)
         ELSE /\ mailCall' = [mailCall EXCEPT ![k] = [@ EXCEPT !.at = "trying", !.of = of]]
              /\ UNCHANGED mailTab
      /\ UNCHANGED <<requests, platform, setting, inserted>>

(* What the server says.  A failure is recorded, and a verification either  *)
(* way; a message that was sent is not.                                     *)
Tried(k, ok) ==
  /\ At(k, "trying")
  /\ IF ok /\ ~mailCall[k].verify THEN Over(k, TRUE)
     ELSE /\ mailCall' = [mailCall EXCEPT ![k].at = IF ok THEN "passed" ELSE "failed"]
          /\ UNCHANGED mailTab
  /\ UNCHANGED <<requests, platform, setting, inserted, cache>>

(* recordVerification reads the row, if there is one. *)
RecordRead(k) ==
  LET call  == mailCall[k]
      where == IF call.at = "passed" THEN "passing" ELSE "failing"
  IN  /\ At(k, "passed") \/ At(k, "failed")
      /\ IF setting = Absent THEN Over(k, FALSE)
         ELSE /\ mailCall' = [mailCall EXCEPT ![k] = [call EXCEPT !.at = where, !.old = setting]]
              /\ UNCHANGED mailTab
      /\ UNCHANGED <<requests, platform, setting, inserted, cache>>

(* It writes the verdict by the row's id; on a failure, the time of the     *)
(* last success goes back as it was read.                                   *)
RecordWrite(k) ==
  LET call    == mailCall[k]
      verdict == [of |-> call.of, late |-> call.late]
      before  == IF call.old.verified = Absent THEN Absent
                 ELSE [call.old.verified EXCEPT !.late = @ \/ call.late]
  IN  /\ At(k, "passing") \/ At(k, "failing")
      /\ setting' =
           IF setting = Absent \/ setting.id # call.old.id THEN setting
           ELSE [ setting EXCEPT
                    !.verified = IF call.at = "passing" THEN verdict ELSE before,
                    !.error = IF call.at = "passing" THEN Absent ELSE verdict ]
      /\ Over(k, FALSE)
      /\ UNCHANGED <<requests, platform, inserted, cache>>

(* The process is restarted: what it was doing is lost, and its cache. *)
MailerRestart ==
  /\ cache' = Absent
  /\ mailCall' = [k \in MailKeys |-> Absent]
  /\ mailTab' = [a \in Admins |-> [mailTab[a] EXCEPT !.busy = "no"]]
  /\ UNCHANGED <<requests, platform, setting, inserted>>

MailerNext ==
  \/ \E a \in Admins :
       \/ Loaded(a)
       \/ \E server \in Servers, enabled \in BOOLEAN, typed \in MailSecrets \cup {Absent} :
            SaveBegin(a, server, enabled, typed)
       \/ SaveWrite(a) \/ ClearWrite(a)
       \/ \E touched \in BOOLEAN : ClearBegin(a, touched)
       \/ \E heard \in BOOLEAN : Invalidate(a, heard)
       \/ SaveFails(a)
       \/ \E verify \in BOOLEAN : TrialBegin(a, verify)
  \/ MailBegin
  \/ \E k \in TryKeys :
       \/ Build(k) \/ RecordRead(k) \/ RecordWrite(k)
       \/ \E ok \in BOOLEAN : Tried(k, ok)
  \/ MailerRestart

MailerSpec == MailerInit /\ [][MailerNext]_mailVars

-----------------------------------------------------------------------------
(* Properties *)

(* "Takes effect immediately instead of after a restart" (mail.service.ts): *)
(* a cached transport is the one of the row stored, unless it was built     *)
(* from a reading that a write overtook, or the write's request died.       *)
SettingsInForce ==
  cache # Absent /\ ~Unsettled => cache.of = Own(setting) \/ cache.late

(* What the console says of the last attempt is about the settings stored,  *)
(* unless they were written while the attempt was under way.                *)
VerdictIsOfSettings ==
  setting # Absent =>
    \A verdict \in {setting.verified, setting.error} \ {Absent} :
      verdict.of = InForce(Own(setting)) \/ verdict.late

(* Row, transport and verdict go together. *)
MailerInv == MailerTypeOK /\ SettingsInForce /\ VerdictIsOfSettings

(* "The stored value must survive an edit to any other field" (the page):   *)
(* a password changes only if another was typed, or another save came       *)
(* between, or one typed before clearing the settings is still touched.     *)
PasswordKept ==
  [][ setting # Absent /\ setting' # Absent /\ setting'.id = setting.id
        => \/ setting'.password = setting.password
           \/ \E a \in Admins :
                LET call == mailCall[a, "save"]
                IN  /\ call # Absent /\ call.at = "save" /\ Saving(a)'
                    /\ call.typed # Absent \/ call.late ]_mailVars
=============================================================================
