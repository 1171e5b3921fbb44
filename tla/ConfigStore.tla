---------------------------- MODULE ConfigStore ----------------------------
(***************************************************************************)
(* Configuration in three places: the user list of user.Manager (its own   *)
(* lock m.mu), Runtime.Config with the objects built from it (r.mu), and   *)
(* the YAML file.  Admin API and WebUI requests run concurrently; each is  *)
(* the sequence of locked steps its handler performs.                      *)
(*                                                                         *)
(* A user is its name, the mask host of its secret ("" for a dd secret)    *)
(* and the enabled flag.  A "setting" is one value of the whole            *)
(* SettingsView.  An empty file stands for one that os.WriteFile has       *)
(* truncated and not written yet: config.Load rejects it.                  *)
(***************************************************************************)
EXTENDS Integers, Sequences

CONSTANTS
    Names, Hosts,   \* user names; mask hosts, possibly with ""
    Settings,       \* values of the SettingsView
    Reqs,           \* request slots: how many admin requests run at once
    Ops             \* which operations and failures this instance has, among
                    \* "users", "settings", "reload", "edit", "fail", "crash"

DefaultHost == "www.google.com"
Nobody == "nobody"

ASSUME NobodyFresh == Nobody \notin Reqs

User == [name : Names, host : Hosts, enabled : BOOLEAN]

VARIABLES
    users, maskHost,    \* user.Manager
    ja,                 \* Manager.ja3Allow, ja4Allow: the setting they come from
    cfg,                \* Runtime.Config: its settings (its user list is never read)
    limit,              \* Runtime.Limiter: the setting it was built from
    mu,                 \* holder of Runtime.mu, or Nobody
    disk,               \* the YAML file: [set, users], or Empty
    up,                 \* the process runs
    req,                \* request -> [pc, op, arg, snap]
    acked,              \* history: users whose creation was answered with 201
    dirty,              \* history: a settings change failed half-way, or the file
                        \* was edited and not reloaded
    unsaved,            \* history: the user list has a change that no save took up
    overlap             \* history: a reload ran at the same time as another request

mem == <<users, maskHost, ja, cfg, limit, mu>>
hist == <<acked, dirty, unsaved, overlap>>
vars == <<mem, disk, up, req, hist>>

NamesOf(us) == {us[i].name : i \in DOMAIN us}
Enabled(us) == {i \in DOMAIN us : us[i].enabled}
Snap(s, us) == [set |-> s, users |-> us]
Empty == Snap("none", << >>)

\* config.Load: the file parses, has users, and one of them is enabled.
Loadable(d) == Enabled(d.users) # {}

\* replaceUsers: the first enabled user with a host gives the mask host; with
\* none, the old one stays, and only an unset one is given the default.
replaceMaskHost(us, current) ==
    LET withHost == {i \in Enabled(us) : us[i].host # ""}
    IN IF withHost # {}
       THEN us[CHOOSE i \in withHost : \A j \in withHost : i <= j].host
       ELSE IF current = "" THEN DefaultHost ELSE current

\* refreshMaskHost: the last enabled user with a host gives the mask host;
\* without any enabled user it is left empty (and the caller gets an error).
refreshMaskHost(us) ==
    LET withHost == {i \in Enabled(us) : us[i].host # ""}
    IN IF Enabled(us) = {} THEN ""
       ELSE IF withHost = {} THEN DefaultHost
       ELSE us[CHOOSE i \in withHost : \A j \in withHost : j <= i].host

Idle == [pc |-> "idle", op |-> "none", arg |-> "none", snap |-> Empty]

\* config.Load and runtime.New from a loadable file.
Boot(d) ==
    /\ users' = d.users
    /\ maskHost' = replaceMaskHost(d.users, "")
    /\ ja' = d.set /\ limit' = d.set
    /\ cfg' = d.set
    /\ mu' = Nobody

Init ==
    /\ \E n \in Names, h \in Hosts, s \in Settings :
         LET us == << [name |-> n, host |-> h, enabled |-> TRUE] >>
         IN /\ disk = Snap(s, us)
            /\ users = us /\ maskHost = replaceMaskHost(us, "")
            /\ ja = s /\ limit = s /\ cfg = s
    /\ mu = Nobody
    /\ up = TRUE
    /\ req = [r \in Reqs |-> Idle]
    /\ acked = {} /\ dirty = FALSE /\ unsaved = FALSE /\ overlap = FALSE

\* History: a request that changes something begins while a reload runs.
NoteReload == overlap' = (overlap \/ \E q \in Reqs : req[q].op = "reload")

-----------------------------------------------------------------------------
(* User requests: change the manager under m.mu, then PersistUsers.        *)

Goto(r, pc) == req' = [req EXCEPT ![r].pc = pc]
Finish(r) == req' = [req EXCEPT ![r] = Idle]
Begin(r, pc, op, arg, snap) ==
    req' = [req EXCEPT ![r] = [pc |-> pc, op |-> op, arg |-> arg, snap |-> snap]]

\* Manager.AddUser refuses a name in use; the mask host follows a new enabled
\* user that has one.
AddUser(u) ==
    /\ u.name \notin NamesOf(users)
    /\ users' = Append(users, u)
    /\ maskHost' = IF u.enabled /\ u.host # "" THEN u.host ELSE maskHost

\* The loops over m.users stop at the first user with the name.
FirstNamed(n, i) == i \in DOMAIN users /\ users[i].name = n /\ \A j \in 1..(i - 1) : users[j].name # n

\* Manager.UpdateUser changes the user first and looks for an enabled one after.
UpdateUser(u) ==
    /\ \E i \in DOMAIN users : FirstNamed(u.name, i) /\ users' = [users EXCEPT ![i] = u]
    /\ maskHost' = refreshMaskHost(users')

\* Manager.RemoveUser: never the last user, but possibly the last enabled one.
RemoveUser(n) ==
    /\ Len(users) > 1
    /\ \E i \in DOMAIN users :
         /\ FirstNamed(n, i)
         /\ users' = SubSeq(users, 1, i - 1) \o SubSeq(users, i + 1, Len(users))
    /\ maskHost' = refreshMaskHost(users')

\* What is left when the manager has changed its list: with no enabled user the
\* request is answered with an error and the change stays, otherwise it is saved.
Changed(rq, r, op, n) ==
    /\ req' = IF Enabled(users') = {} THEN [rq EXCEPT ![r] = Idle]
              ELSE [rq EXCEPT ![r] = [pc |-> "persist", op |-> op, arg |-> n, snap |-> Empty]]
    /\ unsaved' = TRUE

\* History: a creation that is still to be answered is undone by a deletion.
Overtaken(n) ==
    [q \in Reqs |-> IF req[q].op = "create" /\ req[q].arg = n
                    THEN [req[q] EXCEPT !.arg = "none"] ELSE req[q]]

createUser(r, u) ==
    /\ "users" \in Ops /\ req[r].pc = "idle"
    /\ AddUser(u)
    /\ Begin(r, "persist", "create", u.name, Empty)
    /\ unsaved' = TRUE /\ NoteReload
    /\ UNCHANGED <<ja, cfg, limit, mu, disk, up, acked, dirty>>

updateUser(r, u) ==
    /\ "users" \in Ops /\ req[r].pc = "idle"
    /\ UpdateUser(u) /\ Changed(req, r, "update", u.name)
    /\ NoteReload
    /\ UNCHANGED <<ja, cfg, limit, mu, disk, up, acked, dirty>>

\* The WebUI's toggle reads the flag in one locked step (findUser) ...
toggleRead(r, n) ==
    /\ "users" \in Ops /\ req[r].pc = "idle"
    /\ \E i \in DOMAIN users :
         /\ users[i].name = n
         /\ Begin(r, "toggle", IF users[i].enabled THEN "disable" ELSE "enable", n, Empty)
    /\ NoteReload
    /\ UNCHANGED <<mem, disk, up, acked, dirty, unsaved>>

\* ... and writes its opposite in another, to whatever user has the name then.
toggleWrite(r) ==
    /\ req[r].pc = "toggle"
    /\ \E i \in DOMAIN users :
         /\ users[i].name = req[r].arg
         /\ UpdateUser([users[i] EXCEPT !.enabled = (req[r].op = "enable")])
    /\ Changed(req, r, req[r].op, req[r].arg)
    /\ UNCHANGED <<ja, cfg, limit, mu, disk, up, acked, dirty, overlap>>

\* The user was deleted in between.
toggleMisses(r) ==
    /\ req[r].pc = "toggle" /\ req[r].arg \notin NamesOf(users)
    /\ Finish(r)
    /\ UNCHANGED <<mem, disk, up, hist>>

deleteUser(r, n) ==
    /\ "users" \in Ops /\ req[r].pc = "idle"
    /\ RemoveUser(n) /\ Changed(Overtaken(n), r, "delete", n)
    /\ acked' = acked \ {n} /\ NoteReload
    /\ UNCHANGED <<ja, cfg, limit, mu, disk, up, dirty>>

\* PersistUsers: under r.mu, take the current users and start config.Save,
\* which truncates the file.
PersistUsers(r) ==
    /\ req[r].pc = "persist" /\ mu = Nobody
    /\ mu' = r
    /\ req' = [req EXCEPT ![r].pc = "saving", ![r].snap = Snap(cfg, users)]
    /\ disk' = Empty
    /\ unsaved' = FALSE
    /\ UNCHANGED <<users, maskHost, ja, cfg, limit, up, acked, dirty, overlap>>

\* Save could not open the file: 500 (the WebUI's toggle and delete drop the
\* error and answer as if it had worked), the file as before.
PersistFails(r) ==
    /\ "fail" \in Ops /\ req[r].pc = "persist" /\ mu = Nobody
    /\ Finish(r)
    /\ UNCHANGED <<mem, disk, up, hist>>

(* UpdateSettings: all of it under r.mu; whitelist and limiter change first. *)

\* Mutant: the limiter keeps the old setting.
UpdateSettingsNoLimiter(r, s) ==
    /\ "settings" \in Ops /\ req[r].pc = "idle" /\ mu = Nobody
    /\ mu' = r
    /\ ja' = s
    /\ Begin(r, "saving", "settings", s, Snap(s, users))
    /\ disk' = Empty
    /\ unsaved' = FALSE /\ NoteReload
    /\ UNCHANGED <<users, maskHost, cfg, limit, up, acked, dirty>>

\* Mutant: the user list is the one of the last save, not the manager's.
UpdateSettingsOldUsers(r, s) ==
    /\ "settings" \in Ops /\ req[r].pc = "idle" /\ mu = Nobody
    /\ mu' = r
    /\ ja' = s /\ limit' = s
    /\ Begin(r, "saving", "settings", s, Snap(s, disk.users))
    /\ disk' = Empty
    /\ unsaved' = FALSE /\ NoteReload
    /\ UNCHANGED <<users, maskHost, cfg, up, acked, dirty>>

UpdateSettings(r, s) ==
    /\ "settings" \in Ops /\ req[r].pc = "idle" /\ mu = Nobody
    /\ mu' = r
    /\ ja' = s /\ limit' = s
    /\ Begin(r, "saving", "settings", s, Snap(s, users))
    /\ disk' = Empty
    /\ unsaved' = FALSE /\ NoteReload
    /\ UNCHANGED <<users, maskHost, cfg, up, acked, dirty>>

\* The same when Save cannot open the file: whitelist and limiter stay changed.
UpdateSettingsFails(r, s) ==
    /\ "settings" \in Ops /\ "fail" \in Ops /\ req[r].pc = "idle" /\ mu = Nobody
    /\ ja' = s /\ limit' = s
    /\ dirty' = TRUE /\ NoteReload
    /\ UNCHANGED <<users, maskHost, cfg, mu, disk, up, req, acked, unsaved>>

\* Mutant: the manager is set back to the list that was saved.
SaveDoneResyncs(r) ==
    /\ req[r].pc = "saving"
    /\ disk' = req[r].snap
    /\ cfg' = req[r].snap.set
    /\ users' = req[r].snap.users
    /\ mu' = Nobody
    /\ acked' = IF req[r].op = "create" THEN acked \cup ({req[r].arg} \ {"none"}) ELSE acked
    /\ dirty' = IF req[r].op = "settings" THEN FALSE ELSE dirty
    /\ Finish(r)
    /\ UNCHANGED <<maskHost, ja, limit, up, unsaved, overlap>>

\* The write succeeded: r.Config = cfg, r.mu is released, the request is
\* answered with success.
SaveDone(r) ==
    /\ req[r].pc = "saving"
    /\ disk' = req[r].snap
    /\ cfg' = req[r].snap.set
    /\ mu' = Nobody
    /\ acked' = IF req[r].op = "create" THEN acked \cup ({req[r].arg} \ {"none"}) ELSE acked
    /\ dirty' = IF req[r].op = "settings" THEN FALSE ELSE dirty
    /\ Finish(r)
    /\ UNCHANGED <<users, maskHost, ja, limit, up, unsaved, overlap>>

\* Mutant: the error path returns without releasing r.mu.
SaveBreaksLocked(r) ==
    /\ "fail" \in Ops /\ req[r].pc = "saving"
    /\ dirty' = IF req[r].op = "settings" THEN TRUE ELSE dirty
    /\ unsaved' = TRUE
    /\ Finish(r)
    /\ UNCHANGED <<users, maskHost, ja, cfg, limit, mu, disk, up, acked, overlap>>

\* The write failed after the truncation: 500, and the file stays empty.
SaveBreaks(r) ==
    /\ "fail" \in Ops /\ req[r].pc = "saving"
    /\ mu' = Nobody
    /\ dirty' = IF req[r].op = "settings" THEN TRUE ELSE dirty
    /\ unsaved' = TRUE
    /\ Finish(r)
    /\ UNCHANGED <<users, maskHost, ja, cfg, limit, disk, up, acked, overlap>>

-----------------------------------------------------------------------------
(* Reload: the file is read first, then applied piece by piece; r.mu is    *)
(* held only while r.Config is stored.                                     *)

ReloadLoad(r) ==
    /\ "reload" \in Ops /\ req[r].pc = "idle"
    /\ Loadable(disk)
    /\ Begin(r, "replaceUsers", "reload", "none", disk)
    /\ dirty' = FALSE
    /\ overlap' = (overlap \/ \E q \in Reqs : req[q].pc # "idle")
    /\ UNCHANGED <<mem, disk, up, acked, unsaved>>

ReloadUsers(r) ==
    /\ req[r].pc = "replaceUsers"
    /\ users' = req[r].snap.users
    /\ maskHost' = replaceMaskHost(req[r].snap.users, maskHost)
    /\ unsaved' = FALSE
    /\ Goto(r, "fingerprints")
    /\ UNCHANGED <<ja, cfg, limit, mu, disk, up, acked, dirty, overlap>>

ReloadFingerprints(r) ==
    /\ req[r].pc = "fingerprints"
    /\ ja' = req[r].snap.set
    /\ Goto(r, "config")
    /\ UNCHANGED <<users, maskHost, cfg, limit, mu, disk, up, hist>>

ReloadConfig(r) ==
    /\ req[r].pc = "config" /\ mu = Nobody
    /\ cfg' = req[r].snap.set
    /\ Goto(r, "limiter")
    /\ UNCHANGED <<users, maskHost, ja, limit, mu, disk, up, hist>>

ReloadLimiter(r) ==
    /\ req[r].pc = "limiter"
    /\ limit' = req[r].snap.set
    /\ Finish(r)
    /\ UNCHANGED <<users, maskHost, ja, cfg, mu, disk, up, hist>>

-----------------------------------------------------------------------------
(* The environment. *)

\* The administrator edits the settings in the file by hand.
EditFile(s) ==
    /\ "edit" \in Ops /\ disk # Empty
    /\ disk' = [disk EXCEPT !.set = s]
    /\ dirty' = TRUE
    /\ UNCHANGED <<mem, up, req, acked, unsaved, overlap>>

\* The process dies; systemd starts it again from the file, which must load.
Crash ==
    /\ "crash" \in Ops
    /\ req' = [r \in Reqs |-> Idle]
    /\ dirty' = FALSE /\ unsaved' = FALSE
    /\ IF Loadable(disk) THEN Boot(disk) /\ UNCHANGED up
       ELSE up' = FALSE /\ UNCHANGED mem
    /\ UNCHANGED <<disk, acked, overlap>>

Step(r) ==
    \/ toggleWrite(r) \/ toggleMisses(r)
    \/ PersistUsers(r) \/ PersistFails(r) \/ SaveDone(r) \/ SaveBreaks(r)
    \/ ReloadUsers(r) \/ ReloadFingerprints(r) \/ ReloadConfig(r) \/ ReloadLimiter(r)

Request(r) ==
    \/ \E u \in User : createUser(r, u) \/ updateUser(r, u)
    \/ \E n \in Names : toggleRead(r, n) \/ deleteUser(r, n)
    \/ \E s \in Settings : UpdateSettings(r, s) \/ UpdateSettingsFails(r, s)
    \/ ReloadLoad(r)

Next ==
    /\ up
    /\ \/ \E r \in Reqs : Request(r) \/ Step(r)
       \/ \E s \in Settings : EditFile(s)
       \/ Crash

Spec == Init /\ [][Next]_vars

-----------------------------------------------------------------------------
(* Properties *)

\* Types, and r.mu is held exactly by the request that is writing the file, so
\* no failed save leaves the later requests waiting for ever.
TypeOK ==
    /\ users \in Seq(User) /\ Len(users) >= 1
    /\ maskHost \in Hosts \cup {"", DefaultHost}
    /\ {ja, limit, cfg} \subseteq Settings
    /\ mu \in Reqs \cup {Nobody}
    /\ up => \A r \in Reqs : (mu = r) <=> (req[r].pc = "saving")
    /\ disk = Empty \/ (disk.set \in Settings /\ disk.users \in Seq(User))
    /\ up \in BOOLEAN /\ acked \subseteq Names
    /\ dirty \in BOOLEAN /\ unsaved \in BOOLEAN /\ overlap \in BOOLEAN

Quiet == up /\ \A r \in Reqs : req[r].pc = "idle"

\* A created user is kept: once its creation was answered with success and
\* until its deletion is requested, every quiet moment finds it in memory, and
\* in the file whenever the file is readable, whatever other requests, failed
\* saves, reloads and crashes came in between.  (PersistUsers reads the list
\* under r.mu, so a save never overwrites a newer one.)  A reload that ran
\* together with another request is the exception.
AckedUserKept ==
    Quiet /\ ~overlap =>
        /\ acked \subseteq NamesOf(users)
        /\ disk = Empty \/ acked \subseteq NamesOf(disk.users)

\* docs/CONFIG.md:227 and :232: settings are written to the file and applied
\* without a restart.  In every quiet moment after successful changes and
\* reloads, the file, Runtime.Config, the fingerprint whitelist and the limiter
\* agree, with the same exception.
SettingsAgree ==
    Quiet /\ ~dirty /\ ~overlap /\ disk # Empty =>
        /\ disk.set = cfg
        /\ ja = cfg
        /\ limit = cfg

\* A saved user list is the one in use: in every quiet moment, unless a change
\* was refused after it was made (no enabled user left) or its save failed, the
\* file has exactly the manager's users, flags and hosts included, so a restart
\* changes nobody's access.  Any later save of anything, settings included,
\* brings the file up to date.
UsersAgree == Quiet /\ ~unsaved /\ ~overlap /\ disk # Empty => disk.users = users

\* docs/CONFIG.md:99, "Хотя бы один пользователь с `enabled: true`
\* обязателен": a file the proxy wrote can be loaded again.
DiskLoadable == disk = Empty \/ Loadable(disk)

-----------------------------------------------------------------------------
(* The inductive invariant behind the safety properties. *)

UserList == {us \in Seq(User) : Len(us) >= 1}
File == [set : Settings, users : UserList]
ReloadSteps == {"replaceUsers", "fingerprints", "config", "limiter"}

\* What a request is doing; while one writes the file, there is none to read.
ReqInv ==
    /\ req \in [Reqs -> [pc : {"idle", "toggle", "persist", "saving"} \cup ReloadSteps,
                          op : {"none", "create", "update", "enable", "disable", "delete", "settings", "reload"},
                          arg : Names \cup Settings \cup {"none"}, snap : File \cup {Empty}]]
    /\ disk \in File \cup {Empty}
    /\ \A r \in Reqs :
         /\ req[r].pc = "saving" => req[r].snap \in File /\ (up => disk = Empty)
         /\ req[r].pc \in ReloadSteps <=> req[r].op = "reload"
         /\ req[r].pc \in ReloadSteps => req[r].snap \in File
         /\ req[r].pc = "idle" => req[r].op = "none"
         /\ req[r].pc = "toggle" => req[r].op \in {"enable", "disable"}
         /\ req[r].op = "settings" => req[r].pc = "saving"
         /\ req[r].op = "create" => req[r].arg \in Names \cup {"none"}

\* Unless overlap has been noted, a reload runs alone.
ReloadAlone ==
    ~overlap => \A r, q \in Reqs : req[r].op = "reload" /\ q # r => req[q].pc = "idle"

\* Every copy of the user list that is in use, saved, being saved or about to
\* be put in use has the created users.
KeptInv ==
    ~overlap =>
        /\ acked \subseteq NamesOf(users)
        /\ disk # Empty => acked \subseteq NamesOf(disk.users)
        /\ \A r \in Reqs : req[r].pc \in {"saving", "replaceUsers"} => acked \subseteq NamesOf(req[r].snap.users)
        /\ \A r \in Reqs : req[r].op = "create" /\ req[r].arg # "none" =>
                /\ req[r].arg \in NamesOf(users)
                /\ req[r].pc = "saving" => req[r].arg \in NamesOf(req[r].snap.users)

\* How far a request that changes settings has come, and what agrees without one.
AgreeInv ==
    up /\ ~overlap =>
        /\ \A r \in Reqs : req[r].pc = "saving" =>
                IF req[r].op = "settings" THEN ja = req[r].snap.set /\ limit = req[r].snap.set
                ELSE req[r].snap.set = cfg
        /\ \A r \in Reqs : req[r].op = "reload" =>
                /\ disk # Empty /\ disk.users = req[r].snap.users
                /\ ~dirty => disk.set = req[r].snap.set
                /\ req[r].pc \in {"config", "limiter"} => ja = req[r].snap.set
                /\ req[r].pc = "limiter" => cfg = req[r].snap.set
        /\ ~dirty /\ (\A r \in Reqs : req[r].op \notin {"reload", "settings"}) =>
                ja = cfg /\ limit = cfg /\ (disk # Empty => disk.set = cfg)
        /\ ~unsaved => /\ disk # Empty => disk.users = users
                       /\ \A r \in Reqs : req[r].pc = "saving" => req[r].snap.users = users

StoreInv == TypeOK /\ ReqInv /\ ReloadAlone /\ KeptInv /\ AgreeInv
=============================================================================
