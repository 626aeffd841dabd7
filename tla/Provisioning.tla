---------------------------- MODULE Provisioning ----------------------------
(***************************************************************************)
(* install.sh, tools/deploy.py and uninstall.sh, run in any order on one   *)
(* server, each of which may break off at any step (set -e, check=True),   *)
(* and the rollback of docs/OPERATIONS.md between them.  What they must    *)
(* keep together: the AMI secret in Asterisk's files, in config.yaml, in   *)
(* the running Asterisk and in the running service; the API key on the     *)
(* operator's screen and the one the service accepts.                      *)
(***************************************************************************)
EXTENDS Integers

CONSTANTS
  MaxRuns,  \* bound on the scripts run; a run's number stands for the secret
            \* and the key it draws
  MaxFaults \* bound on the scripts that break off by accident

ASSUME BoundsAssumption == MaxRuns \in Nat /\ MaxFaults \in Nat

VARIABLES
  files,   \* the *_custom.conf files: our AMI user's secret, our dialplan
  loaded,  \* the same, as Asterisk has loaded them
  backups, \* what /root/otp-backup-* hold of them
  server,  \* does python search /opt/otp-service/lib (nothing here sees to
           \* it)?  Is there a /root/otp-voice-service?
  venv,    \* /opt/otp-service/venv: absent, without packages, with packages
  lib,     \* are the packages in /opt/otp-service/lib?
  source,  \* is the program in /opt/otp-service/src?
  access,  \* may the service's user enter /etc/otp-service?
  unit,    \* is the systemd unit installed?
  config,  \* config.yaml: secret and key, or NoConfig
  process, \* the configuration the service runs with, or NoConfig
  screen,  \* the last API key shown
  job,     \* the script that runs: its step and its variable AMI_SECRET, and
           \* whether the server was fit for it when it began
  last,    \* the script that ended last, none having been started since
  runs, faults

asterisk == <<files, loaded, backups>>
installed == <<server, venv, lib, source, access, unit>>
service == <<config, process, screen>>
counts == <<last, runs, faults>>
vars == <<asterisk, installed, service, job, counts>>

Missing == -1 \* there is no such file
NoFiles == [manager |-> Missing, extensions |-> "missing"]
NoConfig == [secret |-> 0, key |-> 0]
NoJob == [script |-> "none", step |-> "done", secret |-> 0, fit |-> FALSE]
Nobody == [script |-> "none", fit |-> FALSE]
Scripts == {"none", "install", "deploy", "uninstall"}
Steps == {"backup", "prepare", "clear venv", "venv", "packages", "ami",
          "dialplan", "reload", "key", "config", "grant", "start", "stop",
          "clean dialplan", "clean ami", "remove", "done"}
Conf == [manager : Missing..MaxRuns, extensions : {"missing", "theirs", "ours"}]
Configs == [secret : 0..MaxRuns, key : 0..MaxRuns]

TypeOK ==
  /\ files \in Conf /\ loaded \in Conf /\ backups \in SUBSET Conf
  /\ server \in [lib : BOOLEAN, proj : BOOLEAN]
  /\ venv \in {"absent", "bare", "full"}
  /\ lib \in BOOLEAN /\ source \in BOOLEAN
  /\ access \in BOOLEAN /\ unit \in BOOLEAN
  /\ config \in Configs /\ process \in Configs
  /\ screen \in 0..MaxRuns
  /\ job \in [script : Scripts, step : Steps, secret : 0..MaxRuns,
              fit : BOOLEAN]
  /\ last \in [script : Scripts, fit : BOOLEAN]
  /\ runs \in 0..MaxRuns /\ faults \in 0..MaxFaults

-----------------------------------------------------------------------------
Running(script, step) == job.script = script /\ job.step = step
Installing(step) == job.script \in {"install", "deploy"} /\ job.step = step
Then(step) == job' = [job EXCEPT !.step = step]
Ends == /\ job' = NoJob
        /\ last' = [script |-> job.script, fit |-> job.fit]

\* Asterisk's reload, or its start, reads the files as they are.
Loads == loaded' = files

\* The venv's python finds the packages in the venv, or in lib if it is told
\* to look there.
Packages == venv = "full" \/ (venv = "bare" /\ lib /\ server.lib)
Importable == source /\ Packages

\* systemd starts the service: it imports the program and opens config.yaml
\* as the user otp-service, or it dies.
Runs == process' = IF Importable /\ access THEN config ELSE NoConfig

\* A script is started.
Start(script, step, fit) ==
  /\ job = NoJob /\ runs < MaxRuns
  /\ runs' = runs + 1
  /\ job' = [script |-> script, step |-> step, secret |-> runs + 1,
             fit |-> fit]
  /\ last' = Nobody
  /\ UNCHANGED <<asterisk, installed, service, faults>>

Install == Start("install", "backup", /\ files.manager \in {Missing, 0}
                                      /\ ~unit /\ access)
Deploy == Start("deploy", "backup", /\ files.manager # Missing
                                    /\ files.extensions # "missing"
                                    /\ server.proj)
Uninstall == Start("uninstall", "stop", TRUE)

\* STEP 1: a copy of the files, of its own for every run.
Backup == /\ Installing("backup") /\ Then("prepare")
          /\ backups' = backups \union {files}
          /\ UNCHANGED <<files, loaded, installed, service, counts>>

\* STEPs 2 to 4: user, directories, program.  A new /etc/otp-service is root's
\* alone, and chmod 750 keeps it so; one that is there keeps its group.  scp
\* turns src into the project directory if there is none: then cp finds no src
\* in it, and the echo behind it hides that.
Prepare ==
  /\ Installing("prepare") /\ Then("clear venv")
  /\ source' = (source \/ job.script = "install" \/ server.proj)
  /\ server' = [server EXCEPT !.proj = @ \/ job.script = "deploy"]
  /\ UNCHANGED <<asterisk, venv, lib, access, unit, service, counts>>

\* STEP 5: the venv is removed, under a service that may run;
ClearVenv ==
  /\ Installing("clear venv") /\ Then("venv")
  /\ venv' = "absent"
  /\ UNCHANGED <<asterisk, server, lib, source, access, unit, service, counts>>

\* is made anew;
MakeVenv ==
  /\ Installing("venv") /\ Then("packages")
  /\ venv' = "bare"
  /\ UNCHANGED <<asterisk, server, lib, source, access, unit, service, counts>>

\* and deploy.py installs the packages into it, install.sh into
\* /opt/otp-service/lib.
InstallPackages ==
  /\ Installing("packages") /\ Then("ami")
  /\ venv' = IF job.script = "deploy" THEN "full" ELSE venv
  /\ lib' = (lib \/ job.script = "install")
  /\ UNCHANGED <<asterisk, server, source, access, unit, service, counts>>

\* install.sh: touch; a user with the new secret, unless there is a user.
InstallAmiUser ==
  /\ Running("install", "ami") /\ Then("dialplan")
  /\ files' = [files EXCEPT !.manager = IF @ > 0 THEN @ ELSE job.secret]
  /\ UNCHANGED <<loaded, backups, installed, service, counts>>

\* Mutant: the secret of the user that is there is not read back.
DeployAmiUserNew ==
  /\ Running("deploy", "ami") /\ Then("dialplan")
  /\ files' = [files EXCEPT !.manager = IF @ = 0 THEN job.secret ELSE @]
  /\ UNCHANGED <<loaded, backups, installed, service, counts>>

\* deploy.py: with awk it takes over the secret of a user that is there.  For
\* a missing file grep -c prints no 0, so nothing is added.
DeployAmiUser ==
  /\ Running("deploy", "ami")
  /\ files' = [files EXCEPT !.manager = IF @ = 0 THEN job.secret ELSE @]
  /\ job' = [job EXCEPT !.step = "dialplan",
                        !.secret = IF files.manager > 0 THEN files.manager
                                   ELSE @]
  /\ UNCHANGED <<loaded, backups, installed, service, counts>>

\* The contexts, unless they are there; install.sh has touched the file.
Dialplan ==
  /\ Installing("dialplan") /\ Then("reload")
  /\ files' = [files EXCEPT !.extensions =
                 IF @ = "missing" /\ job.script = "deploy" THEN @ ELSE "ours"]
  /\ UNCHANGED <<loaded, backups, installed, service, counts>>

\* dialplan reload and manager reload, which fail only while Asterisk is down.
Reload == /\ Installing("reload") /\ Then("key")
          /\ Loads
          /\ UNCHANGED <<files, backups, installed, service, counts>>

\* The new API key is hashed by passlib, with the venv's python.
HashKey ==
  /\ Installing("key") /\ Packages
  /\ Then("config")
  /\ UNCHANGED <<asterisk, installed, service, counts>>

\* passlib is not found, and set -e ends install.sh.
HashFails ==
  /\ Installing("key") /\ ~Packages
  /\ Ends
  /\ UNCHANGED <<asterisk, installed, service, runs, faults>>

\* config.yaml is written as a whole, and is given to the group otp-service.
WriteConfig ==
  /\ Installing("config")
  /\ Then(IF job.script = "deploy" THEN "grant" ELSE "start")
  /\ config' = [secret |-> job.secret, key |-> runs]
  /\ UNCHANGED <<asterisk, installed, process, screen, counts>>

\* deploy.py gives that group the directory, too; install.sh does not.
GrantAccess ==
  /\ Running("deploy", "grant") /\ Then("start")
  /\ access' = TRUE
  /\ UNCHANGED <<asterisk, server, venv, lib, source, unit, service, counts>>

\* Unit, enable, systemctl start: a service that runs is left alone.  The key
\* is shown.
InstallService ==
  /\ Running("install", "start") /\ Ends
  /\ unit' = TRUE /\ screen' = runs
  /\ IF process # NoConfig THEN UNCHANGED process ELSE Runs
  /\ UNCHANGED <<asterisk, server, venv, lib, source, access, config, runs,
                 faults>>

\* Unit, enable, systemctl restart; the key is shown.
DeployService ==
  /\ Running("deploy", "start") /\ Ends
  /\ unit' = TRUE /\ screen' = runs
  /\ Runs
  /\ UNCHANGED <<asterisk, server, venv, lib, source, access, config, runs,
                 faults>>

-----------------------------------------------------------------------------
(* uninstall.sh *)

StopService ==
  /\ Running("uninstall", "stop") /\ Then("clean dialplan")
  /\ process' = NoConfig /\ unit' = FALSE
  /\ UNCHANGED <<asterisk, server, venv, lib, source, access, config, screen,
                 counts>>

\* Both contexts are cut out, and the dialplan is reloaded.
CleanDialplan ==
  /\ Running("uninstall", "clean dialplan") /\ Then("clean ami")
  /\ IF files.extensions = "missing" THEN UNCHANGED <<files, loaded>>
     ELSE /\ files' = [files EXCEPT !.extensions = "theirs"]
          /\ loaded' = [loaded EXCEPT !.extensions = "theirs"]
  /\ UNCHANGED <<backups, installed, service, counts>>

\* Mutant: the user is cut out, and Asterisk is not told.
CleanAmiUserQuietly ==
  /\ Running("uninstall", "clean ami") /\ Then("remove")
  /\ files' = [files EXCEPT !.manager = IF @ = Missing THEN @ ELSE 0]
  /\ UNCHANGED <<loaded, backups, installed, service, counts>>

\* The user is cut out, and manager.conf is reloaded.
CleanAmiUser ==
  /\ Running("uninstall", "clean ami") /\ Then("remove")
  /\ IF files.manager = Missing THEN UNCHANGED <<files, loaded>>
     ELSE /\ files' = [files EXCEPT !.manager = 0]
          /\ loaded' = [loaded EXCEPT !.manager = 0]
  /\ UNCHANGED <<backups, installed, service, counts>>

\* Sounds, installation and configuration are removed.
Remove == /\ Running("uninstall", "remove") /\ Ends
          /\ venv' = "absent" /\ lib' = FALSE /\ source' = FALSE
          /\ config' = NoConfig /\ access' = FALSE
          /\ UNCHANGED <<asterisk, server, unit, process, screen, runs,
                         faults>>

\* A command fails: the script ends where it is.
Fault == /\ job # NoJob /\ faults < MaxFaults
         /\ faults' = faults + 1 /\ job' = NoJob
         /\ UNCHANGED <<asterisk, installed, service, last, runs>>

-----------------------------------------------------------------------------
(* The operator, systemd and Asterisk *)

\* docs/OPERATIONS.md, rollback: what a backup holds is copied back, and both
\* are reloaded.
Restore(b) ==
  /\ job = NoJob /\ b \in backups
  /\ files' = [manager |-> IF b.manager = Missing THEN files.manager
                           ELSE b.manager,
               extensions |-> IF b.extensions = "missing" THEN files.extensions
                              ELSE b.extensions]
  /\ loaded' = files'
  /\ last' = Nobody
  /\ UNCHANGED <<backups, installed, service, job, runs, faults>>

\* systemctl restart, Restart=on-failure, or a reboot of the server.
Restart == /\ unit /\ Runs
           /\ UNCHANGED <<asterisk, installed, config, screen, job, counts>>

\* Asterisk is restarted, or reloaded by another of its programs.
AsteriskLoads == /\ Loads
                 /\ UNCHANGED <<files, backups, installed, service, job,
                                counts>>

Init ==
  /\ files \in [manager : {Missing, 0}, extensions : {"missing", "theirs"}]
  /\ loaded = files /\ backups = {}
  /\ server \in [lib : BOOLEAN, proj : BOOLEAN]
  /\ venv = "absent" /\ lib = FALSE /\ source = FALSE
  /\ access = FALSE /\ unit = FALSE
  /\ config = NoConfig /\ process = NoConfig /\ screen = 0
  /\ job = NoJob /\ last = Nobody
  /\ runs = 0 /\ faults = 0

Next == \/ Install \/ Deploy \/ Uninstall
        \/ Backup \/ Prepare \/ ClearVenv \/ MakeVenv \/ InstallPackages
        \/ InstallAmiUser \/ DeployAmiUser \/ Dialplan
        \/ Reload \/ HashKey \/ HashFails \/ WriteConfig \/ GrantAccess
        \/ InstallService \/ DeployService
        \/ StopService \/ CleanDialplan \/ CleanAmiUser \/ Remove
        \/ Fault \/ Restart \/ AsteriskLoads
        \/ \E b \in backups : Restore(b)

Spec == Init /\ [][Next]_vars

-----------------------------------------------------------------------------
(* Properties *)

\* The service runs, can log in to Asterisk and play, can be restarted as it
\* is, and accepts the key on the operator's screen.
Usable == /\ process # NoConfig /\ process = config
          /\ Importable /\ access
          /\ process.secret = loaded.manager /\ loaded = files
          /\ loaded.extensions = "ours"
          /\ process.key = screen

\* Whatever was installed, broken off, removed or rolled back before, and
\* however often systemd restarted the service on the way: it is usable when
\* deploy.py ends on a server with both files and the project directory, and
\* when install.sh ends on one that had neither AMI user nor unit, but the
\* configuration directory of an earlier deploy.py, and whose python searches
\* /opt/otp-service/lib.
UsableWhenDone ==
  last.fit /\ (last.script = "deploy" \/ (last.script = "install" /\ server.lib))
  => Usable

\* The files as they were can be had back: what is ours in them is in neither
\* file of some backup.  uninstall.sh leaves no user, no context and no
\* process, in the files or loaded, wherever the scripts before it broke off.
Reversible ==
  /\ files.manager > 0 \/ files.extensions = "ours" =>
       \E b \in backups : b.manager <= 0 /\ b.extensions # "ours"
  /\ last.script = "uninstall" =>
       /\ files.manager <= 0 /\ loaded.manager <= 0
       /\ files.extensions # "ours" /\ loaded.extensions # "ours"
       /\ process = NoConfig

-----------------------------------------------------------------------------
(* What the documents say and the code does not do *)

\* docs/DEPLOYMENT.md: the steps of the automatic installation, of which the
\* last start the service and show its API key.
InstallWorks == last.script = "install" => Usable
=============================================================================
