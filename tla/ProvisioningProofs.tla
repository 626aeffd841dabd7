------------------------- MODULE ProvisioningProofs -------------------------
(***************************************************************************)
(* What install.sh, tools/deploy.py and uninstall.sh write can be undone,  *)
(* and leaves a usable service, for any number of runs, accidents and      *)
(* rollbacks.                                                              *)
(***************************************************************************)
EXTENDS Provisioning, TLAPS

Clean(b) == b.manager <= 0 /\ b.extensions # "ours"
HasClean == \E b \in backups : Clean(b)
Ours == files.manager > 0 \/ files.extensions = "ours"

\* The first backup is made before anything of ours is written, and nothing
\* is written before the backup.
BackedUp ==
  /\ backups # {} => HasClean
  /\ Ours => backups # {}
  /\ job.script \in {"install", "deploy"} /\ job.step # "backup" =>
       backups # {}

\* A file that does not exist has not been loaded either: uninstall.sh leaves
\* it at that.
NothingOfMissing ==
  /\ files.manager = Missing => loaded.manager <= 0
  /\ files.extensions = "missing" => loaded.extensions # "ours"

\* How far uninstall.sh has come; when it has ended, nobody writes.
Stopped == ~unit /\ process = NoConfig
NoDialplan == files.extensions # "ours" /\ loaded.extensions # "ours"
NoAmiUser == files.manager <= 0 /\ loaded.manager <= 0
Undone ==
  /\ job # NoJob => last = Nobody
  /\ Running("uninstall", "clean dialplan") => Stopped
  /\ Running("uninstall", "clean ami") => Stopped /\ NoDialplan
  /\ Running("uninstall", "remove") => Stopped /\ NoDialplan /\ NoAmiUser
  /\ last.script = "uninstall" => Stopped /\ NoDialplan /\ NoAmiUser

ProvisioningInv == TypeOK /\ BackedUp /\ NothingOfMissing /\ Undone

\* The bounds are numbers.
LEMMA Bounds == MaxRuns \in Nat /\ MaxFaults \in Nat
  BY BoundsAssumption DEF BoundsAssumption

-----------------------------------------------------------------------------
(* Types, by the variables a step changes *)

FilesType == files \in Conf /\ loaded \in Conf /\ backups \in SUBSET Conf
PlaceType ==
  /\ server \in [lib : BOOLEAN, proj : BOOLEAN]
  /\ venv \in {"absent", "bare", "full"}
  /\ lib \in BOOLEAN /\ source \in BOOLEAN
  /\ access \in BOOLEAN /\ unit \in BOOLEAN
ServiceType ==
  config \in Configs /\ process \in Configs /\ screen \in 0..MaxRuns
JobType ==
  job \in [script : Scripts, step : Steps, secret : 0..MaxRuns, fit : BOOLEAN]
CountsType ==
  /\ last \in [script : Scripts, fit : BOOLEAN]
  /\ runs \in 0..MaxRuns /\ faults \in 0..MaxFaults

\* Types, part by part.
LEMMA TypeParts ==
  TypeOK <=> FilesType /\ PlaceType /\ ServiceType /\ JobType /\ CountsType
  BY DEF TypeOK, FilesType, PlaceType, ServiceType, JobType, CountsType

\* The values a server begins with are well typed.
LEMMA Constants ==
  /\ NoConfig \in Configs /\ Nobody \in [script : Scripts, fit : BOOLEAN]
  /\ NoJob \in [script : Scripts, step : Steps, secret : 0..MaxRuns,
                fit : BOOLEAN]
  BY Bounds DEF NoConfig, Configs, Nobody, Scripts, NoJob, Steps

\* A service that starts runs with the configuration it finds.
LEMMA RunsTyped ==
  ASSUME TypeOK, Runs
  PROVE  process' \in Configs
  BY Constants DEF Runs, TypeOK

\* A step of a script changes nothing but the step.
LEMMA ThenTyped ==
  ASSUME TypeOK, NEW step \in Steps, Then(step)
  PROVE  JobType' /\ job'.step = step /\ job'.script = job.script
  BY DEF Then, TypeOK, JobType

\* A script that ends leaves well typed what it reports.
LEMMA EndsTyped ==
  ASSUME TypeOK, Ends, UNCHANGED <<runs, faults>>
  PROVE  JobType' /\ CountsType' /\ job'.script = "none"
  BY Constants DEF Ends, TypeOK, JobType, CountsType, NoJob

\* A script that starts has a first step.
LEMMA StartTyped ==
  ASSUME TypeOK, NEW script \in Scripts, NEW step \in Steps,
         NEW fit \in BOOLEAN, Start(script, step, fit)
  PROVE  TypeOK'
  <1>1. runs + 1 \in 0..MaxRuns
    BY Bounds DEF Start, TypeOK
  <1>2. JobType'
    BY <1>1 DEF Start, JobType
  <1>3. CountsType'
    BY <1>1, Constants DEF Start, CountsType, TypeOK
  <1>4. FilesType' /\ PlaceType' /\ ServiceType'
    BY DEF Start, asterisk, installed, service, TypeOK, FilesType, PlaceType,
           ServiceType
  <1>5. QED BY <1>2, <1>3, <1>4, TypeParts DEF TypeOK, FilesType, PlaceType,
                 ServiceType, JobType, CountsType


\* The steps and scripts the actions name.
LEMMA StepNames ==
  /\ {"prepare", "clear venv", "venv", "packages", "ami", "dialplan", "reload",
      "key", "config", "grant", "start", "clean dialplan", "clean ami",
      "remove", "backup", "stop"} \subseteq Steps
  /\ {"install", "deploy", "uninstall"} \subseteq Scripts
  BY DEF Steps, Scripts

\* What a backup restores.
LEMMA RestoredTyped ==
  ASSUME FilesType, NEW b \in backups, Restore(b)
  PROVE  FilesType'
  BY Bounds DEF FilesType, Conf, Restore

\* The steps that write Asterisk's files.
LEMMA FilesTyped ==
  ASSUME TypeOK, \/ Backup \/ InstallAmiUser \/ DeployAmiUser \/ Dialplan
                 \/ Reload \/ CleanDialplan \/ CleanAmiUser
  PROVE  FilesType'
  <1> FilesType /\ job.secret \in 0..MaxRuns
    BY DEF TypeOK, FilesType
  <1>1. CASE Backup BY <1>1 DEF Backup, FilesType
  <1>2. CASE InstallAmiUser BY <1>2, Bounds DEF InstallAmiUser, FilesType,
      Conf, Missing
  <1>3. CASE DeployAmiUser BY <1>3, Bounds DEF DeployAmiUser, FilesType, Conf,
      Missing
  <1>4. CASE Dialplan BY <1>4 DEF Dialplan, FilesType, Conf
  <1>5. CASE Reload BY <1>5 DEF Reload, Loads, FilesType
  <1>6. CASE CleanDialplan BY <1>6 DEF CleanDialplan, FilesType, Conf
  <1>7. CASE CleanAmiUser
    <2>1. 0 \in Missing..MaxRuns BY Bounds DEF Missing
    <2>2. backups' = backups BY <1>7 DEF CleanAmiUser
    <2>3. \/ files' = files /\ loaded' = loaded
          \/ /\ files' = [files EXCEPT !.manager = 0]
             /\ loaded' = [loaded EXCEPT !.manager = 0]
      BY <1>7 DEF CleanAmiUser
    <2>4. QED BY <2>1, <2>2, <2>3 DEF FilesType, Conf
  <1>8. QED BY <1>1, <1>2, <1>3, <1>4, <1>5, <1>6, <1>7

\* The steps that prepare the place the service is started in.
PlaceStep ==
  Prepare \/ ClearVenv \/ MakeVenv \/ InstallPackages \/ GrantAccess

\* Every step keeps the types.
LEMMA Typing ==
  ASSUME TypeOK, [Next]_vars
  PROVE  TypeOK'
  <1> FilesType /\ PlaceType /\ ServiceType /\ JobType /\ CountsType
    BY TypeParts
  <1> SUFFICES FilesType' /\ PlaceType' /\ ServiceType' /\ JobType' /\ CountsType'
    BY DEF TypeOK, FilesType, PlaceType, ServiceType, JobType, CountsType
  <1>1. CASE Install
    <2>1. TypeOK' BY <1>1, StartTyped, StepNames DEF Install
    <2>2. QED BY <2>1 DEF TypeOK, FilesType, PlaceType, ServiceType, JobType,
                          CountsType
  <1>2. CASE Deploy
    <2>1. TypeOK' BY <1>2, StartTyped, StepNames DEF Deploy
    <2>2. QED BY <2>1 DEF TypeOK, FilesType, PlaceType, ServiceType, JobType,
                          CountsType
  <1>3. CASE Uninstall
    <2>1. TypeOK' BY <1>3, StartTyped, StepNames DEF Uninstall
    <2>2. QED BY <2>1 DEF TypeOK, FilesType, PlaceType, ServiceType, JobType,
                          CountsType
  <1>4. CASE Backup
    <2>1. JobType' BY <1>4, ThenTyped, StepNames DEF Backup
    <2>2. FilesType' BY <1>4, FilesTyped
    <2>3. PlaceType' /\ ServiceType' /\ CountsType'
      BY <1>4 DEF Backup, asterisk, installed, service, counts, PlaceType,
          ServiceType, CountsType
    <2>4. QED BY <2>1, <2>2, <2>3
  <1>5. CASE PlaceStep
    <2>1. JobType' BY <1>5, ThenTyped, StepNames DEF PlaceStep, Prepare,
        ClearVenv, MakeVenv, InstallPackages, GrantAccess
    <2>2. PlaceType' BY <1>5 DEF PlaceStep, Prepare, ClearVenv, MakeVenv,
        InstallPackages, GrantAccess, PlaceType
    <2>3. FilesType' /\ ServiceType' /\ CountsType'
      BY <1>5 DEF PlaceStep, Prepare, ClearVenv, MakeVenv, InstallPackages,
          GrantAccess, asterisk, service, counts, FilesType, ServiceType,
          CountsType
    <2>4. QED BY <2>1, <2>2, <2>3
  <1>6. CASE InstallAmiUser
    <2>1. JobType' BY <1>6, ThenTyped, StepNames DEF InstallAmiUser
    <2>2. FilesType' BY <1>6, FilesTyped
    <2>3. PlaceType' /\ ServiceType' /\ CountsType'
      BY <1>6 DEF InstallAmiUser, asterisk, installed, service, counts,
          PlaceType, ServiceType, CountsType
    <2>4. QED BY <2>1, <2>2, <2>3
  <1>7. CASE DeployAmiUser
    <2>1. FilesType' BY <1>7, FilesTyped
    <2>2. JobType'
      <3>1. files.manager > 0 => files.manager \in 0..MaxRuns
        BY Bounds DEF FilesType, Conf, Missing
      <3>2. PICK sec \in 0..MaxRuns :
              job' = [job EXCEPT !.step = "dialplan", !.secret = sec]
        BY <1>7, <3>1 DEF DeployAmiUser, JobType
      <3>3. QED BY <3>2, StepNames DEF JobType
    <2>3. PlaceType' /\ ServiceType' /\ CountsType'
      BY <1>7 DEF DeployAmiUser, asterisk, installed, service, counts,
          PlaceType, ServiceType, CountsType
    <2>4. QED BY <2>1, <2>2, <2>3
  <1>8. CASE Dialplan
    <2>1. JobType' BY <1>8, ThenTyped, StepNames DEF Dialplan
    <2>2. FilesType' BY <1>8, FilesTyped
    <2>3. PlaceType' /\ ServiceType' /\ CountsType'
      BY <1>8 DEF Dialplan, asterisk, installed, service, counts, PlaceType,
          ServiceType, CountsType
    <2>4. QED BY <2>1, <2>2, <2>3
  <1>9. CASE Reload
    <2>1. JobType' BY <1>9, ThenTyped, StepNames DEF Reload
    <2>2. FilesType' BY <1>9, FilesTyped
    <2>3. PlaceType' /\ ServiceType' /\ CountsType'
      BY <1>9 DEF Reload, asterisk, installed, service, counts, PlaceType,
          ServiceType, CountsType
    <2>4. QED BY <2>1, <2>2, <2>3
  <1>10. CASE HashKey
    <2>1. JobType' BY <1>10, ThenTyped, StepNames DEF HashKey
    <2>2. FilesType' /\ PlaceType' /\ ServiceType' /\ CountsType'
      BY <1>10 DEF HashKey, asterisk, installed, service, counts, FilesType,
          PlaceType, ServiceType, CountsType
    <2>3. QED BY <2>1, <2>2
  <1>11. CASE HashFails
    <2>1. JobType' /\ CountsType' BY <1>11, EndsTyped DEF HashFails
    <2>2. FilesType' /\ PlaceType' /\ ServiceType'
      BY <1>11 DEF HashFails, asterisk, installed, service, counts, FilesType,
          PlaceType, ServiceType
    <2>3. QED BY <2>1, <2>2
  <1>12. CASE WriteConfig
    <2>1. JobType'
      <3>1. PICK step \in Steps : Then(step)
        BY <1>12, StepNames DEF WriteConfig
      <3>2. QED BY <3>1, ThenTyped
    <2>2. ServiceType' BY <1>12 DEF WriteConfig, ServiceType, JobType,
        CountsType, Configs
    <2>3. FilesType' /\ PlaceType' /\ CountsType'
      BY <1>12 DEF WriteConfig, asterisk, installed, service, counts,
          FilesType, PlaceType, CountsType
    <2>4. QED BY <2>1, <2>2, <2>3
  <1>13. CASE InstallService
    <2>1. JobType' /\ CountsType' BY <1>13, EndsTyped DEF InstallService
    <2>2. ServiceType' BY <1>13, RunsTyped DEF InstallService, ServiceType,
        CountsType
    <2>3. FilesType' /\ PlaceType'
      BY <1>13 DEF InstallService, asterisk, installed, service, counts,
          FilesType, PlaceType
    <2>4. QED BY <2>1, <2>2, <2>3
  <1>14. CASE DeployService
    <2>1. JobType' /\ CountsType' BY <1>14, EndsTyped DEF DeployService
    <2>2. ServiceType' BY <1>14, RunsTyped DEF DeployService, ServiceType,
        CountsType
    <2>3. FilesType' /\ PlaceType'
      BY <1>14 DEF DeployService, asterisk, installed, service, counts,
          FilesType, PlaceType
    <2>4. QED BY <2>1, <2>2, <2>3
  <1>15. CASE StopService
    <2>1. JobType' BY <1>15, ThenTyped, StepNames DEF StopService
    <2>2. ServiceType' BY <1>15, Constants DEF StopService, ServiceType
    <2>3. FilesType' /\ PlaceType' /\ CountsType'
      BY <1>15 DEF StopService, asterisk, installed, service, counts,
          FilesType, PlaceType, CountsType
    <2>4. QED BY <2>1, <2>2, <2>3
  <1>16. CASE CleanDialplan
    <2>1. JobType' BY <1>16, ThenTyped, StepNames DEF CleanDialplan
    <2>2. FilesType' BY <1>16, FilesTyped
    <2>3. PlaceType' /\ ServiceType' /\ CountsType'
      BY <1>16 DEF CleanDialplan, asterisk, installed, service, counts,
          PlaceType, ServiceType, CountsType
    <2>4. QED BY <2>1, <2>2, <2>3
  <1>17. CASE CleanAmiUser
    <2>1. JobType' BY <1>17, ThenTyped, StepNames DEF CleanAmiUser
    <2>2. FilesType' BY <1>17, FilesTyped
    <2>3. PlaceType' /\ ServiceType' /\ CountsType'
      BY <1>17 DEF CleanAmiUser, asterisk, installed, service, counts,
          PlaceType, ServiceType, CountsType
    <2>4. QED BY <2>1, <2>2, <2>3
  <1>18. CASE Remove
    <2>1. JobType' /\ CountsType' BY <1>18, EndsTyped DEF Remove
    <2>2. ServiceType' BY <1>18, Constants DEF Remove, ServiceType
    <2>3. FilesType' /\ PlaceType'
      BY <1>18 DEF Remove, asterisk, installed, service, counts, FilesType,
          PlaceType
    <2>4. QED BY <2>1, <2>2, <2>3
  <1>19. CASE Fault
    <2>1. JobType' BY <1>19, Constants DEF Fault, JobType
    <2>2. CountsType' BY <1>19, Bounds DEF Fault, CountsType
    <2>3. FilesType' /\ PlaceType' /\ ServiceType'
      BY <1>19 DEF Fault, asterisk, installed, service, counts, FilesType,
          PlaceType, ServiceType
    <2>4. QED BY <2>1, <2>2, <2>3
  <1>20. CASE Restart
    <2>1. ServiceType' BY <1>20, RunsTyped DEF Restart, ServiceType
    <2>2. FilesType' /\ PlaceType' /\ JobType' /\ CountsType'
      BY <1>20 DEF Restart, asterisk, installed, service, counts, FilesType,
          PlaceType, JobType, CountsType
    <2>3. QED BY <2>1, <2>2
  <1>21. CASE AsteriskLoads
    <2>1. FilesType' BY <1>21 DEF AsteriskLoads, Loads, FilesType
    <2>2. PlaceType' /\ ServiceType' /\ JobType' /\ CountsType'
      BY <1>21 DEF AsteriskLoads, asterisk, installed, service, counts,
          PlaceType, ServiceType, JobType, CountsType
    <2>3. QED BY <2>1, <2>2
  <1>22. CASE \E b \in backups : Restore(b)
    <2> PICK b \in backups : Restore(b) BY <1>22
    <2>1. FilesType' BY RestoredTyped
    <2>2. CountsType' BY Constants DEF Restore, CountsType
    <2>3. PlaceType' /\ ServiceType' /\ JobType'
      BY DEF Restore, installed, service, PlaceType, ServiceType, JobType
    <2>4. QED BY <2>1, <2>2, <2>3
  <1>23. CASE UNCHANGED vars
    BY <1>23 DEF vars, asterisk, installed, service, counts, FilesType,
       PlaceType, ServiceType, JobType, CountsType
  <1>24. QED BY <1>1, <1>2, <1>3, <1>4, <1>5, <1>6, <1>7, <1>8, <1>9, <1>10,
      <1>11, <1>12, <1>13, <1>14, <1>15, <1>16, <1>17, <1>18, <1>19, <1>20,
      <1>21, <1>22, <1>23 DEF Next, PlaceStep

-----------------------------------------------------------------------------
(* The parts of the invariant *)

\* A script that goes on, and does not touch the files or the backups.
QuietStep == PlaceStep \/ Reload \/ HashKey \/ WriteConfig
EndStep == HashFails \/ InstallService \/ DeployService \/ Remove \/ Fault
StartStep == Install \/ Deploy \/ Uninstall

\* What is written while the backups stay needs one before.
LEMMA BackupsKept ==
  ASSUME ProvisioningInv, backups' = backups, Ours' => Ours \/ backups # {},
         job'.script \in {"install", "deploy"} /\ job'.step # "backup" =>
           job.script \in {"install", "deploy"} /\ job.step # "backup"
  PROVE  BackedUp'
  BY DEF ProvisioningInv, BackedUp, HasClean, Clean

\* Every step that writes comes after a backup.
LEMMA BackedUpKept ==
  ASSUME ProvisioningInv, [Next]_vars
  PROVE  BackedUp'
  <1> USE DEF Ours
  <1> FilesType /\ JobType /\ BackedUp
    BY TypeParts DEF ProvisioningInv
  <1>1. CASE StartStep
    BY <1>1, BackupsKept DEF StartStep, Install, Deploy, Uninstall, Start,
       asterisk
  <1>2. CASE Backup
    <2>1. backups' = backups \union {files} /\ files' = files
      BY <1>2 DEF Backup
    <2>2. CASE Ours BY <2>1, <2>2 DEF BackedUp, HasClean, Clean
    <2>3. CASE ~Ours
      <3>1. Clean(files) BY <2>3, Bounds DEF Clean, FilesType, Conf, Missing
      <3>2. QED BY <2>1, <2>3, <3>1 DEF BackedUp, HasClean, Clean
    <2>4. QED BY <2>2, <2>3
  <1>3. CASE QuietStep
    <2>1. files' = files /\ backups' = backups
      BY <1>3 DEF QuietStep, PlaceStep, Prepare, ClearVenv, MakeVenv,
         InstallPackages, GrantAccess, Reload, HashKey, WriteConfig, asterisk
    <2>2. job'.script = job.script /\ Installing(job.step) /\ job.step # "backup"
      BY <1>3 DEF QuietStep, PlaceStep, Prepare, ClearVenv, MakeVenv,
         InstallPackages, GrantAccess, Reload, HashKey, WriteConfig, Then,
         Installing, Running, JobType
    <2>3. QED BY <2>1, <2>2, BackupsKept DEF Installing
  <1>4. CASE InstallAmiUser \/ DeployAmiUser \/ Dialplan
    <2>1. backups' = backups /\ job'.script = job.script
      BY <1>4 DEF InstallAmiUser, DeployAmiUser, Dialplan, Then, JobType
    <2>2. job.script \in {"install", "deploy"} /\ job.step # "backup"
      BY <1>4 DEF InstallAmiUser, DeployAmiUser, Dialplan, Running, Installing
    <2>3. QED BY <2>1, <2>2, BackupsKept DEF BackedUp
  <1>5. CASE EndStep
    <2>1. files' = files /\ backups' = backups /\ job' = NoJob
      BY <1>5 DEF EndStep, HashFails, InstallService, DeployService, Remove,
         Fault, Ends, asterisk
    <2>2. QED BY <2>1, BackupsKept DEF NoJob
  <1>6. CASE StopService
    BY <1>6, BackupsKept DEF StopService, asterisk, Then, Running, JobType
  <1>7. CASE CleanDialplan
    <2>1. backups' = backups /\ job'.script = "uninstall"
      BY <1>7 DEF CleanDialplan, Then, Running, JobType
    <2>2. files'.manager = files.manager /\ (files'.extensions = files.extensions
            \/ files'.extensions = "theirs")
      BY <1>7 DEF CleanDialplan, FilesType, Conf
    <2>3. QED BY <2>1, <2>2, BackupsKept
  <1>8. CASE CleanAmiUser
    <2>1. backups' = backups /\ job'.script = "uninstall"
      BY <1>8 DEF CleanAmiUser, Then, Running, JobType
    <2>2. files'.extensions = files.extensions /\ (files'.manager = files.manager
            \/ files'.manager = 0)
      BY <1>8 DEF CleanAmiUser, FilesType, Conf
    <2>3. QED BY <2>1, <2>2, BackupsKept
  <1>9. CASE Restart \/ AsteriskLoads
    BY <1>9, BackupsKept DEF Restart, AsteriskLoads, asterisk
  <1>10. CASE \E b \in backups : Restore(b)
    <2>1. backups' = backups /\ backups # {} /\ job' = job
      BY <1>10 DEF Restore
    <2>2. QED BY <2>1, BackupsKept
  <1>11. CASE UNCHANGED vars
    BY <1>11, BackupsKept DEF vars, asterisk
  <1>12. QED
    BY <1>1, <1>2, <1>3, <1>4, <1>5, <1>6, <1>7, <1>8, <1>9, <1>10, <1>11
    DEF Next, StartStep, QuietStep, PlaceStep, EndStep

\* Every step keeps a missing file from being loaded.
LEMMA LoadedExists ==
  ASSUME ProvisioningInv, [Next]_vars
  PROVE  NothingOfMissing'
  <1> USE DEF NothingOfMissing
  <1> FilesType /\ JobType /\ NothingOfMissing
    BY TypeParts DEF ProvisioningInv
  <1>1. CASE loaded' = files'
    BY <1>1 DEF Missing
  <1>2. CASE files' = files /\ loaded' = loaded
    BY <1>2
  <1>3. CASE InstallAmiUser
    <2>1. job.secret \in 0..MaxRuns /\ files.manager \in Missing..MaxRuns
      BY DEF JobType, FilesType, Conf
    <2>2. files'.manager \in 0..MaxRuns /\ files'.extensions = files.extensions
      BY <1>3, <2>1, Bounds DEF InstallAmiUser, FilesType, Conf, Missing
    <2>3. QED BY <1>3, <2>2, Bounds DEF InstallAmiUser, Missing
  <1>4. CASE DeployAmiUser
    <2>1. job.secret \in 0..MaxRuns /\ files.manager \in Missing..MaxRuns
      BY DEF JobType, FilesType, Conf
    <2>2. /\ files'.manager = Missing => files.manager = Missing
          /\ files'.extensions = files.extensions
      BY <1>4, <2>1, Bounds DEF DeployAmiUser, FilesType, Conf, Missing
    <2>3. QED BY <1>4, <2>2 DEF DeployAmiUser
  <1>5. CASE Dialplan
    BY <1>5 DEF Dialplan, FilesType, Conf
  <1>6. CASE CleanDialplan
    BY <1>6 DEF CleanDialplan, FilesType, Conf
  <1>7. CASE CleanAmiUser
    <2>1. \/ files' = files /\ loaded' = loaded
          \/ /\ files' = [files EXCEPT !.manager = 0]
             /\ loaded' = [loaded EXCEPT !.manager = 0]
      BY <1>7 DEF CleanAmiUser
    <2>2. QED BY <2>1 DEF FilesType, Conf, Missing
  <1>8. QED
    BY <1>1, <1>2, <1>3, <1>4, <1>5, <1>6, <1>7
    DEF Next, vars, Install, Deploy, Uninstall, Start, Backup, Prepare,
        ClearVenv, MakeVenv, InstallPackages, GrantAccess, Reload,
        HashKey, HashFails, WriteConfig, InstallService, DeployService,
        StopService, Remove, Fault, Restart, AsteriskLoads, Restore, Loads,
        asterisk

\* While no script runs that stops, cleans or ends, nothing is claimed.
LEMMA UndoneKept ==
  ASSUME ProvisioningInv, [Next]_vars
  PROVE  Undone'
  <1> USE DEF Stopped, NoDialplan, NoAmiUser, Running
  <1> FilesType /\ JobType /\ CountsType /\ Undone
    BY TypeParts DEF ProvisioningInv
  <1> Nobody.script = "none" /\ NoJob.script = "none"
    BY DEF Nobody, NoJob
  <1>1. CASE StartStep
    <2>1. last' = Nobody /\ job'.step \in {"backup", "stop"}
      BY <1>1 DEF StartStep, Install, Deploy, Uninstall, Start
    <2>2. QED BY <2>1 DEF Undone
  <1>2. CASE Backup \/ QuietStep \/ InstallAmiUser \/ DeployAmiUser \/ Dialplan
    <2>1. job # NoJob /\ last' = last
      BY <1>2 DEF QuietStep, PlaceStep, Backup, Prepare, ClearVenv, MakeVenv,
         InstallPackages, GrantAccess, InstallAmiUser, DeployAmiUser,
         Dialplan, Reload, HashKey, WriteConfig, Running, Installing, NoJob,
         counts
    <2>2. job'.script \in {"install", "deploy"}
      BY <1>2 DEF QuietStep, PlaceStep, Backup, Prepare, ClearVenv, MakeVenv,
         InstallPackages, GrantAccess, InstallAmiUser, DeployAmiUser,
         Dialplan, Reload, HashKey, WriteConfig, Running, Installing, Then,
         JobType
    <2>3. QED BY <2>1, <2>2 DEF Undone
  <1>3. CASE HashFails \/ InstallService \/ DeployService
    <2>1. job' = NoJob /\ last'.script \in {"install", "deploy"}
      BY <1>3 DEF HashFails, InstallService, DeployService, Ends, Running,
         Installing
    <2>2. QED BY <2>1 DEF Undone, NoJob
  <1>4. CASE StopService
    <2>1. job # NoJob /\ last' = last /\ ~unit' /\ process' = NoConfig
      BY <1>4 DEF StopService, counts
    <2>2. Running("uninstall", "clean dialplan")'
      BY <1>4 DEF StopService, Then, JobType
    <2>3. QED BY <2>1, <2>2 DEF Undone
  <1>5. CASE CleanDialplan
    <2>1. job # NoJob /\ last' = last /\ UNCHANGED <<unit, process>>
      BY <1>5 DEF CleanDialplan, counts, installed, service
    <2>2. Running("uninstall", "clean ami")'
      BY <1>5 DEF CleanDialplan, Then, JobType
    <2>3. NoDialplan'
      BY <1>5 DEF CleanDialplan, FilesType, Conf, ProvisioningInv,
         NothingOfMissing
    <2>4. Stopped BY <1>5 DEF CleanDialplan, Undone
    <2>5. QED BY <2>1, <2>2, <2>3, <2>4 DEF Undone
  <1>6. CASE CleanAmiUser
    <2>1. job # NoJob /\ last' = last /\ UNCHANGED <<unit, process>>
      BY <1>6 DEF CleanAmiUser, counts, installed, service
    <2>2. Running("uninstall", "remove")'
      BY <1>6 DEF CleanAmiUser, Then, JobType
    <2>3. \/ /\ files' = files /\ loaded' = loaded
             /\ files.manager = Missing
          \/ /\ files' = [files EXCEPT !.manager = 0]
             /\ loaded' = [loaded EXCEPT !.manager = 0]
      BY <1>6 DEF CleanAmiUser
    <2>4. NoAmiUser'
      BY <2>3 DEF FilesType, Conf, ProvisioningInv, NothingOfMissing, Missing
    <2>5. files'.extensions = files.extensions
          /\ loaded'.extensions = loaded.extensions
      BY <2>3 DEF FilesType, Conf
    <2>6. Stopped /\ NoDialplan BY <1>6 DEF CleanAmiUser, Undone
    <2>7. QED BY <2>1, <2>2, <2>4, <2>5, <2>6 DEF Undone
  <1>7. CASE Remove
    <2>1. job' = NoJob /\ Stopped' /\ NoDialplan' /\ NoAmiUser'
      BY <1>7 DEF Remove, Ends, Undone, asterisk
    <2>2. QED BY <2>1 DEF Undone, NoJob
  <1>8. CASE Fault
    BY <1>8 DEF Fault, Undone, counts
  <1>9. CASE Restart
    <2>1. unit /\ UNCHANGED <<files, loaded, unit, job, last>>
      BY <1>9 DEF Restart, asterisk, installed, counts
    <2>2. QED BY <2>1 DEF Undone
  <1>10. CASE AsteriskLoads
    <2>1. UNCHANGED <<files, unit, process, job, last>> /\ loaded' = files
      BY <1>10 DEF AsteriskLoads, Loads, installed, service, counts
    <2>2. QED BY <2>1 DEF Undone
  <1>11. CASE \E b \in backups : Restore(b)
    BY <1>11 DEF Restore, Undone, NoJob, Nobody
  <1>12. CASE UNCHANGED vars
    BY <1>12 DEF vars, asterisk, installed, service, counts, Undone
  <1>13. QED
    BY <1>1, <1>2, <1>3, <1>4, <1>5, <1>6, <1>7, <1>8, <1>9, <1>10, <1>11,
       <1>12
    DEF Next, StartStep, QuietStep, PlaceStep

-----------------------------------------------------------------------------
(* A script that began on a server it is fit for leaves the service usable *)

AfterReload == {"key", "config", "grant", "start"}
AfterDialplan == AfterReload \union {"reload"}
AfterAmi == AfterDialplan \union {"dialplan"}
AfterPackages == AfterAmi \union {"ami"}
AfterVenv == AfterPackages \union {"packages"}
AfterPrepare == AfterVenv \union {"clear venv", "venv"}

FitDeploy == job.script = "deploy" /\ job.fit
FitInstall == job.script = "install" /\ job.fit /\ server.lib
Fit == FitDeploy \/ FitInstall

\* What it has reached by each of its steps; a fit install.sh finds the
\* directory of the configuration open.
Reached ==
  /\ job.secret > 0
  /\ job.step \in AfterPrepare => source
  /\ job.step = "packages" => venv = "bare"
  /\ job.step \in AfterPackages => Packages
  /\ job.step \in AfterAmi => files.manager = job.secret
  /\ job.step \in AfterDialplan => files.extensions = "ours"
  /\ job.step \in AfterReload => loaded = files
  /\ job.step \in {"grant", "start"} =>
       config = [secret |-> job.secret, key |-> runs]
  /\ job.step = "start" \/ job.script = "install" => access

\* Without a unit nothing runs, and a fit install.sh finds no unit.
BeforeAmi == {"backup", "prepare", "clear venv", "venv", "packages", "ami"}
Placed ==
  /\ ~unit => process = NoConfig
  /\ FitDeploy => files.manager # Missing /\ files.extensions # "missing"
                  /\ server.proj
  /\ FitInstall => /\ ~unit
                   /\ job.step \in BeforeAmi => files.manager <= 0
  /\ Fit => Reached

UsableInv == ProvisioningInv /\ Placed /\ UsableWhenDone

\* A script that goes on stays what it is.
LEMMA GoesOn ==
  ASSUME JobType, NEW step \in Steps, Then(step)
  PROVE  /\ job'.script = job.script /\ job'.fit = job.fit
         /\ job'.secret = job.secret /\ job'.step = step
  BY DEF Then, JobType

\* The script that starts the service leaves in place what it has written.
LEMMA StartPlaced ==
  ASSUME UsableInv, StartStep
  PROVE  Placed'
  <1>1. JobType /\ CountsType /\ FilesType
    BY TypeParts DEF UsableInv, ProvisioningInv
  <1>2. UNCHANGED <<files, loaded, server, access, unit, process>>
    BY DEF StartStep, Install, Deploy, Uninstall, Start, asterisk, installed,
       service
  <1>3. job'.secret > 0
    <2>1. runs + 1 > 0 BY <1>1, Bounds DEF CountsType
    <2>2. QED BY <2>1 DEF StartStep, Install, Deploy, Uninstall, Start
  <1>4. job'.step \in {"backup", "stop"}
    BY DEF StartStep, Install, Deploy, Uninstall, Start
  <1>5. FitDeploy' => files.manager # Missing /\ files.extensions # "missing"
                      /\ server.proj
    BY DEF StartStep, Install, Deploy, Uninstall, Start, FitDeploy
  <1>6. FitInstall' => ~unit /\ files.manager <= 0 /\ access
    <2>1. CASE Install
      <3>1. FitInstall' => ~unit /\ files.manager \in {Missing, 0} /\ access
        BY <2>1 DEF Install, Start, FitInstall
      <3>2. QED BY <3>1 DEF Missing
    <2>2. CASE Deploy \/ Uninstall
      BY <2>2 DEF Deploy, Uninstall, Start, FitInstall
    <2>3. QED BY <2>1, <2>2 DEF StartStep
  <1>7. Fit' => Reached'
    <2>1. Fit' /\ job'.script = "install" => access'
      BY <1>2, <1>6 DEF Fit, FitDeploy
    <2>2. QED
      BY <1>3, <1>4, <2>1 DEF Reached, AfterPrepare, AfterVenv, AfterPackages,
         AfterAmi, AfterDialplan, AfterReload
  <1>8. QED BY <1>2, <1>5, <1>6, <1>7 DEF Placed, UsableInv, BeforeAmi

\* Each step of a script adds its own to what is in place.
LEMMA ScriptPlaced ==
  ASSUME UsableInv,
         \/ Backup \/ PlaceStep \/ InstallAmiUser \/ DeployAmiUser \/ Dialplan
         \/ Reload \/ HashKey \/ WriteConfig
  PROVE  Placed'
  <1> USE DEF AfterPrepare, AfterVenv, AfterPackages, AfterAmi, AfterDialplan,
          AfterReload, BeforeAmi
  <1>1. FilesType /\ PlaceType /\ JobType /\ CountsType /\ Placed
    BY TypeParts DEF UsableInv, ProvisioningInv
  <1>2. job'.script = job.script /\ job'.fit = job.fit
    BY <1>1 DEF Backup, PlaceStep, Prepare, ClearVenv, MakeVenv,
       InstallPackages, GrantAccess, InstallAmiUser, DeployAmiUser, Dialplan,
       Reload, HashKey, WriteConfig, JobType, Then
  <1>3. server'.lib = server.lib /\ UNCHANGED <<unit, process>>
    BY <1>1 DEF Backup, PlaceStep, Prepare, ClearVenv, MakeVenv,
       InstallPackages, GrantAccess, InstallAmiUser, DeployAmiUser, Dialplan,
       Reload, HashKey, WriteConfig, PlaceType, installed, service
  <1>4. (FitDeploy' <=> FitDeploy) /\ (FitInstall' <=> FitInstall)
    BY <1>2, <1>3 DEF FitDeploy, FitInstall
  <1>5. SUFFICES ASSUME Fit
                 PROVE  /\ FitDeploy => /\ files'.manager # Missing
                                        /\ files'.extensions # "missing"
                                        /\ server'.proj
                        /\ FitInstall =>
                             (job'.step \in BeforeAmi => files'.manager <= 0)
                        /\ Reached'
    BY <1>1, <1>3, <1>4 DEF Placed, Fit
  <1>6. Reached
    BY <1>1, <1>5 DEF Placed
  <1>7. job.secret \in 0..MaxRuns /\ files.manager \in Missing..MaxRuns
    BY <1>1 DEF JobType, FilesType, Conf
  <1>8. CASE Backup
    <2>1. job'.step = "prepare" /\ job'.secret = job.secret
      BY <1>1, <1>8, GoesOn, StepNames DEF Backup
    <2>2. UNCHANGED <<files, server, access>> /\ job.step = "backup"
      BY <1>8 DEF Backup, installed, Installing
    <2>3. QED BY <1>1, <1>2, <1>6, <2>1, <2>2 DEF Placed, Reached
  <1>9. CASE Prepare
    <2>1. /\ job'.step = "clear venv" /\ job'.secret = job.secret
          /\ job.step = "prepare" /\ job.script \in {"install", "deploy"}
      BY <1>1, <1>9, GoesOn, StepNames DEF Prepare, Installing
    <2>2. /\ UNCHANGED <<files, access>>
          /\ source' = (source \/ job.script = "install" \/ server.proj)
          /\ server.proj => server'.proj
      BY <1>1, <1>9 DEF Prepare, asterisk, PlaceType
    <2>3. source'
      BY <1>1, <1>5, <2>1, <2>2 DEF Placed, Fit, FitInstall
    <2>4. QED BY <1>1, <1>2, <1>6, <2>1, <2>2, <2>3 DEF Placed, Reached
  <1>17. CASE ClearVenv
    <2>1. /\ job'.step = "venv" /\ job'.secret = job.secret
          /\ job.step = "clear venv"
      BY <1>1, <1>17, GoesOn, StepNames DEF ClearVenv, Installing
    <2>2. UNCHANGED <<files, server, source, access>>
      BY <1>17 DEF ClearVenv, asterisk
    <2>3. QED BY <1>1, <1>2, <1>6, <2>1, <2>2 DEF Placed, Reached
  <1>18. CASE MakeVenv
    <2>1. /\ job'.step = "packages" /\ job'.secret = job.secret
          /\ job.step = "venv" /\ venv' = "bare"
      BY <1>1, <1>18, GoesOn, StepNames DEF MakeVenv, Installing
    <2>2. UNCHANGED <<files, server, source, access>>
      BY <1>18 DEF MakeVenv, asterisk
    <2>3. QED BY <1>1, <1>2, <1>6, <2>1, <2>2 DEF Placed, Reached
  <1>19. CASE InstallPackages
    <2>1. /\ job'.step = "ami" /\ job'.secret = job.secret
          /\ job.step = "packages" /\ job.script \in {"install", "deploy"}
      BY <1>1, <1>19, GoesOn, StepNames DEF InstallPackages, Installing
    <2>2. UNCHANGED <<files, server, source, access>>
      BY <1>19 DEF InstallPackages, asterisk
    <2>3. venv = "bare"
      BY <1>6, <2>1 DEF Reached
    <2>4. Packages'
      <3>1. CASE job.script = "deploy"
        BY <1>19, <3>1 DEF InstallPackages, Packages
      <3>2. CASE job.script = "install"
        <4>1. server.lib
          BY <1>5, <3>2 DEF Fit, FitInstall, FitDeploy
        <4>2. venv' = "bare" /\ lib'
          BY <1>19, <2>3, <3>2 DEF InstallPackages
        <4>3. QED BY <2>2, <4>1, <4>2 DEF Packages
      <3>3. QED BY <2>1, <3>1, <3>2
    <2>5. QED BY <1>1, <1>2, <1>6, <2>1, <2>2, <2>4 DEF Placed, Reached
  <1>20. CASE GrantAccess
    <2>1. /\ job'.step = "start" /\ job'.secret = job.secret
          /\ job.step = "grant" /\ job.script = "deploy" /\ access'
      BY <1>1, <1>20, GoesOn, StepNames DEF GrantAccess, Running
    <2>2. /\ UNCHANGED <<files, loaded, server, source, config, runs>>
          /\ Packages' <=> Packages
      BY <1>20 DEF GrantAccess, asterisk, service, counts, Packages
    <2>3. QED BY <1>1, <1>2, <1>6, <2>1, <2>2 DEF Placed, Reached
  <1>10. CASE InstallAmiUser
    <2>1. /\ job'.step = "dialplan" /\ job'.secret = job.secret
          /\ job.step = "ami" /\ job.script = "install"
      BY <1>1, <1>10, GoesOn, StepNames DEF InstallAmiUser, Running
    <2>2. UNCHANGED <<source, access>> /\ (Packages' <=> Packages)
      BY <1>10 DEF InstallAmiUser, installed, Packages
    <2>3. FitInstall /\ ~FitDeploy
      BY <1>5, <2>1 DEF Fit, FitDeploy
    <2>4. files.manager <= 0
      BY <1>1, <2>1, <2>3 DEF Placed
    <2>5. ~(files.manager > 0)
      BY <1>7, <2>4, Bounds DEF Missing
    <2>6. files'.manager = job.secret
      BY <1>1, <1>10, <2>5 DEF InstallAmiUser, FilesType, Conf
    <2>7. QED BY <1>2, <1>6, <2>1, <2>2, <2>3, <2>6 DEF Reached
  <1>11. CASE DeployAmiUser
    <2>1. job.step = "ami" /\ job.script = "deploy" /\ job'.step = "dialplan"
      BY <1>1, <1>11 DEF DeployAmiUser, Running, JobType
    <2>2. UNCHANGED <<source, server, access>> /\ (Packages' <=> Packages)
      BY <1>11 DEF DeployAmiUser, installed, Packages
    <2>3. FitDeploy /\ ~FitInstall
      BY <1>5, <2>1 DEF Fit, FitInstall
    <2>4. /\ files.manager # Missing /\ files.extensions # "missing"
          /\ server.proj /\ job.secret > 0
      BY <1>1, <1>6, <2>3 DEF Placed, Reached
    <2>5. files.manager = 0 \/ files.manager > 0
      BY <1>7, <2>4, Bounds DEF Missing
    <2>6. files'.extensions = files.extensions
      BY <1>1, <1>11 DEF DeployAmiUser, FilesType, Conf
    <2>7. files'.manager = job'.secret /\ job'.secret > 0
      <3>1. CASE files.manager = 0
        <4>1. files'.manager = job.secret
          BY <1>1, <1>11, <3>1 DEF DeployAmiUser, FilesType, Conf
        <4>2. job'.secret = job.secret
          BY <1>1, <1>11, <3>1 DEF DeployAmiUser, JobType
        <4>3. QED BY <2>4, <4>1, <4>2
      <3>2. CASE files.manager > 0
        <4>1. files.manager # 0 BY <1>7, <3>2, Bounds DEF Missing
        <4>2. files'.manager = files.manager
          BY <1>1, <1>11, <4>1 DEF DeployAmiUser, FilesType, Conf
        <4>3. job'.secret = files.manager
          BY <1>1, <1>11, <3>2 DEF DeployAmiUser, JobType
        <4>4. QED BY <3>2, <4>2, <4>3
      <3>3. QED BY <2>5, <3>1, <3>2
    <2>8. files'.manager # Missing
      <3>1. 0 < files'.manager /\ files'.manager \in Int
        <4>1. job'.secret \in Int
          BY <1>1, <1>7, <1>11, Bounds DEF DeployAmiUser, JobType, Missing
        <4>2. QED BY <2>7, <4>1
      <3>2. QED BY <3>1 DEF Missing
    <2>9. QED
      BY <1>2, <1>6, <2>1, <2>2, <2>3, <2>4, <2>6, <2>7, <2>8 DEF Reached
  <1>12. CASE Dialplan
    <2>1. /\ job'.step = "reload" /\ job'.secret = job.secret
          /\ job.step = "dialplan"
      BY <1>1, <1>12, GoesOn, StepNames DEF Dialplan, Installing
    <2>2. /\ UNCHANGED <<source, server, access>> /\ (Packages' <=> Packages)
          /\ files'.manager = files.manager
      BY <1>1, <1>12 DEF Dialplan, installed, FilesType, Conf, Packages
    <2>3. FitDeploy => files.extensions # "missing"
      BY <1>1 DEF Placed
    <2>4. files'.extensions = "ours"
      BY <1>1, <1>5, <1>12, <2>3 DEF Dialplan, FilesType, Conf, Fit, FitDeploy,
         FitInstall
    <2>5. QED BY <1>1, <1>2, <1>6, <2>1, <2>2, <2>4 DEF Placed, Reached
  <1>13. CASE Reload
    <2>1. /\ job'.step = "key" /\ job'.secret = job.secret
          /\ job.step = "reload"
      BY <1>1, <1>13, GoesOn, StepNames DEF Reload, Installing
    <2>2. /\ UNCHANGED <<files, source, server, access>> /\ loaded' = files
          /\ Packages' <=> Packages
      BY <1>13 DEF Reload, Loads, installed, Packages
    <2>3. QED BY <1>1, <1>2, <1>6, <2>1, <2>2 DEF Placed, Reached
  <1>14. CASE HashKey
    <2>1. job'.step = "config" /\ job'.secret = job.secret /\ job.step = "key"
      BY <1>1, <1>14, GoesOn, StepNames DEF HashKey, Installing
    <2>2. /\ UNCHANGED <<files, loaded, source, server, access>>
          /\ Packages' <=> Packages
      BY <1>14 DEF HashKey, installed, asterisk, Packages
    <2>3. QED BY <1>1, <1>2, <1>6, <2>1, <2>2 DEF Placed, Reached
  <1>15. CASE WriteConfig
    <2>1. /\ job'.step = IF job.script = "deploy" THEN "grant" ELSE "start"
          /\ job'.secret = job.secret /\ job.step = "config"
          /\ job.script \in {"install", "deploy"}
      BY <1>1, <1>15, GoesOn, StepNames DEF WriteConfig, Installing
    <2>2. /\ UNCHANGED <<files, loaded, source, server, access, runs>>
          /\ config' = [secret |-> job.secret, key |-> runs]
          /\ Packages' <=> Packages
      BY <1>15 DEF WriteConfig, installed, asterisk, counts, Packages
    <2>3. QED BY <1>1, <1>2, <1>6, <2>1, <2>2 DEF Placed, Reached
  <1>21. CASE PlaceStep
    BY <1>9, <1>17, <1>18, <1>19, <1>20, <1>21 DEF PlaceStep
  <1>22. QED BY <1>8, <1>10, <1>11, <1>12, <1>13, <1>14, <1>15, <1>21

\* Every step keeps what a script has reached.
LEMMA PlacedKept ==
  ASSUME UsableInv, [Next]_vars
  PROVE  Placed'
  <1>1. FilesType /\ PlaceType /\ JobType /\ CountsType /\ Placed
    BY TypeParts DEF UsableInv, ProvisioningInv
  <1>2. NoJob.script = "none"
    BY DEF NoJob
  <1>3. CASE EndStep
    <2>1. job' = NoJob
      BY <1>3 DEF EndStep, HashFails, InstallService, DeployService, Remove,
         Fault, Ends
    <2>2. ~Fit' /\ ~FitDeploy' /\ ~FitInstall'
      BY <1>2, <2>1 DEF Fit, FitDeploy, FitInstall
    <2>3. unit' \/ UNCHANGED <<unit, process>>
      BY <1>3 DEF EndStep, HashFails, InstallService, DeployService, Remove,
         Fault, installed, service
    <2>4. QED BY <1>1, <2>2, <2>3 DEF Placed
  <1>4. CASE StopService \/ CleanDialplan \/ CleanAmiUser
    <2>1. job'.script = "uninstall"
      BY <1>1, <1>4 DEF StopService, CleanDialplan, CleanAmiUser, Running,
         Then, JobType
    <2>2. ~Fit' /\ ~FitDeploy' /\ ~FitInstall'
      BY <2>1 DEF Fit, FitDeploy, FitInstall
    <2>3. process' = NoConfig \/ UNCHANGED <<unit, process>>
      BY <1>4 DEF StopService, CleanDialplan, CleanAmiUser, installed, service
    <2>4. QED BY <1>1, <2>2, <2>3 DEF Placed
  <1>5. CASE Restart
    <2>1. unit' /\ UNCHANGED <<files, loaded, server, venv, lib, source,
                               access, unit, config, job, runs>>
      BY <1>5 DEF Restart, asterisk, installed, counts
    <2>2. (Fit' <=> Fit) /\ (FitDeploy' <=> FitDeploy)
          /\ (FitInstall' <=> FitInstall) /\ (Reached' <=> Reached)
      BY <2>1 DEF Fit, FitDeploy, FitInstall, Reached, Packages
    <2>3. QED BY <1>1, <2>1, <2>2 DEF Placed
  <1>6. CASE AsteriskLoads
    <2>1. /\ UNCHANGED <<files, server, venv, lib, source, access, unit,
                         config, process, job, runs>>
          /\ loaded' = files
      BY <1>6 DEF AsteriskLoads, Loads, installed, service, counts
    <2>2. (Fit' <=> Fit) /\ (FitDeploy' <=> FitDeploy)
          /\ (FitInstall' <=> FitInstall) /\ (Reached => Reached')
      BY <2>1 DEF Fit, FitDeploy, FitInstall, Reached, Packages
    <2>3. QED BY <1>1, <2>1, <2>2 DEF Placed
  <1>7. CASE \E b \in backups : Restore(b)
    <2>1. job' = NoJob /\ UNCHANGED <<unit, process>>
      BY <1>7 DEF Restore, installed, service
    <2>2. ~Fit' /\ ~FitDeploy' /\ ~FitInstall'
      BY <1>2, <2>1 DEF Fit, FitDeploy, FitInstall
    <2>3. QED BY <1>1, <2>1, <2>2 DEF Placed
  <1>8. CASE UNCHANGED vars
    BY <1>1, <1>8 DEF vars, asterisk, installed, service, counts, Placed, Fit,
       FitDeploy, FitInstall, Reached, Packages
  <1>9. QED
    BY <1>3, <1>4, <1>5, <1>6, <1>7, <1>8, StartPlaced, ScriptPlaced
    DEF Next, StartStep, EndStep, PlaceStep

\* What UsableWhenDone asks for.
Done ==
  last.fit /\ (last.script = "deploy" \/ (last.script = "install" /\ server.lib))

\* The last step of a fit script: the service is started with what has been
\* written.
LEMMA StartedUsable ==
  ASSUME UsableInv, InstallService \/ DeployService, Fit
  PROVE  Usable'
  <1>1. FilesType /\ PlaceType /\ JobType /\ CountsType /\ Placed
    BY TypeParts DEF UsableInv, ProvisioningInv
  <1>2. job.step = "start" /\ Reached
    BY <1>1 DEF InstallService, DeployService, Running, Placed
  <1>3. /\ source /\ Packages /\ access
        /\ files.manager = job.secret /\ files.extensions = "ours"
        /\ loaded = files /\ config = [secret |-> job.secret, key |-> runs]
        /\ job.secret > 0
    BY <1>2 DEF Reached, AfterPrepare, AfterVenv, AfterPackages, AfterAmi,
       AfterDialplan, AfterReload
  <1>4. Importable /\ access
    BY <1>3 DEF Importable
  <1>5. process' = config
    <2>1. CASE InstallService
      <3>1. FitInstall
        BY <2>1 DEF InstallService, Running, Fit, FitDeploy
      <3>2. process = NoConfig
        BY <1>1, <3>1 DEF Placed
      <3>3. QED BY <1>4, <2>1, <3>2 DEF InstallService, Runs
    <2>2. CASE DeployService
      BY <1>4, <2>2 DEF DeployService, Runs
    <2>3. QED BY <2>1, <2>2
  <1>6. /\ UNCHANGED <<files, loaded, server, venv, lib, source, access,
                       config>>
        /\ screen' = runs
    BY DEF InstallService, DeployService, asterisk
  <1>7. config # NoConfig
    <2>1. config.secret = job.secret /\ NoConfig.secret = 0
      BY <1>3 DEF NoConfig
    <2>2. job.secret \in Int
      BY <1>1, Bounds DEF JobType
    <2>3. QED BY <1>3, <2>1, <2>2
  <1>8. config.secret = loaded.manager /\ config.key = runs
    BY <1>3
  <1>9. Importable' /\ access'
    BY <1>4, <1>6 DEF Importable, Packages
  <1>10. QED BY <1>3, <1>5, <1>6, <1>7, <1>8, <1>9 DEF Usable

\* Every step keeps what is reported as installed usable.
LEMMA UsableKept ==
  ASSUME UsableInv, [Next]_vars
  PROVE  UsableWhenDone'
  <1>1. FilesType /\ PlaceType /\ JobType /\ CountsType /\ Placed
    BY TypeParts DEF UsableInv, ProvisioningInv
  <1>2. UsableWhenDone' <=> (Done' => Usable')
    BY DEF UsableWhenDone, Done
  <1>3. Done => Usable
    BY DEF UsableInv, UsableWhenDone, Done
  <1>5. NoJob.script = "none" /\ Nobody.fit = FALSE
    BY DEF NoJob, Nobody
  <1>6. CASE StartStep \/ \E b \in backups : Restore(b)
    <2>1. last' = Nobody
      BY <1>6 DEF StartStep, Install, Deploy, Uninstall, Start, Restore
    <2>2. QED BY <1>2, <1>5, <2>1 DEF Done
  <1>7. CASE \/ Backup \/ PlaceStep \/ InstallAmiUser \/ DeployAmiUser
             \/ Dialplan \/ Reload \/ HashKey \/ WriteConfig
             \/ StopService \/ CleanDialplan \/ CleanAmiUser \/ Fault
    <2>1. job # NoJob
      BY <1>5, <1>7 DEF Backup, PlaceStep, Prepare, ClearVenv, MakeVenv,
         InstallPackages, GrantAccess, InstallAmiUser, DeployAmiUser,
         Dialplan, Reload, HashKey, WriteConfig, StopService, CleanDialplan,
         CleanAmiUser, Fault, Running, Installing
    <2>2. last = Nobody
      BY <2>1 DEF UsableInv, ProvisioningInv, Undone
    <2>3. last' = last
      BY <1>7 DEF Backup, PlaceStep, Prepare, ClearVenv, MakeVenv,
         InstallPackages, GrantAccess, InstallAmiUser, DeployAmiUser,
         Dialplan, Reload, HashKey, WriteConfig, StopService, CleanDialplan,
         CleanAmiUser, Fault, counts
    <2>4. QED BY <1>2, <1>5, <2>2, <2>3 DEF Done
  <1>8. CASE InstallService \/ DeployService
    <2>1. /\ last'.script = job.script /\ last'.fit = job.fit
          /\ server' = server
      BY <1>8 DEF InstallService, DeployService, Ends
    <2>2. Done' => Fit
      BY <2>1 DEF Done, Fit, FitDeploy, FitInstall
    <2>3. QED BY <1>2, <1>8, <2>2, StartedUsable
  <1>9. CASE HashFails
    <2>1. /\ last'.script = job.script /\ last'.fit = job.fit
          /\ server' = server
      BY <1>9 DEF HashFails, Ends, installed
    <2>2. Done' => Fit
      BY <2>1 DEF Done, Fit, FitDeploy, FitInstall
    <2>3. job.step = "key" /\ ~Packages
      BY <1>9 DEF HashFails, Installing
    <2>4. ~Fit
      BY <1>1, <2>3 DEF Placed, Reached, AfterPackages, AfterAmi,
         AfterDialplan, AfterReload
    <2>5. QED BY <1>2, <2>2, <2>4
  <1>10. CASE Remove
    <2>1. last'.script = "uninstall"
      BY <1>10 DEF Remove, Running, Ends
    <2>2. QED BY <1>2, <2>1 DEF Done
  <1>11. CASE Restart
    <2>1. /\ UNCHANGED <<files, loaded, server, venv, lib, source, access,
                         config, screen, last>>
          /\ process' = IF Importable /\ access THEN config ELSE NoConfig
      BY <1>11 DEF Restart, Runs, asterisk, installed, counts
    <2>2. QED BY <1>2, <1>3, <2>1 DEF Done, Usable, Importable, Packages
  <1>12. CASE AsteriskLoads
    <2>1. /\ UNCHANGED <<files, server, venv, lib, source, access, config,
                         screen, process, last>>
          /\ loaded' = files
      BY <1>12 DEF AsteriskLoads, Loads, installed, service, counts
    <2>2. QED BY <1>2, <1>3, <2>1 DEF Done, Usable, Importable, Packages
  <1>13. CASE UNCHANGED vars
    BY <1>2, <1>3, <1>13 DEF vars, asterisk, installed, service, counts, Done,
       Usable, Importable, Packages
  <1>14. QED
    BY <1>6, <1>7, <1>8, <1>9, <1>10, <1>11, <1>12, <1>13
    DEF Next, StartStep, PlaceStep

-----------------------------------------------------------------------------
(* The theorems *)

\* A server begins with nothing of the project.
LEMMA InitHolds ==
  ASSUME Init
  PROVE  ProvisioningInv
  <1>1. TypeOK
    <2>1. {Missing, 0} \subseteq Missing..MaxRuns BY Bounds DEF Missing
    <2>2. files \in Conf /\ loaded \in Conf
      BY <2>1 DEF Init, Conf
    <2>3. 0 \in 0..MaxRuns /\ 0 \in 0..MaxFaults BY Bounds
    <2>4. QED BY <2>2, <2>3, Constants DEF Init, TypeOK
  <1>2. /\ files.manager <= 0 /\ ~(files.manager > 0)
        /\ files.extensions # "ours"
    BY DEF Init, Missing
  <1>3. loaded = files /\ backups = {} /\ job = NoJob /\ last = Nobody
    BY DEF Init
  <1>4. NoJob.script = "none" /\ Nobody.script = "none"
    BY DEF NoJob, Nobody
  <1>5. BackedUp /\ NothingOfMissing /\ Undone
    BY <1>2, <1>3, <1>4 DEF BackedUp, Ours, NothingOfMissing, Undone, Running
  <1>6. QED BY <1>1, <1>5 DEF ProvisioningInv

\* The invariant holds in every reachable state.
LEMMA ProvisioningInvariance == Spec => []ProvisioningInv
  <1>1. ProvisioningInv /\ [Next]_vars => ProvisioningInv'
    BY Typing, BackedUpKept, LoadedExists, UndoneKept DEF ProvisioningInv
  <1>2. QED BY InitHolds, <1>1, PTL DEF Spec

\* Every variable has its type, whatever is run, breaks off or is rolled back.
THEOREM TypeCorrect == Spec => []TypeOK
  <1>1. ProvisioningInv => TypeOK BY DEF ProvisioningInv
  <1>2. QED BY ProvisioningInvariance, <1>1, PTL

\* Asterisk's files as they were can be had back, and uninstall.sh leaves
\* nothing of ours in them, wherever the scripts before it broke off.
THEOREM CanBeUndone == Spec => []Reversible
  <1>1. ProvisioningInv => Reversible
    BY DEF ProvisioningInv, BackedUp, HasClean, Clean, Ours, Undone, Stopped,
       NoDialplan, NoAmiUser, Reversible
  <1>2. QED BY ProvisioningInvariance, <1>1, PTL

\* deploy.py on a server with both files and the project directory, and
\* install.sh on one without our AMI user and unit, with an open directory of
\* the configuration and with its lib on python's path, end with a service that
\* runs, logs in and accepts the key they show, whatever was installed, broken
\* off, restarted or rolled back before.
THEOREM InstalledIsUsable == Spec => []UsableWhenDone
  <1>1. Init => Placed /\ UsableWhenDone
    <2>1. Init => last.fit = FALSE /\ job.script = "none"
                  /\ process = NoConfig
      BY DEF Init, Nobody, NoJob
    <2>2. QED
      BY <2>1 DEF Placed, Fit, FitDeploy, FitInstall, UsableWhenDone
  <1>2. Init => UsableInv
    BY <1>1, InitHolds DEF UsableInv
  <1>3. UsableInv /\ [Next]_vars => UsableInv'
    <2> SUFFICES ASSUME UsableInv, [Next]_vars PROVE UsableInv'
      OBVIOUS
    <2>1. ProvisioningInv'
      BY Typing, BackedUpKept, LoadedExists, UndoneKept
      DEF ProvisioningInv, UsableInv
    <2>2. QED BY <2>1, PlacedKept, UsableKept DEF UsableInv
  <1>4. UsableInv => UsableWhenDone
    BY DEF UsableInv
  <1>5. QED BY <1>2, <1>3, <1>4, PTL DEF Spec
=============================================================================
