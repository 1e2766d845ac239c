----------------------------- MODULE SpecOptions -----------------------------
(***************************************************************************)
(* NewSpec and the options that write into a container's specification     *)
(* (container.go, resource.go, mount.go, volume.go, runtime_contract.go).  *)
(* An option that fails ends the construction.  A pointer of the           *)
(* specification is a set: {} for nil, {v} for the address of v.           *)
(***************************************************************************)
EXTENDS Integers

CONSTANTS
  Strings,   \* names, paths, images, headers
  Duration,  \* what time.ParseDuration makes of the texts it accepts, in nanoseconds
  HostDirs,  \* the directories there are on the host
  Join(_, _), \* path.Join
  Trim(_)     \* strings.TrimSpace

\* 2^63
TwoTo30 == 1073741824
Half == 8 * TwoTo30 * TwoTo30

Int64 == -Half..Half - 1
Uint64 == 0..2 * Half - 1
Uint16 == 0..65535

\* The value an int64 holds after arithmetic, and after the conversion of a uint
Wrap(x) == ((x + Half) % (2 * Half)) - Half

\* Integer division, which truncates towards zero
Quo(x, d) == IF x < 0 THEN -((-x) \div d) ELSE x \div d

Second == 1000000000

VARIABLES
  spec,   \* the specification
  result  \* "building", "ok" or "err", after which no specification is returned

vars == <<spec, result>>

-----------------------------------------------------------------------------
(* Healthchecks *)

\* parsePolicyDuration: the durations it returns for a text, none for an error
PolicyDuration(text, least, allowZero) ==
  IF text \notin DOMAIN Duration THEN {}
  ELSE IF (allowZero /\ Duration[text] = 0) \/ Duration[text] >= least THEN {Duration[text]} ELSE {}

Interval(text) == PolicyDuration(IF text = "disable" THEN "0" ELSE text, 0, TRUE)

Timeout(text) == PolicyDuration(text, Second, FALSE)

StartPeriod(text) == PolicyDuration(text, 0, FALSE)

\* ParseHealthcheckConfig: shell holds for a command of CMD-SHELL and at least one word.
HealthConfigs(shell, interval, retries, timeout, start) ==
  {[interval |-> i, retries |-> Wrap(retries), timeout |-> t, start |-> s] :
     i \in IF shell /\ retries >= 1 THEN Interval(interval) ELSE {},
     t \in Timeout(timeout), s \in StartPeriod(start)}

-----------------------------------------------------------------------------
(* The options, as what they make of a specification s *)

\* The fields of a specification that one option each assigns
Fields == {"image", "name", "terminal", "pod", "seccomp", "command", "memory", "oom"}

EmptySpec ==
  [field |-> [f \in Fields |-> {}], env |-> [k \in {} |-> ""], mounts |-> {}, volumes |-> {},
   workDir |-> {}, ports |-> {}, caps |-> {}, health |-> {}, quota |-> {}, period |-> {}, shares |-> {}]

WithField(s, f, v) == [s EXCEPT !.field = [@ EXCEPT ![f] = {v}]]

WithEnvs(s, envs) ==
  [s EXCEPT !.env = [k \in DOMAIN @ \cup DOMAIN envs |-> IF k \in DOMAIN envs THEN envs[k] ELSE @[k]]]

WithCPULimits(s, quota, period, shares) ==
  [s EXCEPT !.quota = {quota}, !.period = {period}, !.shares = {shares}]

DefaultPeriod == 100000

\* nanoCPUs * period / 1e9, in int64
Quota(nanoCPUs) == Quo(Wrap(nanoCPUs * DefaultPeriod), 1000000000)

\* The shares of an earlier WithCPULimits stay.
WithNanoCPUs(s, nanoCPUs) ==
  [s EXCEPT !.quota = {Quota(nanoCPUs)}, !.period = {DefaultPeriod}]

Mount(source, destination) == [source |-> source, destination |-> destination]

WithMount(s, source, destination) ==
  [s EXCEPT !.mounts = @ \cup {Mount(source, destination)}]

\* WithNamedVolume, under a name that is not blank: a destination has one volume, and the
\* sub-path of the first option that names it.
Taken(s, name, dest) == \E v \in s.volumes : v.dest = dest /\ v.name # name

WithNamedVolume(s, name, dest, subPath) ==
  IF \E v \in s.volumes : v.dest = dest THEN s
  ELSE [s EXCEPT !.volumes = @ \cup {[name |-> name, dest |-> dest, subPath |-> subPath]}]

\* Each file of columns, by its header, is mounted under dir and named by a variable.
WithFileBindings(s, dir, columns) ==
  [WithEnvs(s, [h \in DOMAIN columns |-> Join(dir, h)]) EXCEPT
     !.mounts = @ \cup {Mount(columns[h], Join(dir, h)) : h \in DOMAIN columns},
     !.workDir = {dir}]

-----------------------------------------------------------------------------
(* NewSpec *)

Building(s) == result = "building" /\ result' = "building" /\ spec' = s

Fail == result = "building" /\ result' = "err" /\ UNCHANGED spec

Assign == \E f \in Fields, v \in Strings \cup Int64 : Building(WithField(spec, f, v))

AddEnvs ==
  \E keys \in SUBSET Strings : \E envs \in [keys -> Strings] : Building(WithEnvs(spec, envs))

AddPort ==
  \E container, host \in Uint16 :
    Building([spec EXCEPT !.ports = @ \cup {[container |-> container, host |-> host]}])

AddSysAdmin == Building([spec EXCEPT !.caps = @ \cup {"SYS_ADMIN"}])

LimitCPU ==
  \/ \E quota \in Int64, period, shares \in Uint64 :
       Building(WithCPULimits(spec, quota, period, shares))
  \/ \E nanoCPUs \in Int64 : Building(WithNanoCPUs(spec, nanoCPUs))

AddMount ==
  \E source, destination \in Strings :
    IF source \in HostDirs THEN Building(WithMount(spec, source, destination)) ELSE Fail

AddVolume ==
  \E name, dest, subPath \in Strings :
    IF Trim(name) = "" \/ Taken(spec, Trim(name), dest) THEN Fail
    ELSE Building(WithNamedVolume(spec, Trim(name), dest, subPath))

BindFiles ==
  \E dir \in Strings, headers \in SUBSET Strings : \E columns \in [headers -> Strings] :
    Building(WithFileBindings(spec, dir, columns))

\* WithHealthChecker: the error of the parser is that of the option.
CheckHealth ==
  \E shell \in BOOLEAN, retries \in Uint64, interval, timeout, start \in Strings :
    LET health == HealthConfigs(shell, interval, retries, timeout, start)
    IN  IF health = {} THEN Fail ELSE Building([spec EXCEPT !.health = health])

\* All options have been applied.
Finish == result = "building" /\ result' = "ok" /\ UNCHANGED spec

Init == spec = EmptySpec /\ result = "building"

Next ==
  \/ Assign \/ AddEnvs \/ AddPort \/ AddSysAdmin \/ LimitCPU \/ AddMount \/ AddVolume
  \/ BindFiles \/ CheckHealth \/ Finish

Spec == Init /\ [][Next]_vars

-----------------------------------------------------------------------------
(* Properties *)

\* Whatever the options and their order: a quota always comes with a period, and shares
\* with both (resource.go:107-146).
QuotaHasPeriod ==
  /\ spec.quota = {} <=> spec.period = {}
  /\ spec.shares # {} => spec.quota # {}

\* A destination has one volume (volume.go:57-81).
OneVolumePerDest == \A v, w \in spec.volumes : v.dest = w.dest => v = w

\* A healthcheck in a specification has one configuration, with durations that Podman can
\* use, and retries unless their number is beyond an int (runtime_contract.go:31-63).
HealthIsUsable ==
  \A h \in spec.health :
    /\ spec.health = {h}
    /\ h.interval >= 0 /\ h.start >= 0 /\ h.timeout >= Second
    /\ h.retries # 0

=============================================================================
