----------------------------- MODULE BootProofs -----------------------------
(***************************************************************************)
(* Startup and the settings, for any number of instances and faults, any   *)
(* limits and environments, and any database URL.                          *)
(***************************************************************************)
EXTENDS Boot, TLAPS

-----------------------------------------------------------------------------
(* Instances that start together. *)

Migrating == {"migrate", "building", "built"}
Migrated == {"count", "hash", "insert", "row", "limiters", "blacklist", "bind", "serving"}
Seeded == {"limiters", "blacklist", "bind", "serving"}
Building == {"building", "validating"}
Wanted(i) == IF env[i].redis \in {"unset", "blank"} THEN "memory" ELSE "redis"

(* What the migrations have left, by the last one recorded. *)
IndexByMigration ==
    /\ applied = 9 => index = "none"
    /\ applied = 11 => index \in {"invalid", "valid"}
    /\ applied = 12 => index = "valid"

(* What holds of an instance at each stage. *)
InstanceSound(i) ==
    /\ stage[i] # "down" => Boots!AuthLoads(env[i])
    /\ stage[i] \in Migrating <=> holder = i
    /\ stage[i] = "building" => applied = 10 /\ index \in Building
    /\ stage[i] = "built" => applied = 10 /\ index \in {"invalid", "valid"}
    /\ stage[i] = "migrate" => index \notin Building
    /\ stage[i] \in Migrated => applied = 12
    /\ stage[i] \in Seeded => locals = 1
    /\ stage[i] \in {"blacklist", "bind", "serving"} =>
            backend[i].limiters = Wanted(i) /\ env[i].redis # "unparsable"
    /\ stage[i] \in {"bind", "serving"} => backend[i].blacklist = Wanted(i)

(* A build belongs to the instance that holds the lock, or to the server,   *)
(* which holds it for nothing else.                                         *)
BuildHasOwner ==
    /\ index \in Building =>
            applied = 10 /\ holder # "none" /\ (holder # "server" => stage[holder] = "building")
    /\ holder = "server" => index \in Building

StartupInv ==
    /\ Boots!TypeOK
    /\ IndexByMigration
    /\ BuildHasOwner
    /\ \A i \in Instance : InstanceSound(i)

(* Nothing has been done at first. *)
LEMMA StartupInitInv == Boots!StartupConstants /\ Boots!Init => StartupInv
  BY
  DEF Boots!StartupConstants, Boots!Init, StartupInv, Boots!TypeOK, Boots!Stage, Boots!Fresh,
      IndexByMigration, BuildHasOwner, Building, InstanceSound, Migrating, Migrated, Seeded

(* A step of instance i alone that leaves the migrations and their lock. *)
LEMMA BootMoveInv ==
    ASSUME StartupInv, NEW i \in Instance, Boots!TypeOK', InstanceSound(i)',
           UNCHANGED <<applied, index, holder>>, locals' >= locals, stage[i] \notin Migrating,
           \A j \in Instance \ {i} :
                stage'[j] = stage[j] /\ env'[j] = env[j] /\ backend'[j] = backend[j]
    PROVE  StartupInv'
  <1>1. IndexByMigration' /\ BuildHasOwner'
    BY
    DEF StartupInv, Boots!TypeOK, IndexByMigration, BuildHasOwner, Building, InstanceSound,
        Migrating
  <1>2. ASSUME NEW j \in Instance PROVE InstanceSound(j)'
    <2>1. InstanceSound(j)
      BY DEF StartupInv
    <2>2. CASE j # i
      BY <2>1, <2>2 DEF StartupInv, Boots!TypeOK, InstanceSound, Wanted
    <2> QED
      BY <2>2
  <1> QED
    BY <1>1, <1>2 DEF StartupInv

(* The steps before and after the migrations. *)
LEMMA BootOutsideInv ==
    ASSUME Boots!StartupConstants, StartupInv, NEW i \in Instance,
           \/ Boots!Start(i) \/ Boots!Connect(i)
           \/ Boots!Count(i) \/ Boots!CheckUsername(i) \/ Boots!BuildBlacklist(i)
           \/ /\ Boots!Hash(i) \/ Boots!Insert(i) \/ Boots!BuildLimiters(i) \/ Boots!Bind(i)
              /\ ~Boots!Exit(i)
    PROVE  StartupInv'
  <1> USE DEF StartupInv
  <1>1. InstanceSound(i)
    OBVIOUS
  <1>2. CASE Boots!Start(i)
    <2>1. Boots!TypeOK'
      BY <1>2
      DEF Boots!StartupConstants, Boots!TypeOK, Boots!Start, Boots!Goto, Boots!Stage, Boots!db,
          Boots!world
    <2>2. InstanceSound(i)'
      BY <1>1, <1>2
      DEF Boots!StartupConstants, Boots!TypeOK, Boots!Start, Boots!Goto, Boots!db, Boots!world,
          InstanceSound,
                        Migrating, Migrated, Seeded, Wanted
    <2> QED
      BY <1>2, <2>1, <2>2, BootMoveInv
      DEF Boots!TypeOK, Boots!Start, Boots!Goto, Boots!db, Boots!world, Migrating
  <1>3. CASE Boots!Connect(i)
    <2>1. Boots!TypeOK'
      BY <1>3
      DEF Boots!StartupConstants, Boots!TypeOK, Boots!Connect, Boots!Goto, Boots!Stage, Boots!db,
          Boots!world
    <2>2. InstanceSound(i)'
      BY <1>1, <1>3
      DEF Boots!StartupConstants, Boots!TypeOK, Boots!Connect, Boots!Goto, Boots!db, Boots!world,
          InstanceSound,
                        Migrating, Migrated, Seeded, Wanted
    <2> QED
      BY <1>3, <2>1, <2>2, BootMoveInv
      DEF Boots!TypeOK, Boots!Connect, Boots!Goto, Boots!db, Boots!world, Migrating
  <1>4. CASE Boots!BuildLimiters(i) /\ ~Boots!Exit(i)
    <2>1. /\ stage[i] = "limiters" /\ stage' = [stage EXCEPT ![i] = "blacklist"]
          /\ Boots!NoRedis(i) \/ env[i].redis = "set"
          /\ backend' = [backend EXCEPT ![i].limiters =
                            IF Boots!NoRedis(i) THEN "memory" ELSE "redis"]
          /\ UNCHANGED <<env, Boots!db, Boots!world>>
      BY <1>4 DEF Boots!BuildLimiters, Boots!Goto
    <2>2. Boots!TypeOK'
      BY <2>1 DEF Boots!TypeOK, Boots!Stage, Boots!db, Boots!world
    <2>3. InstanceSound(i)'
      BY <1>1, <2>1
      DEF Boots!TypeOK, InstanceSound, Migrating, Migrated, Seeded, Wanted, Boots!NoRedis,
          Boots!db, Boots!world
    <2> QED
      BY <2>1, <2>2, <2>3, BootMoveInv DEF Boots!TypeOK, Boots!db, Boots!world, Migrating
  <1>5. CASE Boots!Count(i)
    <2>1. Boots!TypeOK'
      BY <1>5
      DEF Boots!StartupConstants, Boots!TypeOK, Boots!Count, Boots!Goto, Boots!Stage, Boots!db,
          Boots!world
    <2>2. InstanceSound(i)'
      BY <1>1, <1>5
      DEF Boots!StartupConstants, Boots!TypeOK, Boots!Count, Boots!Goto, Boots!db, Boots!world,
          InstanceSound,
                        Migrating, Migrated, Seeded, Wanted
    <2> QED
      BY <1>5, <2>1, <2>2, BootMoveInv
      DEF Boots!TypeOK, Boots!Count, Boots!Goto, Boots!db, Boots!world, Migrating
  <1>6. CASE Boots!Hash(i) /\ ~Boots!Exit(i)
    <2>1. /\ stage[i] = "hash" /\ stage' = [stage EXCEPT ![i] = "insert"]
          /\ UNCHANGED <<env, backend, applied, index, older, holder, locals, redisUp, faults>>
      BY <1>6 DEF Boots!Hash, Boots!Goto, Boots!db, Boots!world
    <2>2. Boots!TypeOK'
      BY <2>1 DEF Boots!TypeOK, Boots!Stage
    <2>3. InstanceSound(i)'
      BY <1>1, <2>1 DEF Boots!TypeOK, InstanceSound, Migrating, Migrated, Seeded, Wanted
    <2> QED
      BY <2>1, <2>2, <2>3, BootMoveInv DEF Boots!TypeOK, Migrating
  <1>7. CASE Boots!Insert(i) /\ ~Boots!Exit(i)
    <2>1. /\ stage[i] = "row" /\ stage' = [stage EXCEPT ![i] = "limiters"]
          /\ locals' = 1
          /\ UNCHANGED <<env, backend, applied, index, older, holder, redisUp, faults>>
      BY <1>7 DEF Boots!Insert, Boots!Goto, Boots!world
    <2>2. Boots!TypeOK'
      BY <2>1 DEF Boots!TypeOK, Boots!Stage
    <2>3. InstanceSound(i)'
      BY <1>1, <2>1 DEF Boots!TypeOK, InstanceSound, Migrating, Migrated, Seeded, Wanted
    <2> QED
      BY <2>1, <2>2, <2>3, BootMoveInv DEF Boots!TypeOK, Migrating
  <1>8. CASE Boots!BuildBlacklist(i)
    <2>1. Boots!TypeOK'
      BY <1>8
      DEF Boots!StartupConstants, Boots!TypeOK, Boots!BuildBlacklist, Boots!Goto, Boots!Stage,
          Boots!db, Boots!world
    <2>2. InstanceSound(i)'
      BY <1>1, <1>8
      DEF Boots!StartupConstants, Boots!TypeOK, Boots!BuildBlacklist, Boots!Goto, Boots!db,
          Boots!world, InstanceSound,
                        Migrating, Migrated, Seeded, Wanted
    <2> QED
      BY <1>8, <2>1, <2>2, BootMoveInv
      DEF Boots!TypeOK, Boots!BuildBlacklist, Boots!Goto, Boots!db, Boots!world, Migrating
  <1>9. CASE Boots!Bind(i) /\ ~Boots!Exit(i)
    <2>1. /\ stage[i] = "bind" /\ stage' = [stage EXCEPT ![i] = "serving"]
          /\ UNCHANGED <<env, backend, applied, index, older, holder, locals, redisUp, faults>>
      BY <1>9 DEF Boots!Bind, Boots!Goto, Boots!db, Boots!world
    <2>2. Boots!TypeOK'
      BY <2>1 DEF Boots!TypeOK, Boots!Stage
    <2>3. InstanceSound(i)'
      BY <1>1, <2>1 DEF Boots!TypeOK, InstanceSound, Migrating, Migrated, Seeded, Wanted
    <2> QED
      BY <2>1, <2>2, <2>3, BootMoveInv DEF Boots!TypeOK, Migrating
  <1>10. CASE Boots!CheckUsername(i)
    <2>1. Boots!TypeOK'
      BY <1>10
      DEF Boots!TypeOK, Boots!CheckUsername, Boots!Goto, Boots!Stage, Boots!db, Boots!world
    <2>2. InstanceSound(i)'
      BY <1>1, <1>10
      DEF Boots!TypeOK, Boots!CheckUsername, Boots!Goto, Boots!db, Boots!world, InstanceSound,
          Migrating, Migrated, Seeded, Wanted
    <2> QED
      BY <1>10, <2>1, <2>2, BootMoveInv
      DEF Boots!TypeOK, Boots!CheckUsername, Boots!Goto, Boots!db, Boots!world, Migrating
  <1> QED
    BY <1>2, <1>3, <1>4, <1>5, <1>6, <1>7, <1>8, <1>9, <1>10

(* A step of the instance that has the lock, or takes it, or lets go. *)
LEMMA LockedInv ==
    ASSUME Boots!StartupConstants, StartupInv, NEW i \in Instance, Boots!TypeOK', IndexByMigration',
           UNCHANGED <<env, backend, locals>>,
           holder \in {i, "none"}, holder' \in {i, "none"}, InstanceSound(i)',
           applied' >= applied, index' \in Building => holder' = i /\ stage'[i] = "building",
           \A j \in Instance \ {i} : stage'[j] = stage[j]
    PROVE  StartupInv'
  <1>1. ASSUME NEW j \in Instance, j # i PROVE InstanceSound(j)'
    <2>1. InstanceSound(j)
      BY DEF StartupInv
    <2> QED
      BY <1>1, <2>1
      DEF StartupInv, Boots!StartupConstants, Boots!TypeOK, InstanceSound, Wanted, Migrating,
          Migrated
  <1> QED
    BY <1>1 DEF StartupInv, BuildHasOwner, InstanceSound, Boots!StartupConstants

(* The migrations. *)
LEMMA MigrationInv ==
    ASSUME Boots!StartupConstants, StartupInv, NEW i \in Instance,
           \/ Boots!Lock(i) \/ Boots!Migrate10(i) \/ Boots!Migrate11(i)
           \/ Boots!Record11(i) \/ Boots!Migrate12(i) \/ Boots!Unlock(i)
    PROVE  StartupInv'
  <1> USE DEF StartupInv
  <1>1. InstanceSound(i)
    OBVIOUS
  <1>2. Boots!TypeOK'
    <2>1. CASE Boots!Lock(i) \/ Boots!Unlock(i)
      BY <2>1 DEF Boots!TypeOK, Boots!Stage, Boots!world, Boots!Goto, Boots!Lock, Boots!Unlock
    <2>2. CASE Boots!Migrate10(i) \/ Boots!Migrate12(i)
      BY <2>2 DEF Boots!TypeOK, Boots!world, Boots!Migrate10, Boots!Migrate12
    <2>3. CASE Boots!Migrate11(i)
      BY <2>3 DEF Boots!TypeOK, Boots!Stage, Boots!world, Boots!Goto, Boots!Migrate11
    <2>4. CASE Boots!Record11(i)
      BY <2>4 DEF Boots!TypeOK, Boots!Stage, Boots!world, Boots!Goto, Boots!Record11
    <2> QED
      BY <2>1, <2>2, <2>3, <2>4
  <1>3. /\ UNCHANGED <<env, backend, locals>> /\ applied' >= applied
        /\ \A j \in Instance \ {i} : stage'[j] = stage[j]
    <2>1. stage \in [Instance -> Boots!Stage] /\ applied \in 9 .. 12
      BY DEF Boots!TypeOK
    <2>2. UNCHANGED <<env, backend, locals>> /\ applied' >= applied
      <3>1. UNCHANGED <<env, backend, locals>>
        BY
        DEF Boots!Lock, Boots!Migrate10, Boots!Migrate11, Boots!Record11,
            Boots!Migrate12, Boots!Unlock
      <3>2. applied' = applied \/ (applied = 9 /\ applied' = 10) \/ (applied' = 11 /\ applied < 11)
                \/ (applied = 11 /\ applied' = 12)
        BY <1>1, <2>1
        DEF Boots!Lock, Boots!Migrate10, Boots!Migrate11, Boots!Record11,
            Boots!Migrate12, Boots!Unlock, InstanceSound
      <3> QED
        BY <2>1, <3>1, <3>2
    <2>3. UNCHANGED stage \/ \E st \in Boots!Stage : stage' = [stage EXCEPT ![i] = st]
      BY
      DEF Boots!Goto, Boots!Lock, Boots!Migrate10, Boots!Migrate11, Boots!Record11,
          Boots!Migrate12, Boots!Unlock, Boots!Stage
    <2> QED
      BY <2>1, <2>2, <2>3
  <1>4. holder \in {i, "none"} /\ holder' \in {i, "none"}
    BY <1>1
    DEF InstanceSound, Migrating, Boots!Lock, Boots!Migrate10, Boots!Migrate11,
        Boots!Record11, Boots!Migrate12, Boots!Unlock
  <1>5. CASE Boots!Lock(i) \/ Boots!Unlock(i)
    <2>1. IndexByMigration' /\ index' \notin Building
      BY <1>1, <1>5
      DEF Boots!StartupConstants, Boots!TypeOK, Boots!Lock, Boots!Unlock, IndexByMigration,
          BuildHasOwner, InstanceSound
    <2>2. InstanceSound(i)'
      BY <1>1, <1>2, <1>5, <2>1
      DEF Boots!StartupConstants, Boots!TypeOK, Boots!Lock, Boots!Unlock, Boots!Goto,
          InstanceSound,
                                    Migrating, Migrated, Seeded, Boots!world
    <2> QED
      BY <1>2, <1>3, <1>4, <2>1, <2>2, LockedInv
  <1>6. CASE Boots!Migrate10(i) \/ Boots!Migrate12(i)
    <2>1. IndexByMigration' /\ index' \notin Building
      BY <1>1, <1>6
      DEF Boots!TypeOK, Boots!Migrate10, Boots!Migrate12, IndexByMigration, Building, InstanceSound
    <2>2. InstanceSound(i)'
      BY <1>1, <1>6, <2>1 DEF Boots!TypeOK, Boots!Migrate10, Boots!Migrate12, InstanceSound,
                              Migrating, Migrated, Seeded, Boots!world
    <2> QED
      BY <1>2, <1>3, <1>4, <2>1, <2>2, LockedInv
  <1>7. CASE Boots!Migrate11(i)
    <2>1. /\ IndexByMigration'
          /\ index' \in Building => holder' = i /\ stage'[i] = "building"
      BY <1>1, <1>7
      DEF Boots!TypeOK, Boots!Migrate11, Boots!Goto, IndexByMigration, Building, InstanceSound,
          Migrating
    <2>2. InstanceSound(i)'
      BY <1>1, <1>7
      DEF Boots!TypeOK, Boots!Migrate11, Boots!Goto, InstanceSound, Building, Migrating, Migrated,
          Seeded, Boots!world
    <2> QED
      BY <1>2, <1>3, <1>4, <2>1, <2>2, LockedInv
  <1>8. CASE Boots!Record11(i)
    <2>1. IndexByMigration' /\ index' \notin Building
      BY <1>1, <1>8 DEF Boots!TypeOK, Boots!Record11, IndexByMigration, Building, InstanceSound
    <2>2. InstanceSound(i)'
      BY <1>1, <1>8, <2>1
      DEF Boots!TypeOK, Boots!Record11, Boots!Goto, InstanceSound, Migrating, Migrated, Seeded,
          Boots!world
    <2> QED
      BY <1>2, <1>3, <1>4, <2>1, <2>2, LockedInv
  <1> QED
    BY <1>5, <1>6, <1>7, <1>8

(* The process ends: an index it was building is left invalid, or left to   *)
(* the server, and no other instance holds the lock.                        *)
LEMMA BootExitInv ==
    ASSUME Boots!StartupConstants, StartupInv, NEW i \in Instance, Boots!Exit(i), stage[i] # "down",
           redisUp' \in BOOLEAN, faults' \in 0 .. MaxFaults
    PROVE  StartupInv'
  <1>1. Boots!TypeOK'
    BY DEF StartupInv, Boots!TypeOK, Boots!Exit, Boots!Goto, Boots!Stage, Boots!Fresh
  <1>2. IndexByMigration' /\ BuildHasOwner'
    BY
    DEF StartupInv, Boots!StartupConstants, Boots!TypeOK, Boots!Exit, Boots!Goto,
        IndexByMigration, BuildHasOwner, Building, InstanceSound, Migrating
  <1>3. ASSUME NEW j \in Instance PROVE InstanceSound(j)'
    <2>1. InstanceSound(j) /\ InstanceSound(i)
      BY DEF StartupInv
    <2> QED
      BY <2>1, <1>1
      DEF StartupInv, Boots!StartupConstants, Boots!TypeOK, Boots!Exit, Boots!Goto, InstanceSound,
          Building, Migrating, Migrated, Seeded, Wanted
  <1> QED
    BY <1>1, <1>2, <1>3 DEF StartupInv

(* The build goes on, ends, or is in a deadlock with those at the lock. *)
LEMMA IndexBuildInv ==
    ASSUME Boots!StartupConstants, StartupInv, Boots!IndexBuild
    PROVE  StartupInv'
  <1> USE DEF StartupInv
  <1>1. CASE Boots!Fill
    <2>1. /\ index = "building" /\ index' = "validating" /\ older' \subseteq Instance
          /\ UNCHANGED <<stage, env, backend, applied, holder, locals, redisUp, faults>>
      BY <1>1 DEF Boots!Fill, Boots!world
    <2>2. Boots!TypeOK' /\ IndexByMigration' /\ BuildHasOwner'
      BY <2>1 DEF Boots!TypeOK, IndexByMigration, BuildHasOwner, Building
    <2>3. ASSUME NEW j \in Instance PROVE InstanceSound(j)'
      <3>1. InstanceSound(j)
        OBVIOUS
      <3>2. stage[j] \notin {"migrate", "built"}
        BY <2>1, <3>1 DEF InstanceSound, Building
      <3> QED
        BY <2>1, <3>1, <3>2 DEF InstanceSound, Building, Wanted
    <2> QED
      BY <2>2, <2>3
  <1>2. CASE Boots!Build /\ holder # "server"
    <2>1. /\ index = "validating" /\ index' = "valid"
          /\ stage' = [stage EXCEPT ![holder] = "built"]
          /\ UNCHANGED <<env, backend, applied, older, holder, locals, redisUp, faults>>
      BY <1>2 DEF Boots!Build, Boots!Goto, Boots!world
    <2>2. holder \in Instance /\ stage[holder] = "building" /\ applied = 10
      BY <1>2, <2>1 DEF Boots!TypeOK, BuildHasOwner, Building
    <2>3. Boots!TypeOK' /\ IndexByMigration' /\ index' \notin Building
      BY <2>1, <2>2 DEF Boots!TypeOK, Boots!Stage, IndexByMigration, Building
    <2>4. InstanceSound(holder)'
      BY <2>1, <2>2
      DEF Boots!TypeOK, InstanceSound, Building, Migrating, Migrated, Seeded
    <2>5. stage'[holder] = "built" /\ \A j \in Instance \ {holder} : stage'[j] = stage[j]
      BY <2>1, <2>2 DEF Boots!TypeOK
    <2>6. PICK i \in Instance : i = holder
      BY <2>2
    <2>7. InstanceSound(i)'
      BY <2>1, <2>4, <2>6 DEF InstanceSound, Wanted
    <2> QED
      BY <2>1, <2>2, <2>3, <2>5, <2>6, <2>7, LockedInv DEF Boots!TypeOK
  <1>3. CASE \/ Boots!Build /\ holder = "server"
             \/ /\ holder = "server" /\ index = "validating"
                /\ index' = "invalid" /\ older' = {} /\ holder' = "none"
                /\ UNCHANGED <<stage, env, backend, applied, locals, redisUp, faults>>
    <2>1. /\ holder = "server" /\ index = "validating" /\ index' \in {"invalid", "valid"}
          /\ holder' = "none" /\ older' \subseteq Instance
          /\ UNCHANGED <<stage, env, backend, applied, locals, redisUp, faults>>
      BY <1>3 DEF Boots!Build, Boots!world, Boots!TypeOK
    <2>2. Boots!TypeOK' /\ IndexByMigration' /\ BuildHasOwner'
      BY <2>1 DEF Boots!TypeOK, IndexByMigration, BuildHasOwner, Building
    <2>3. ASSUME NEW j \in Instance PROVE InstanceSound(j)'
      <3>1. InstanceSound(j) /\ j # "server" /\ j # "none"
        BY DEF Boots!StartupConstants
      <3>2. stage[j] \notin Migrating
        BY <2>1, <3>1 DEF InstanceSound
      <3> QED
        BY <2>1, <3>1, <3>2 DEF InstanceSound, Migrating, Wanted
    <2> QED
      BY <2>2, <2>3
  <1>4. ASSUME NEW j \in Instance, Boots!Exit(j), stage[j] # "down", UNCHANGED <<redisUp, faults>>
        PROVE  StartupInv'
    BY <1>4, BootExitInv DEF Boots!TypeOK
  <1>5. CASE Boots!Deadlock
    <2>1. holder \in Instance /\ index = "validating" => stage[holder] = "building"
      BY DEF BuildHasOwner, Building, Boots!StartupConstants
    <2>2. older \subseteq Instance
      BY DEF Boots!TypeOK
    <2> QED
      BY <1>3, <1>4, <1>5, <2>1, <2>2 DEF Boots!Deadlock, Boots!world
  <1> QED
    BY <1>1, <1>2, <1>3, <1>5 DEF Boots!IndexBuild

(* The invariant is inductive. *)
LEMMA StartupNextInv ==
    ASSUME Boots!StartupConstants, StartupInv, Boots!Next \/ UNCHANGED Boots!vars
    PROVE  StartupInv'
  <1>1. ASSUME NEW i \in Instance, Boots!Start(i) \/ Boots!Step(i) PROVE StartupInv'
    <2>1. CASE /\ Boots!Exit(i)
               /\ Boots!Hash(i) \/ Boots!Insert(i) \/ Boots!BuildLimiters(i) \/ Boots!Bind(i)
      BY <2>1, BootExitInv
      DEF Boots!Hash, Boots!Insert, Boots!BuildLimiters, Boots!Bind, Boots!world, StartupInv,
          Boots!TypeOK
    <2> QED
      BY <1>1, <2>1, BootOutsideInv, MigrationInv DEF Boots!Step
  <1>2. ASSUME NEW i \in Instance, Boots!Crash(i) PROVE StartupInv'
    BY <1>2, BootExitInv
    DEF Boots!Crash, Boots!Fault, Boots!StartupConstants, StartupInv, Boots!TypeOK
  <1>3. CASE Boots!RedisFails \/ Boots!RedisRecovers \/ UNCHANGED Boots!vars
    <2>1. /\ UNCHANGED <<stage, env, backend, applied, index, older, holder, locals>>
          /\ redisUp' \in BOOLEAN /\ faults' \in 0 .. MaxFaults
      <3>1. redisUp \in BOOLEAN /\ faults \in 0 .. MaxFaults /\ MaxFaults \in Nat
        BY DEF Boots!StartupConstants, StartupInv, Boots!TypeOK
      <3>2. CASE Boots!RedisFails
        <4>1. faults < MaxFaults /\ faults' = faults + 1 /\ redisUp' = FALSE
              /\ UNCHANGED <<stage, env, backend, applied, index, older, holder, locals>>
          BY <3>2 DEF Boots!RedisFails, Boots!Fault, Boots!db
        <4>2. faults' \in 0 .. MaxFaults
          BY <3>1, <4>1
        <4>3. redisUp' \in BOOLEAN
          BY <4>1, Zenon
        <4> QED
          BY <4>1, <4>2, <4>3
      <3>3. CASE Boots!RedisRecovers \/ UNCHANGED Boots!vars
        BY <1>3, <3>1, <3>3, Zenon DEF Boots!RedisRecovers, Boots!vars, Boots!db
      <3> QED
        BY <1>3, <3>2, <3>3
    <2>2. Boots!TypeOK' /\ IndexByMigration' /\ BuildHasOwner'
      BY <2>1 DEF StartupInv, Boots!TypeOK, IndexByMigration, BuildHasOwner
    <2>3. \A i \in Instance : InstanceSound(i)'
      BY <2>1 DEF StartupInv, InstanceSound, Wanted
    <2> QED
      BY <2>1, <2>2, <2>3 DEF StartupInv
  <1> QED
    BY <1>1, <1>2, <1>3, IndexBuildInv DEF Boots!Next

(* Whoever serves is ready. *)
LEMMA StartupReady == Boots!StartupConstants /\ StartupInv => Boots!ReadyWhenServing
  <1> SUFFICES ASSUME Boots!StartupConstants, StartupInv, NEW i \in Instance, stage[i] = "serving"
               PROVE  /\ applied = 12 /\ index = "valid" /\ locals = 1
                      /\ backend[i] = [limiters |-> Wanted(i), blacklist |-> Wanted(i)]
                      /\ env[i].cost # Boots!Unset => env[i].cost \in MinCost .. MaxCost
                      /\ env[i].permits # Boots!Unset => env[i].permits \in 1 .. (MaxPermits - 1)
    BY DEF Boots!ReadyWhenServing, Wanted
  <1>1. InstanceSound(i) /\ Boots!AuthLoads(env[i])
    BY DEF StartupInv, InstanceSound
  <1>2. applied = 12 /\ index = "valid" /\ locals = 1
    BY <1>1 DEF StartupInv, IndexByMigration, InstanceSound, Migrated, Seeded
  <1>3. backend[i] = [limiters |-> Wanted(i), blacklist |-> Wanted(i)]
    BY <1>1 DEF StartupInv, Boots!TypeOK, InstanceSound
  <1>4. env[i].cost \in Boots!Number /\ env[i].permits \in Boots!Number
    BY DEF StartupInv, Boots!TypeOK, Boots!StartupConstants
  <1>5. /\ env[i].cost # Boots!Unset => env[i].cost \in MinCost .. MaxCost
        /\ env[i].permits # Boots!Unset => env[i].permits \in 1 .. (MaxPermits - 1)
    BY <1>1, <1>4
    DEF Boots!AuthLoads, Boots!Numeric, Boots!validate_bcrypt_max_concurrent,
        Boots!validate_bcrypt_cost,
        Boots!Number, Boots!StartupConstants, Boots!SettingsConstants, Boots!Unset,
        Boots!Malformed
  <1> QED
    BY <1>2, <1>3, <1>5

(* An instance ends for a cause. *)
LEMMA StartupExits ==
    ASSUME Boots!StartupConstants, StartupInv, Boots!Next
    PROVE  Boots!ExitHasCause
  <1> SUFFICES ASSUME NEW i \in Instance, stage[i] # "down", stage'[i] = "down"
               PROVE  \/ faults' # faults
                      \/ env[i].redis = "set" /\ ~redisUp
                      \/ env[i].redis = "unparsable"
                      \/ env[i].tls = "unreadable"
                      \/ index = "validating" /\ stage[i] \in {"lock", "building"} /\ older # {}
                      \/ stage[i] = "row" /\ locals = 1
    BY DEF Boots!ExitHasCause
  <1>1. Boots!AuthLoads(env[i])
    BY DEF StartupInv, InstanceSound
  <1>2. Boots!Numeric(env[i].cost, DefaultCost) <= MaxCost
    BY <1>1 DEF Boots!AuthLoads, Boots!validate_bcrypt_cost
  <1>3. faults \in Nat
    BY DEF StartupInv, Boots!TypeOK, Boots!StartupConstants
  <1>4. ASSUME NEW j \in Instance, Boots!Start(j) \/ Boots!Step(j) \/ Boots!Crash(j)
        PROVE  j = i
    BY <1>4
    DEF StartupInv, Boots!TypeOK, Boots!Start, Boots!Step, Boots!Crash, Boots!Exit, Boots!Goto,
        Boots!Connect, Boots!Lock, Boots!Migrate10, Boots!Migrate11,
        Boots!Record11, Boots!Migrate12, Boots!Unlock, Boots!Count, Boots!Hash,
        Boots!CheckUsername, Boots!Insert, Boots!BuildLimiters, Boots!BuildBlacklist, Boots!Bind
  <1>5. CASE Boots!Crash(i)
    BY <1>3, <1>5 DEF Boots!Crash, Boots!Fault
  <1>6. CASE Boots!Step(i)
    BY <1>2, <1>6
    DEF StartupInv, Boots!TypeOK, Boots!Step, Boots!Goto, Boots!Connect, Boots!Lock,
        Boots!Migrate10, Boots!Migrate11,
        Boots!Record11, Boots!Migrate12, Boots!Unlock, Boots!Count, Boots!Hash,
        Boots!CheckUsername, Boots!Insert, Boots!BuildLimiters, Boots!BuildBlacklist, Boots!Bind
  <1>7. CASE Boots!IndexBuild
    <2>1. ASSUME NEW j \in Instance, Boots!Exit(j) PROVE j = i
      BY <2>1 DEF StartupInv, Boots!TypeOK, Boots!Exit, Boots!Goto
    <2>2. CASE Boots!Fill
      BY <2>2 DEF Boots!Fill
    <2>3. CASE Boots!Build
      BY <2>3 DEF Boots!Build, Boots!Goto, StartupInv, Boots!TypeOK
    <2>4. CASE Boots!Deadlock
      <3>1. index = "validating" /\ older # {} /\ older \subseteq Instance
        BY <2>4 DEF Boots!Deadlock, StartupInv, Boots!TypeOK
      <3>2. holder \in Instance => stage[holder] = "building"
        BY <3>1 DEF StartupInv, BuildHasOwner, Building, Boots!StartupConstants
      <3> QED
        BY <2>1, <2>4, <3>1, <3>2 DEF Boots!Deadlock
    <2> QED
      BY <1>7, <2>2, <2>3, <2>4 DEF Boots!IndexBuild
  <1> QED
    BY <1>4, <1>5, <1>6, <1>7 DEF Boots!Next, Boots!Start, Boots!RedisFails, Boots!RedisRecovers

-----------------------------------------------------------------------------
(* The database URL and the TLS paths. *)

Mode(u) == Urls!Effective(u.query)

(* What is settled once the settings are loaded. *)
LoadedSound ==
    /\ Urls!Loads /\ url = Urls!Rewritten
    /\ warned = Urls!database_ssl_warning(url)
    /\ tls = Urls!parse_tls_paths

UrlsInv ==
    /\ setup \in Urls!Environment
    /\ phase \in {"start", "loaded", "connected", "serving", "failed"}
    /\ phase \in {"loaded", "connected", "serving"} => LoadedSound
    /\ phase \in {"start", "loaded", "failed"} => conn = "none"
    /\ conn = "plain" => Mode(url) \in {"disable", "allow", "prefer"}
    /\ phase \in {"connected", "serving"} /\ Mode(url) = "verify-full" => conn = "verified"
    /\ phase = "serving" /\ tls.cert => protocol = "https"

(* The rewritten URL asks for verify-full and nothing else. *)
LEMMA Forced ==
    ASSUME Urls!UrlConstants, NEW u \in Urls!Url
    PROVE  LET v == Urls!force_sslmode_verify_full(u)
           IN  /\ v.host = u.host /\ Mode(v) = "verify-full"
               /\ Urls!Others(v.query) = Urls!Others(u.query)
  <1> DEFINE v == Urls!force_sslmode_verify_full(u)
             rest == DOMAIN u.query \ Urls!SslKeys(u.query)
             last == Len(u.query) + 1
  <1>1. u.query \in Seq([key : STRING, value : STRING])
    BY DEF Urls!Url, Urls!UrlConstants
  <1>2. DOMAIN u.query = 1 .. Len(u.query) /\ Len(u.query) \in Nat
    BY <1>1
  <1>3. last \notin rest /\ last \in Nat
    BY <1>2
  <1>4. /\ v.host = u.host
        /\ v.query = [i \in rest \union {last} |-> IF i = last THEN Urls!VerifyFull ELSE u.query[i]]
    BY DEF Urls!Url, Urls!force_sslmode_verify_full
  <1>5. Urls!SslKeys(v.query) = {last}
    BY <1>3, <1>4 DEF Urls!SslKeys, Urls!IsSslKey, Urls!VerifyFull
  <1>6. Mode(v) = "verify-full"
    <2>1. (CHOOSE i \in {last} : \A j \in {last} : j <= i) = last
      BY <1>3
    <2>2. Urls!Lower(v.query[last].value) = "verify-full"
      BY <1>4 DEF Urls!VerifyFull, Urls!Lower
    <2> QED
      BY <1>5, <2>1, <2>2, Zenon DEF Mode, Urls!Effective, Urls!Modes
  <1>7. Urls!Others(v.query) = Urls!Others(u.query)
    <2>1. DOMAIN v.query \ Urls!SslKeys(v.query) = rest
      BY <1>3, <1>4, <1>5, Zenon
    <2>2. \A i \in rest : v.query[i] = u.query[i]
      BY <1>3, <1>4
    <2> QED
      BY <2>1, <2>2 DEF Urls!Others
  <1> QED
    BY <1>4, <1>6, <1>7

(* The service and sqlx read the same mode. *)
LEMMA SameMode ==
    ASSUME NEW u, Mode(u) # "error"
    PROVE  \/ Mode(u) = "prefer" /\ Urls!extract_sslmode(u) = "none"
           \/ Mode(u) = Urls!extract_sslmode(u)
  BY DEF Mode, Urls!Effective, Urls!extract_sslmode

(* Both TLS paths are set or neither is. *)
LEMMA BothPaths ==
    ASSUME LoadedSound
    PROVE  \/ tls = [cert |-> TRUE, key |-> TRUE] /\ setup.cert = "path" /\ setup.key = "path"
           \/ tls = [cert |-> FALSE, key |-> FALSE] /\ setup.cert # "path" /\ setup.key # "path"
  <1>1. ~((setup.cert = "path") # (setup.key = "path"))
    BY Zenon DEF LoadedSound, Urls!Loads, Urls!TlsIsError
  <1>2. tls = [cert |-> setup.cert = "path", key |-> setup.key = "path"]
    BY DEF LoadedSound, Urls!parse_tls_paths
  <1>3. CASE setup.cert = "path"
    <2>1. setup.key = "path"
      BY <1>1, <1>3, Zenon
    <2> QED
      BY <1>2, <1>3, <2>1, Zenon
  <1>4. CASE setup.cert # "path"
    <2>1. setup.key # "path"
      BY <1>1, <1>4, Zenon
    <2> QED
      BY <1>2, <1>4, <2>1, Zenon
  <1> QED
    BY <1>3, <1>4

(* Nothing is loaded at first. *)
LEMMA UrlsInitInv ==
    Urls!Init => UrlsInv
  BY DEF Urls!Init, UrlsInv

(* The invariant is inductive. *)
LEMMA UrlsNextInv ==
    ASSUME UrlsInv, Urls!Next
    PROVE  UrlsInv'
  <1>1. CASE Urls!from_env
    BY <1>1, Zenon
    DEF Urls!from_env, UrlsInv, LoadedSound, Urls!Loads, Urls!Rewritten, Urls!parse_tls_paths,
        Urls!FlagIsError, Urls!TlsIsError, Urls!parse_required_ssl_flag
  <1>2. CASE Urls!Rejected
    BY <1>2 DEF Urls!Rejected, Urls!Fail, UrlsInv
  <1>3. CASE Urls!Connect
    BY <1>3, Zenon
    DEF Urls!Connect, UrlsInv, LoadedSound, Urls!Loads, Urls!Rewritten, Urls!parse_tls_paths,
        Urls!FlagIsError, Urls!TlsIsError, Urls!parse_required_ssl_flag, Mode
  <1>4. CASE Urls!Serve
    <2>1. UNCHANGED <<setup, url, tls, warned, conn>> /\ LoadedSound
      BY <1>4 DEF Urls!Serve, UrlsInv
    <2>2. LoadedSound'
      BY <2>1, Zenon DEF LoadedSound, Urls!Loads, Urls!Rewritten, Urls!parse_tls_paths,
          Urls!FlagIsError, Urls!TlsIsError, Urls!parse_required_ssl_flag
    <2>3. phase' = "serving" /\ (tls.cert => protocol' = "https")
      <3>1. CASE tls = [cert |-> TRUE, key |-> TRUE]
        <4>1. tls.cert = TRUE /\ tls.key = TRUE
          BY <3>1
        <4> QED
          BY <1>4, <4>1, Zenon DEF Urls!Serve
      <3>2. CASE tls = [cert |-> FALSE, key |-> FALSE]
        <4>1. tls.cert = FALSE /\ tls.key = FALSE
          BY <3>2
        <4> QED
          BY <1>4, <4>1, Zenon DEF Urls!Serve
      <3> QED
        BY <2>1, <3>1, <3>2, BothPaths
    <2> QED
      BY <1>4, <2>1, <2>2, <2>3 DEF Urls!Serve, UrlsInv, Mode
  <1> QED
    BY <1>1, <1>2, <1>3, <1>4 DEF Urls!Next

(* What the settings promise. *)
LEMMA UrlsPlaintext ==
    ASSUME Urls!UrlConstants, UrlsInv
    PROVE  Urls!NoSilentPlaintext
  <1>1. ASSUME setup.flag = "yes", phase \in {"connected", "serving"}
        PROVE  /\ conn = "verified" /\ url.host = setup.url.host
               /\ Urls!Others(url.query) = Urls!Others(setup.url.query)
    <2>1. setup.url \in Urls!Url
      BY Zenon DEF UrlsInv, Urls!Environment
    <2>2. url = Urls!force_sslmode_verify_full(setup.url)
      BY <1>1 DEF UrlsInv, LoadedSound, Urls!Rewritten, Urls!parse_required_ssl_flag
    <2> QED
      BY <1>1, <2>1, <2>2, Forced DEF UrlsInv
  <1>2. ASSUME conn = "plain", Urls!Target(url) = url.host, Urls!Target(url) \notin Loopback
        PROVE  warned /\ Urls!Effective(url.query) # "disable"
    <2>1. LoadedSound /\ Mode(url) \in {"disable", "allow", "prefer"}
      BY <1>2 DEF UrlsInv
    <2>2. warned = Urls!database_ssl_warning(url) /\ Urls!validate_database_ssl(url)
      BY <2>1, Zenon DEF LoadedSound, Urls!Loads
    <2> QED
      BY <1>2, <2>1, <2>2, SameMode, Zenon
      DEF Urls!validate_database_ssl, Urls!database_ssl_warning, Urls!db_host_is_loopback, Mode
  <1>3. ASSUME phase = "serving", "path" \in {setup.cert, setup.key} PROVE protocol = "https"
    BY <1>3, BothPaths DEF UrlsInv
  <1> QED
    BY <1>1, <1>2, <1>3 DEF Urls!NoSilentPlaintext, UrlsInv

-----------------------------------------------------------------------------
(* Whoever serves finds the migrations applied, a usable index, a default   *)
(* user and the backends it was told to use, whichever instances started,   *)
(* failed or were killed at whatever point of theirs.                       *)
THEOREM ServingIsReady == Boots!Spec => []ReadyWhenServing
  <1>1. StartupInv /\ [Boots!Next]_(Boots!vars) => StartupInv'
    BY BootConstants, StartupNextInv
  <1>2. StartupInv => ReadyWhenServing
    BY BootConstants, StartupReady DEF ReadyWhenServing
  <1> QED
    BY <1>1, <1>2, BootConstants, StartupInitInv, PTL DEF Boots!Spec

(* An instance exits for what another does only where 011 builds its index  *)
(* while others wait for the lock, or where both insert the default user;   *)
(* any other exit is a fault of this step, or has a cause in Redis or in    *)
(* the instance's own environment.                                          *)
THEOREM ExitsHaveCauses == Boots!Spec => ExitsForCause
  <1>1. StartupInv /\ [Boots!Next]_(Boots!vars) => StartupInv'
    BY BootConstants, StartupNextInv
  <1>2. StartupInv /\ [Boots!Next]_(Boots!vars) => [Boots!ExitHasCause]_startup
    <2> SUFFICES ASSUME StartupInv, Boots!Next PROVE Boots!ExitHasCause
      BY DEF Boots!vars, startup
    <2> QED
      BY BootConstants, StartupExits
  <1> QED
    BY <1>1, <1>2, BootConstants, StartupInitInv, PTL DEF Boots!Spec, ExitsForCause

(* Nothing goes over the network in plain text without the operator's       *)
(* knowing, for every list of query parameters and every order of them: not *)
(* with DB_REQUIRE_SSL at all, and without it not to the host that the URL  *)
(* names before its query.                                                  *)
THEOREM PlaintextIsKnown == Urls!Spec => []NoSilentPlaintext
  <1>1. UrlsInv /\ [Urls!Next \/ Urls!Done]_(Urls!vars) => UrlsInv'
    <2>1. CASE UNCHANGED Urls!vars
      BY <2>1, Zenon
      DEF Urls!vars, UrlsInv, LoadedSound, Urls!Loads, Urls!Rewritten, Urls!parse_tls_paths,
          Urls!FlagIsError, Urls!TlsIsError, Urls!parse_required_ssl_flag
    <2> QED
      BY <2>1, UrlsNextInv DEF Urls!Done
  <1>2. UrlsInv => NoSilentPlaintext
    BY BootConstants, UrlsPlaintext DEF NoSilentPlaintext
  <1> QED
    BY <1>1, <1>2, UrlsInitInv, PTL DEF Urls!Spec
=============================================================================
