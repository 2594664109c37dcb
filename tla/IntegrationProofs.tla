------------------------- MODULE IntegrationProofs -------------------------
(***************************************************************************)
(* Proofs about Integration for any number of installs: a failed install   *)
(* that nobody disturbed restores what it found, and the editor is sent to *)
(* a missing shim only in the windows that the code leaves open, also when *)
(* the lock lets several installs work at once.                            *)
(***************************************************************************)
EXTENDS Integration, TLAPS

Before == {"read", "inspect", "clear", "created", "locked", "staged", "checked"}
Holding ==
  {"created", "locked", "staged", "checked", "away", "in", "written", "undo", "remove", "restore"}

(***************************************************************************)
(* An install past ReadSettings knows the settings, and one past Stage     *)
(* has a descriptor.                                                       *)
(***************************************************************************)
Prepared ==
  \A i \in Installs :
    /\ pc[i] # "start" => original[i] \in Settings
    /\ pc[i] \in {"staged", "checked", "away", "in"} => staged[i] \in Descriptors

(***************************************************************************)
(* What an install that nobody has disturbed still finds, at every step.   *)
(***************************************************************************)
Kept(i) ==
  /\ pc[i] \in Before \cup {"start", "away", "in"} => i \notin wrote
  /\ pc[i] = "written" => i \in wrote
  /\ pc[i] \in Before \cup {"start"} => i \notin botched
  /\ Active(i) /\ i \notin touched \cup botched =>
       /\ i \notin wrote => settings = original[i]
       /\ i \in wrote /\ pc[i] \in {"written", "undo"} => settings.ssh = "shim"
       /\ pc[i] \in {"remove", "restore"} => settings = original[i]
       /\ pc[i] \in Before => profile = found[i]
       /\ pc[i] \in {"away", "in", "written", "undo", "remove", "restore"} => backup[i] = found[i]
       /\ pc[i] = "restore" => profile = None

AllKept == \A i \in Installs : Kept(i)

(***************************************************************************)
(* Of the installs under way, all are in the crowd or none is; without it  *)
(* the lock file is that of the one install that works on the profile, and *)
(* its new profile is in place.                                            *)
(***************************************************************************)
Together ==
  /\ \A i, j \in Installs : Active(i) /\ Active(j) /\ i \in crowd => j \in crowd
  /\ \A i \in Installs : pc[i] = "start" => i \notin crowd

Exclusive ==
  \A i \in Installs : Live(i) /\ pc[i] \in Holding /\ i \notin crowd => CreatedBy(i)

InPlace ==
  \A i \in Installs :
    Live(i) /\ pc[i] \in {"in", "written"} /\ i \notin crowd => profile # None

(***************************************************************************)
(* Whenever the shim is missing somebody is to blame for it, or has the    *)
(* profile and will put it back, or will be to blame.  This holds as soon  *)
(* as an install is about to write the settings.                           *)
(***************************************************************************)
Writing(i) == Live(i) /\ pc[i] \in {"in", "written"}
Answerable(i) == Live(i) /\ Away(i) /\ (i \in touched \cup botched \/ backup[i] # None)
Excused == blamed # {} \/ \E i \in Installs : Answerable(i)

Dangling ==
  profile = None /\ (settings.ssh = "shim" \/ \E i \in Installs : Writing(i)) => Excused

(***************************************************************************)
(* Who found it so, undisturbed, is not the one to answer for it.          *)
(***************************************************************************)
Blameless ==
  \A i \in Installs :
    /\ Active(i) /\ i \notin touched \cup botched /\ found[i] = None
    /\ original[i].ssh = "shim" \/ \E j \in Installs \ {i} : Writing(j)
    => Excused

Base == TypeOK /\ Prepared
Alone == Together /\ Exclusive /\ InPlace
IInv == Base /\ AllKept /\ Alone /\ Dangling /\ Blameless

-----------------------------------------------------------------------------
LEMMA InitInv == Init => IInv
<1> USE IntegrationAssumption
<1> SUFFICES ASSUME Init PROVE IInv OBVIOUS
<1>1. TypeOK BY DEF Init, TypeOK, Places, Settings, Values, Locks, Descriptors, Clients
<1>2. Prepared /\ AllKept /\ Alone
  BY DEF Init, Prepared, AllKept, Kept, Alone, Together, Exclusive, InPlace, Active, Over, Holding
<1>3. Dangling /\ Blameless BY DEF Init, Dangling, Blameless, Writing, Active, Over
<1> QED BY <1>1, <1>2, <1>3 DEF IInv, Base

LEMMA DescriptorType ==
  ASSUME TypeOK, NEW i \in Installs, original[i] \in Settings
  PROVE  Descriptor(i) \in Descriptors
<1>1. \A v \in Values : FindOpenSSH(v) \in Clients
  BY DEF FindOpenSSH, Unwrap, Clients, Values
<1>2. OldDescriptor.ssh \in Values \cup {"path"} /\ OldDescriptor.previous \in Values
  BY DEF OldDescriptor, TypeOK, Descriptors, Clients, Values
<1>3. FindOpenSSH("path") \in Clients BY DEF FindOpenSSH, Unwrap, Clients
<1>4. original[i].ssh \in Values BY DEF Settings
<1> QED BY <1>1, <1>2, <1>3, <1>4 DEF Descriptor, Descriptors

LEMMA PatchedType ==
  ASSUME NEW i \in Installs, original[i] \in Settings
  PROVE  Patched(i) \in Settings /\ Patched(i).ssh = "shim"
BY DEF Patched, Settings, Values

LEMMA BaseStep ==
  ASSUME Base, [Next]_vars
  PROVE  Base'
<1> USE IntegrationAssumption DEF Base, TypeOK, Prepared, Live, Go, Active, locking, files, known, past
<1>1. ASSUME NEW i \in Installs, ReadSettings(i) PROVE Base'
  BY <1>1 DEF ReadSettings, Places
<1>2. ASSUME NEW i \in Installs, CreateLock(i) PROVE Base'
  BY <1>2 DEF CreateLock, Locks, CreatedBy, Places
<1>3. ASSUME NEW i \in Installs, WritePid(i) PROVE Base'
  BY <1>3 DEF WritePid, Locks, CreatedBy, Places
<1>4. ASSUME NEW i \in Installs, InspectLock(i) PROVE Base'
  BY <1>4 DEF InspectLock, Places
<1>5. ASSUME NEW i \in Installs, RemoveLock(i) PROVE Base'
  BY <1>5 DEF RemoveLock, Places
<1>6. ASSUME NEW i \in Installs, Stage(i) PROVE Base'
  BY <1>6, DescriptorType DEF Stage, Returns, Places
<1>7. ASSUME NEW i \in Installs, Check(i) PROVE Base'
  BY <1>7 DEF Check, Returns, Places
<1>8. ASSUME NEW i \in Installs, MoveAway(i) PROVE Base'
  BY <1>8 DEF MoveAway, Returns, Disturb, Places
<1>9. ASSUME NEW i \in Installs, MoveIn(i) PROVE Base'
  BY <1>9 DEF MoveIn, Disturb, Places
<1>10. ASSUME NEW i \in Installs, WriteSettings(i) PROVE Base'
  <2>1. original[i] \in Settings BY <1>10 DEF WriteSettings
  <2> QED BY <1>10, <2>1, PatchedType DEF WriteSettings, Disturb, Places
<1>11. ASSUME NEW i \in Installs, Verify(i) PROVE Base'
  BY <1>11 DEF Verify, Returns, Places
<1>12. ASSUME NEW i \in Installs, UndoSettings(i) PROVE Base'
  BY <1>12 DEF UndoSettings, Restored, Disturb, Places
<1>13. ASSUME NEW i \in Installs, RemoveProfile(i) PROVE Base'
  BY <1>13 DEF RemoveProfile, Disturb, Places
<1>14. ASSUME NEW i \in Installs, RestoreProfile(i) PROVE Base'
  BY <1>14 DEF RestoreProfile, MovedBack, Returns, Disturb, Places
<1>15. ASSUME NEW i \in Installs, Kill(i) PROVE Base'
  BY <1>15 DEF Kill, Places
<1>16. CASE Edit
  BY <1>16 DEF Edit, Settings, Values
<1>17. CASE UNCHANGED vars
  BY <1>17 DEF vars
<1> QED
  BY <1>1, <1>2, <1>3, <1>4, <1>5, <1>6, <1>7, <1>8, <1>9,
     <1>10, <1>11, <1>12, <1>13, <1>14, <1>15, <1>16, <1>17 DEF Next

LEMMA KeptStep ==
  ASSUME Base, AllKept, [Next]_vars
  PROVE  AllKept'
<1> SUFFICES ASSUME NEW k \in Installs PROVE Kept(k)' BY DEF AllKept
<1>0. Kept(k) BY DEF AllKept
<1> USE <1>0 DEF Base, TypeOK, Kept, Active, Over, Before, Live, Go, locking, files, known, past
<1>1. ASSUME NEW i \in Installs, ReadSettings(i) PROVE Kept(k)'
  BY <1>1 DEF ReadSettings
<1>2. ASSUME NEW i \in Installs, CreateLock(i) PROVE Kept(k)'
  BY <1>2 DEF CreateLock
<1>3. ASSUME NEW i \in Installs, WritePid(i) PROVE Kept(k)'
  BY <1>3 DEF WritePid
<1>4. ASSUME NEW i \in Installs, InspectLock(i) PROVE Kept(k)'
  BY <1>4 DEF InspectLock
<1>5. ASSUME NEW i \in Installs, RemoveLock(i) PROVE Kept(k)'
  BY <1>5 DEF RemoveLock
<1>6. ASSUME NEW i \in Installs, Stage(i) PROVE Kept(k)'
  BY <1>6 DEF Stage, Returns
<1>7. ASSUME NEW i \in Installs, Check(i) PROVE Kept(k)'
  BY <1>7 DEF Check, Returns
<1>8. ASSUME NEW i \in Installs, MoveAway(i) PROVE Kept(k)'
  BY <1>8 DEF MoveAway, Returns, Disturb
<1>9. ASSUME NEW i \in Installs, MoveIn(i) PROVE Kept(k)'
  BY <1>9 DEF MoveIn, Disturb
<1>10. ASSUME NEW i \in Installs, WriteSettings(i) PROVE Kept(k)'
  <2>1. original[i] \in Settings BY <1>10 DEF WriteSettings, Prepared
  <2> QED BY <1>10, <2>1, PatchedType DEF WriteSettings, Disturb
<1>11. ASSUME NEW i \in Installs, Verify(i) PROVE Kept(k)'
  BY <1>11 DEF Verify, Returns
<1>12. ASSUME NEW i \in Installs, UndoSettings(i) PROVE Kept(k)'
  BY <1>12 DEF UndoSettings, Restored, Disturb
<1>13. ASSUME NEW i \in Installs, RemoveProfile(i) PROVE Kept(k)'
  BY <1>13 DEF RemoveProfile, Disturb
<1>14. ASSUME NEW i \in Installs, RestoreProfile(i) PROVE Kept(k)'
  BY <1>14 DEF RestoreProfile, MovedBack, Returns, Disturb
<1>15. ASSUME NEW i \in Installs, Kill(i) PROVE Kept(k)'
  BY <1>15 DEF Kill, Away
<1>16. CASE Edit
  BY <1>16 DEF Edit
<1>17. CASE UNCHANGED vars
  BY <1>17 DEF vars
<1> QED
  BY <1>1, <1>2, <1>3, <1>4, <1>5, <1>6, <1>7, <1>8, <1>9,
     <1>10, <1>11, <1>12, <1>13, <1>14, <1>15, <1>16, <1>17 DEF Next

(***************************************************************************)
(* Without a crowd, whoever created the lock file works alone until it     *)
(* returns.                                                                *)
(***************************************************************************)
LEMMA OneHolder ==
  ASSUME Together, Exclusive, NEW i \in Installs, NEW j \in Installs, i \notin crowd,
         Active(i), Active(j), pc[i] \in Holding, pc[j] \in Holding
  PROVE  i = j
BY DEF Together, Exclusive, Active, Live, CreatedBy

LEMMA TogetherStep ==
  ASSUME Base, Together, [Next]_vars
  PROVE  Together'
<1> USE DEF Base, TypeOK, Together, Active, Over, Live, Go, locking, files, known, past
<1>1. ASSUME NEW i \in Installs, ReadSettings(i) PROVE Together'
  BY <1>1 DEF ReadSettings
<1>2. ASSUME NEW i \in Installs, CreateLock(i) PROVE Together'
  BY <1>2 DEF CreateLock
<1>3. ASSUME NEW i \in Installs, WritePid(i) PROVE Together'
  BY <1>3 DEF WritePid
<1>4. ASSUME NEW i \in Installs, InspectLock(i) PROVE Together'
  BY <1>4 DEF InspectLock
<1>5. ASSUME NEW i \in Installs, RemoveLock(i) PROVE Together'
  BY <1>5 DEF RemoveLock
<1>6. ASSUME NEW i \in Installs, Stage(i) PROVE Together'
  BY <1>6 DEF Stage, Returns
<1>7. ASSUME NEW i \in Installs, Check(i) PROVE Together'
  BY <1>7 DEF Check, Returns
<1>8. ASSUME NEW i \in Installs, MoveAway(i) PROVE Together'
  BY <1>8 DEF MoveAway, Returns, Disturb
<1>9. ASSUME NEW i \in Installs, MoveIn(i) PROVE Together'
  BY <1>9 DEF MoveIn, Disturb
<1>10. ASSUME NEW i \in Installs, WriteSettings(i) PROVE Together'
  BY <1>10 DEF WriteSettings, Disturb
<1>11. ASSUME NEW i \in Installs, Verify(i) PROVE Together'
  BY <1>11 DEF Verify, Returns
<1>12. ASSUME NEW i \in Installs, UndoSettings(i) PROVE Together'
  BY <1>12 DEF UndoSettings, Restored, Disturb
<1>13. ASSUME NEW i \in Installs, RemoveProfile(i) PROVE Together'
  BY <1>13 DEF RemoveProfile, Disturb
<1>14. ASSUME NEW i \in Installs, RestoreProfile(i) PROVE Together'
  BY <1>14 DEF RestoreProfile, MovedBack, Returns, Disturb
<1>15. ASSUME NEW i \in Installs, Kill(i) PROVE Together'
  BY <1>15 DEF Kill, Away
<1>16. CASE Edit
  BY <1>16 DEF Edit
<1>17. CASE UNCHANGED vars
  BY <1>17 DEF vars
<1> QED
  BY <1>1, <1>2, <1>3, <1>4, <1>5, <1>6, <1>7, <1>8, <1>9,
     <1>10, <1>11, <1>12, <1>13, <1>14, <1>15, <1>16, <1>17 DEF Next

LEMMA ExclusiveStep ==
  ASSUME Base, Together, Exclusive, [Next]_vars
  PROVE  Exclusive'
<1> SUFFICES ASSUME NEW k \in Installs, (Live(k) /\ pc[k] \in Holding /\ k \notin crowd)'
             PROVE  CreatedBy(k)'
  BY DEF Exclusive
<1>0. Live(k) /\ pc[k] \in Holding /\ k \notin crowd => CreatedBy(k) BY DEF Exclusive
<1>a. \A i \in Installs : Active(i) /\ Active(k) /\ i \in crowd => k \in crowd BY DEF Together
<1>b. \A i \in Installs :
        Active(i) /\ Active(k) /\ i \notin crowd /\ pc[i] \in Holding /\ pc[k] \in Holding => i = k
  BY OneHolder
<1> USE <1>0, <1>a, <1>b, IntegrationAssumption
    DEF Base, TypeOK, Holding, CreatedBy, Active, Over, Live, Go, locking, files, known, past
<1>1. ASSUME NEW i \in Installs, ReadSettings(i) PROVE CreatedBy(k)'
  BY <1>1 DEF ReadSettings
<1>2. ASSUME NEW i \in Installs, CreateLock(i) PROVE CreatedBy(k)'
  <2>1. CASE lock = None /\ pc'[i] = "created"
    <3>1. lock' = [by |-> i, pid |-> None] BY <1>2, <2>1 DEF CreateLock
    <3>2. lock'.by = i /\ lock' \in Locks BY <3>1 DEF Locks
    <3>3. i = k BY <1>2, <2>1 DEF CreateLock
    <3> QED BY <3>2, <3>3
  <2>2. CASE ~(lock = None /\ pc'[i] = "created")
    BY <1>2, <2>2 DEF CreateLock
  <2> QED BY <2>1, <2>2
<1>3. ASSUME NEW i \in Installs, WritePid(i) PROVE CreatedBy(k)'
  <2>1. CASE lock = None \/ lock.by # i
    BY <1>3, <2>1 DEF WritePid
  <2>2. CASE lock # None /\ lock.by = i
    <3>1. [lock EXCEPT !.pid = i] \in Locks /\ [lock EXCEPT !.pid = i].by = i
      BY <2>2 DEF Locks
    <3>2. i = k BY <1>3, <2>2 DEF WritePid
    <3>3. lock' = [lock EXCEPT !.pid = i] BY <1>3, <2>2, <3>2 DEF WritePid
    <3> QED BY <3>1, <3>2, <3>3
  <2> QED BY <2>1, <2>2
<1>4. ASSUME NEW i \in Installs, InspectLock(i) PROVE CreatedBy(k)'
  BY <1>4 DEF InspectLock
<1>5. ASSUME NEW i \in Installs, RemoveLock(i) PROVE CreatedBy(k)'
  BY <1>5 DEF RemoveLock
<1>6. ASSUME NEW i \in Installs, Stage(i) PROVE CreatedBy(k)'
  BY <1>6 DEF Stage, Returns
<1>7. ASSUME NEW i \in Installs, Check(i) PROVE CreatedBy(k)'
  BY <1>7 DEF Check, Returns
<1>8. ASSUME NEW i \in Installs, MoveAway(i) PROVE CreatedBy(k)'
  BY <1>8 DEF MoveAway, Returns, Disturb
<1>9. ASSUME NEW i \in Installs, MoveIn(i) PROVE CreatedBy(k)'
  BY <1>9 DEF MoveIn, Disturb
<1>10. ASSUME NEW i \in Installs, WriteSettings(i) PROVE CreatedBy(k)'
  BY <1>10 DEF WriteSettings, Disturb
<1>11. ASSUME NEW i \in Installs, Verify(i) PROVE CreatedBy(k)'
  BY <1>11 DEF Verify, Returns
<1>12. ASSUME NEW i \in Installs, UndoSettings(i) PROVE CreatedBy(k)'
  BY <1>12 DEF UndoSettings, Restored, Disturb
<1>13. ASSUME NEW i \in Installs, RemoveProfile(i) PROVE CreatedBy(k)'
  BY <1>13 DEF RemoveProfile, Disturb
<1>14. ASSUME NEW i \in Installs, RestoreProfile(i) PROVE CreatedBy(k)'
  BY <1>14 DEF RestoreProfile, MovedBack, Returns, Disturb
<1>15. ASSUME NEW i \in Installs, Kill(i) PROVE CreatedBy(k)'
  BY <1>15 DEF Kill
<1>16. CASE Edit
  BY <1>16 DEF Edit
<1>17. CASE UNCHANGED vars
  BY <1>17 DEF vars
<1> QED
  BY <1>1, <1>2, <1>3, <1>4, <1>5, <1>6, <1>7, <1>8, <1>9,
     <1>10, <1>11, <1>12, <1>13, <1>14, <1>15, <1>16, <1>17 DEF Next

LEMMA InPlaceStep ==
  ASSUME Base, Together, Exclusive, InPlace, [Next]_vars
  PROVE  InPlace'
<1> SUFFICES ASSUME NEW k \in Installs,
                    (Live(k) /\ pc[k] \in {"in", "written"} /\ k \notin crowd)'
             PROVE  profile' # None
  BY DEF InPlace
<1>0. Live(k) /\ pc[k] \in {"in", "written"} /\ k \notin crowd => profile # None BY DEF InPlace
<1>a. \A i \in Installs : Active(i) /\ Active(k) /\ i \in crowd => k \in crowd BY DEF Together
<1>b. \A i \in Installs :
        Active(i) /\ Active(k) /\ i \notin crowd /\ pc[i] \in Holding /\ pc[k] \in Holding => i = k
  BY OneHolder
<1> USE <1>0, <1>a, <1>b, IntegrationAssumption
    DEF Base, TypeOK, Prepared, Holding, Active, Over, Live, Go, locking, files, known, past
<1>1. ASSUME NEW i \in Installs, ReadSettings(i) PROVE profile' # None
  BY <1>1 DEF ReadSettings
<1>2. ASSUME NEW i \in Installs, CreateLock(i) PROVE profile' # None
  BY <1>2 DEF CreateLock
<1>3. ASSUME NEW i \in Installs, WritePid(i) PROVE profile' # None
  BY <1>3 DEF WritePid
<1>4. ASSUME NEW i \in Installs, InspectLock(i) PROVE profile' # None
  BY <1>4 DEF InspectLock
<1>5. ASSUME NEW i \in Installs, RemoveLock(i) PROVE profile' # None
  BY <1>5 DEF RemoveLock
<1>6. ASSUME NEW i \in Installs, Stage(i) PROVE profile' # None
  BY <1>6 DEF Stage, Returns
<1>7. ASSUME NEW i \in Installs, Check(i) PROVE profile' # None
  BY <1>7 DEF Check, Returns
<1>8. ASSUME NEW i \in Installs, MoveAway(i) PROVE profile' # None
  BY <1>8 DEF MoveAway, Returns, Disturb
<1>9. ASSUME NEW i \in Installs, MoveIn(i) PROVE profile' # None
  BY <1>9 DEF MoveIn, Disturb
<1>10. ASSUME NEW i \in Installs, WriteSettings(i) PROVE profile' # None
  BY <1>10 DEF WriteSettings, Disturb
<1>11. ASSUME NEW i \in Installs, Verify(i) PROVE profile' # None
  BY <1>11 DEF Verify, Returns
<1>12. ASSUME NEW i \in Installs, UndoSettings(i) PROVE profile' # None
  BY <1>12 DEF UndoSettings, Restored, Disturb
<1>13. ASSUME NEW i \in Installs, RemoveProfile(i) PROVE profile' # None
  BY <1>13 DEF RemoveProfile, Disturb
<1>14. ASSUME NEW i \in Installs, RestoreProfile(i) PROVE profile' # None
  BY <1>14 DEF RestoreProfile, MovedBack, Returns, Disturb
<1>15. ASSUME NEW i \in Installs, Kill(i) PROVE profile' # None
  BY <1>15 DEF Kill
<1>16. CASE Edit
  BY <1>16 DEF Edit
<1>17. CASE UNCHANGED vars
  BY <1>17 DEF vars
<1> QED
  BY <1>1, <1>2, <1>3, <1>4, <1>5, <1>6, <1>7, <1>8, <1>9,
     <1>10, <1>11, <1>12, <1>13, <1>14, <1>15, <1>16, <1>17 DEF Next

(***************************************************************************)
(* An install that ends the exceptions has its profile in place, and none  *)
(* that is under way found it missing, undisturbed.                        *)
(***************************************************************************)
LEMMA Cleared ==
  ASSUME Base, AllKept, Alone, NEW i \in Installs, Live(i), pc[i] = "written", i \notin crowd
  PROVE  /\ profile # None
         /\ \A k \in Installs \ {i} : Active(k) /\ k \notin touched \cup botched => found[k] # None
<1>1. profile # None BY DEF Alone, InPlace
<1>2. ASSUME NEW k \in Installs \ {i}, Active(k), k \notin touched \cup botched
      PROVE  found[k] # None
  <2>1. pc[k] \in Holding \/ pc[k] \in Before
    BY <1>2 DEF Base, TypeOK, Places, Active, Over, Holding, Before
  <2>2. pc[k] \notin Holding
    BY <1>2, OneHolder DEF Alone, Active, Over, Live, Holding
  <2> QED BY <1>1, <1>2, <2>1, <2>2 DEF AllKept, Kept
<1> QED BY <1>1, <1>2

(***************************************************************************)
(* Whoever has to answer for a missing shim puts a profile in its place,   *)
(* which disturbs all others, or is to blame.                              *)
(***************************************************************************)
LEMMA ExcusedStep ==
  ASSUME Base, AllKept, Excused, Next, blamed' # {} \/ blamed = {}
  PROVE  \/ Excused'
         \/ /\ profile' # None
            /\ \A k \in Installs : Active(k)' => k \in touched' \cup botched' \/ found'[k] # None
<1> DEFINE G == \/ Excused'
                \/ /\ profile' # None
                   /\ \A k \in Installs :
                        Active(k)' => k \in touched' \cup botched' \/ found'[k] # None
<1> SUFFICES G OBVIOUS
<1>0. CASE blamed # {} BY <1>0 DEF Excused
<1>z. CASE blamed = {}
 <2> PICK a \in Installs : Answerable(a) BY <1>z DEF Excused
 <2>0. Kept(a) BY DEF AllKept
 <2> USE <2>0, <1>z, IntegrationAssumption
     DEF Base, TypeOK, Prepared, Kept, Excused, Answerable, Away, Active, Over, Live, Go,
         locking, files, known, past
 <2>1. ASSUME NEW i \in Installs, ReadSettings(i) PROVE G
   BY <2>1 DEF ReadSettings
 <2>2. ASSUME NEW i \in Installs, CreateLock(i) PROVE G
   BY <2>2 DEF CreateLock
 <2>3. ASSUME NEW i \in Installs, WritePid(i) PROVE G
   BY <2>3 DEF WritePid
 <2>4. ASSUME NEW i \in Installs, InspectLock(i) PROVE G
   BY <2>4 DEF InspectLock
 <2>5. ASSUME NEW i \in Installs, RemoveLock(i) PROVE G
   BY <2>5 DEF RemoveLock
 <2>6. ASSUME NEW i \in Installs, Stage(i) PROVE G
   BY <2>6 DEF Stage, Returns
 <2>7. ASSUME NEW i \in Installs, Check(i) PROVE G
   BY <2>7 DEF Check, Returns
 <2>8. ASSUME NEW i \in Installs, MoveAway(i) PROVE G
   BY <2>8 DEF MoveAway, Returns, Disturb
 <2>9. ASSUME NEW i \in Installs, MoveIn(i) PROVE G
   BY <2>9 DEF MoveIn, Disturb
 <2>10. ASSUME NEW i \in Installs, WriteSettings(i) PROVE G
   BY <2>10 DEF WriteSettings, Disturb
 <2>11. ASSUME NEW i \in Installs, Verify(i) PROVE G
   BY <2>11 DEF Verify, Returns
 <2>12. ASSUME NEW i \in Installs, UndoSettings(i) PROVE G
   BY <2>12 DEF UndoSettings, Restored, Disturb
 <2>13. ASSUME NEW i \in Installs, RemoveProfile(i) PROVE G
   BY <2>13 DEF RemoveProfile, Disturb
 <2>14. ASSUME NEW i \in Installs, RestoreProfile(i) PROVE G
   BY <2>14 DEF RestoreProfile, MovedBack, Returns, Disturb
 <2>15. ASSUME NEW i \in Installs, Kill(i) PROVE G
   BY <2>15 DEF Kill
 <2>16. CASE Edit
   BY <2>16 DEF Edit
 <2> QED
   BY <2>1, <2>2, <2>3, <2>4, <2>5, <2>6, <2>7, <2>8, <2>9,
      <2>10, <2>11, <2>12, <2>13, <2>14, <2>15, <2>16 DEF Next
<1> QED BY <1>0, <1>z

LEMMA DanglingStep ==
  ASSUME IInv, [Next]_vars, profile' = None,
         settings'.ssh = "shim" \/ \E i \in Installs : Writing(i)'
  PROVE  Excused'
<1>x. ASSUME Excused, Next, blamed' = blamed \/ blamed' # {} PROVE Excused'
  <2>1. blamed' # {} \/ blamed = {} BY <1>x
  <2> QED BY <1>x, <2>1, ExcusedStep DEF IInv
<1>c. ASSUME profile = None, settings.ssh = "shim" \/ \E i \in Installs : Writing(i),
             Next, blamed' = blamed \/ blamed' # {}
      PROVE  Excused'
  BY <1>c, <1>x DEF IInv, Dangling
<1> USE IntegrationAssumption DEF IInv, Base, TypeOK, Live, Go, locking, files, known, past
<1>1. ASSUME NEW i \in Installs, ReadSettings(i) PROVE Excused'
  BY <1>1, <1>c DEF ReadSettings, Writing, Next
<1>2. ASSUME NEW i \in Installs, CreateLock(i) PROVE Excused'
  BY <1>2, <1>c DEF CreateLock, Writing, Next
<1>3. ASSUME NEW i \in Installs, WritePid(i) PROVE Excused'
  BY <1>3, <1>c DEF WritePid, Writing, Next
<1>4. ASSUME NEW i \in Installs, InspectLock(i) PROVE Excused'
  BY <1>4, <1>c DEF InspectLock, Writing, Next
<1>5. ASSUME NEW i \in Installs, RemoveLock(i) PROVE Excused'
  BY <1>5, <1>c DEF RemoveLock, Writing, Next
<1>6. ASSUME NEW i \in Installs, Stage(i) PROVE Excused'
  BY <1>6, <1>c DEF Stage, Returns, Writing, Next
<1>7. ASSUME NEW i \in Installs, Check(i) PROVE Excused'
  BY <1>7, <1>c DEF Check, Returns, Writing, Next
<1>8. ASSUME NEW i \in Installs, MoveAway(i) PROVE Excused'
  <2>1. CASE profile = None
    BY <1>8, <2>1, <1>c DEF MoveAway, Returns, Writing, Next
  <2>2. CASE profile # None
    BY <1>8, <2>2 DEF MoveAway, Returns, Disturb, Excused, Answerable, Away
  <2> QED BY <2>1, <2>2
<1>9. ASSUME NEW i \in Installs, MoveIn(i) PROVE Excused'
  BY <1>9, <1>c DEF MoveIn, Prepared, Writing, Next
<1>10. ASSUME NEW i \in Installs, WriteSettings(i) PROVE Excused'
  BY <1>10, <1>c DEF WriteSettings, Writing, Next
<1>11. ASSUME NEW i \in Installs, Verify(i) PROVE Excused'
  <2>1. CASE pc'[i] = "ok" /\ i \notin crowd
    BY <1>11, <2>1, Cleared DEF IInv, Verify
  <2>2. CASE ~(pc'[i] = "ok" /\ i \notin crowd)
    <3>1. blamed' = blamed BY <1>11, <2>2 DEF Verify, Returns
    <3> QED BY <1>11, <3>1, <1>c DEF Verify, Returns, Writing, Next
  <2> QED BY <2>1, <2>2
<1>12. ASSUME NEW i \in Installs, UndoSettings(i) PROVE Excused'
  <2>1. CASE i \in touched' \cup botched'
    BY <1>12, <2>1 DEF UndoSettings, Excused, Answerable, Away
  <2>2. CASE i \notin touched' \cup botched'
    <3>1. i \notin touched \cup botched /\ Active(i)
      BY <1>12, <2>2 DEF UndoSettings, Disturb, Active, Over
    <3>2. settings'.ssh = "shim" => settings.ssh = "shim"
      BY <1>12, <3>1, <2>2 DEF UndoSettings, Restored, AllKept, Kept
    <3> QED BY <1>12, <3>2, <1>c DEF UndoSettings, Writing, Next
  <2> QED BY <2>1, <2>2
<1>13. ASSUME NEW i \in Installs, RemoveProfile(i) PROVE Excused'
  <2>1. CASE i \in touched' \cup botched' \/ backup[i] # None
    BY <1>13, <2>1 DEF RemoveProfile, Excused, Answerable, Away
  <2>2. CASE ~(i \in touched' \cup botched' \/ backup[i] # None)
    <3>1. i \notin touched \cup botched /\ Active(i)
      BY <1>13, <2>2 DEF RemoveProfile, Disturb, Active, Over
    <3>2. found[i] = None /\ settings = original[i]
      BY <1>13, <3>1, <2>2 DEF RemoveProfile, AllKept, Kept
    <3>3. original[i].ssh = "shim" \/ \E j \in Installs \ {i} : Writing(j)
      BY <1>13, <3>2 DEF RemoveProfile, Writing, Next
    <3>4. Excused BY <3>1, <3>2, <3>3 DEF IInv, Blameless
    <3> QED BY <1>13, <3>4, <1>x DEF RemoveProfile, Next
  <2> QED BY <2>1, <2>2
<1>14. ASSUME NEW i \in Installs, RestoreProfile(i) PROVE Excused'
  <2>1. CASE i \in touched \cup botched'
    BY <1>14, <2>1 DEF RestoreProfile, Excused
  <2>2. CASE i \notin touched \cup botched'
    <3>1. i \notin touched \cup botched /\ Active(i)
      BY <1>14, <2>2 DEF RestoreProfile, Active, Over
    <3>2. profile = None BY <1>14, <3>1 DEF RestoreProfile, AllKept, Kept
    <3>3. settings' = settings /\ blamed' = blamed
      BY <1>14, <2>2 DEF RestoreProfile
    <3> QED BY <1>14, <3>2, <3>3, <1>c DEF RestoreProfile, Returns, Writing, Next
  <2> QED BY <2>1, <2>2
<1>15. ASSUME NEW i \in Installs, Kill(i) PROVE Excused'
  BY <1>15, <1>c DEF Kill, Writing, Excused, Next
<1>16. CASE Edit
  <2>1. settings'.ssh = "shim" => settings.ssh = "shim" BY <1>16 DEF Edit
  <2> QED BY <1>16, <2>1, <1>c DEF Edit, Writing, Next
<1>17. CASE UNCHANGED vars
  BY <1>17 DEF vars, Dangling, Writing, Excused, Answerable, Away
<1> QED
  BY <1>1, <1>2, <1>3, <1>4, <1>5, <1>6, <1>7, <1>8, <1>9,
     <1>10, <1>11, <1>12, <1>13, <1>14, <1>15, <1>16, <1>17 DEF Next

LEMMA BlamelessStep ==
  ASSUME IInv, [Next]_vars
  PROVE  Blameless'
<1> SUFFICES ASSUME NEW k \in Installs,
                    (/\ Active(k) /\ k \notin touched \cup botched /\ found[k] = None
                     /\ original[k].ssh = "shim" \/ \E j \in Installs \ {k} : Writing(j))'
             PROVE  Excused'
  BY DEF Blameless
<1>x. ASSUME Excused, Next, blamed' = blamed \/ blamed' # {} PROVE Excused'
  <2>1. blamed' # {} \/ blamed = {} BY <1>x
  <2> QED BY <1>x, <2>1, ExcusedStep DEF IInv
<1>c. ASSUME Active(k), k \notin touched \cup botched, found[k] = None,
             original[k].ssh = "shim" \/ \E j \in Installs \ {k} : Writing(j),
             Next, blamed' = blamed \/ blamed' # {}
      PROVE  Excused'
  BY <1>c, <1>x DEF IInv, Blameless
<1> USE IntegrationAssumption DEF IInv, Base, TypeOK, Live, Go, Active, Over, locking, files, known, past
<1>1. ASSUME NEW i \in Installs, ReadSettings(i) PROVE Excused'
  <2>1. CASE i = k
    <3>1. profile = None BY <1>1, <2>1 DEF ReadSettings
    <3>2. settings.ssh = "shim" \/ \E j \in Installs : Writing(j)
      BY <1>1, <2>1 DEF ReadSettings, Writing
    <3>3. Excused BY <3>1, <3>2 DEF Dangling
    <3> QED BY <1>1, <3>3, <1>x DEF ReadSettings, Next
  <2>2. CASE i # k
    BY <1>1, <2>2, <1>c DEF ReadSettings, Writing, Next
  <2> QED BY <2>1, <2>2
<1>2. ASSUME NEW i \in Installs, CreateLock(i) PROVE Excused'
  BY <1>2, <1>c DEF CreateLock, Writing, Next
<1>3. ASSUME NEW i \in Installs, WritePid(i) PROVE Excused'
  BY <1>3, <1>c DEF WritePid, Writing, Next
<1>4. ASSUME NEW i \in Installs, InspectLock(i) PROVE Excused'
  BY <1>4, <1>c DEF InspectLock, Writing, Next
<1>5. ASSUME NEW i \in Installs, RemoveLock(i) PROVE Excused'
  BY <1>5, <1>c DEF RemoveLock, Writing, Next
<1>6. ASSUME NEW i \in Installs, Stage(i) PROVE Excused'
  BY <1>6, <1>c DEF Stage, Returns, Writing, Next
<1>7. ASSUME NEW i \in Installs, Check(i) PROVE Excused'
  BY <1>7, <1>c DEF Check, Returns, Writing, Next
<1>8. ASSUME NEW i \in Installs, MoveAway(i) PROVE Excused'
  BY ZenonT(40), <1>8, <1>c DEF MoveAway, Returns, Disturb, Writing, Next
<1>9. ASSUME NEW i \in Installs, MoveIn(i) PROVE Excused'
  BY ZenonT(40), <1>9, <1>c DEF MoveIn, Prepared, Disturb, Writing, Next
<1>10. ASSUME NEW i \in Installs, WriteSettings(i) PROVE Excused'
  BY <1>10, <1>c DEF WriteSettings, Disturb, Writing, Next
<1>11. ASSUME NEW i \in Installs, Verify(i) PROVE Excused'
  <2>1. CASE pc'[i] = "ok" /\ i \notin crowd
    BY <1>11, <2>1, Cleared DEF Verify, Returns
  <2>2. CASE ~(pc'[i] = "ok" /\ i \notin crowd)
    <3>1. blamed' = blamed BY <1>11, <2>2 DEF Verify, Returns
    <3> QED BY <1>11, <3>1, <1>c DEF Verify, Returns, Writing, Next
  <2> QED BY <2>1, <2>2
<1>12. ASSUME NEW i \in Installs, UndoSettings(i) PROVE Excused'
  BY <1>12, <1>c DEF UndoSettings, Restored, Disturb, Writing, Next
<1>13. ASSUME NEW i \in Installs, RemoveProfile(i) PROVE Excused'
  BY <1>13, <1>c DEF RemoveProfile, Disturb, Writing, Next
<1>14. ASSUME NEW i \in Installs, RestoreProfile(i) PROVE Excused'
  BY <1>14, <1>c DEF RestoreProfile, MovedBack, Returns, Disturb, Writing, Next
<1>15. ASSUME NEW i \in Installs, Kill(i) PROVE Excused'
  BY <1>15, <1>c DEF Kill, Writing, Next
<1>16. CASE Edit
  BY <1>16, <1>c DEF Edit, Writing, Next
<1>17. CASE UNCHANGED vars
  BY <1>17 DEF vars, Blameless, Writing, Excused, Answerable, Away
<1> QED
  BY <1>1, <1>2, <1>3, <1>4, <1>5, <1>6, <1>7, <1>8, <1>9,
     <1>10, <1>11, <1>12, <1>13, <1>14, <1>15, <1>16, <1>17 DEF Next

LEMMA Inductive == Spec => []IInv
<1>1. IInv /\ [Next]_vars => IInv'
  BY BaseStep, KeptStep, TogetherStep, ExclusiveStep, InPlaceStep, DanglingStep, BlamelessStep
  DEF IInv, Alone, Dangling
<1> QED BY InitInv, <1>1, PTL DEF Spec

-----------------------------------------------------------------------------
(***************************************************************************)
(* The variables keep their types, for any number of installs.             *)
(***************************************************************************)
THEOREM TypeCorrect == Spec => []TypeOK
<1>1. IInv => TypeOK BY DEF IInv, Base
<1> QED BY Inductive, <1>1, PTL

(***************************************************************************)
(* Install never leaves the editor with a shim that is not there, beyond   *)
(* the windows that NeverDangling names, although its lock may let several *)
(* installs work at once.                                                  *)
(***************************************************************************)
THEOREM NoDangling == Spec => []NeverDangling
<1>1. IInv => NeverDangling
  BY DEF IInv, Dangling, NeverDangling, Excused, Answerable
<1> QED BY Inductive, <1>1, PTL

(***************************************************************************)
(* The rollback of Install restores settings and profile, at whatever step *)
(* it fails, if no other install and no editor wrote them meanwhile and    *)
(* its own steps succeed.                                                  *)
(***************************************************************************)
THEOREM RollbackComplete == Spec => FailureRestores
<1> DEFINE A == \A i \in Installs :
       pc[i] # "failed" /\ pc'[i] = "failed" /\ i \notin touched \cup botched'
         => settings' = original[i] /\ profile' = found[i]
<1>1. ASSUME IInv, [Next]_vars PROVE [A]_vars
  <2> SUFFICES ASSUME NEW k \in Installs, Next,
                      pc[k] # "failed", pc'[k] = "failed", k \notin touched \cup botched'
               PROVE  settings' = original[k] /\ profile' = found[k]
    BY <1>1
  <2>0. Kept(k) /\ pc \in [Installs -> Places] BY <1>1 DEF IInv, AllKept, Base, TypeOK
  <2>1. Stage(k) \/ Check(k) \/ MoveAway(k) \/ RestoreProfile(k)
    BY <2>0 DEF Next, ReadSettings, CreateLock, WritePid, InspectLock, RemoveLock, Stage, Check,
                MoveAway, MoveIn, WriteSettings, Verify, UndoSettings, RemoveProfile,
                RestoreProfile, Kill, Edit, Go, Returns
  <2>2. CASE Stage(k) \/ Check(k) \/ MoveAway(k)
    BY <2>0, <2>2
    DEF Stage, Check, MoveAway, Kept, Before, Active, Over, Live, Go, Returns, files, known, past
  <2>3. CASE RestoreProfile(k)
    BY <2>0, <2>3 DEF RestoreProfile, MovedBack, Kept, Active, Over, Live
  <2> QED BY <2>1, <2>2, <2>3
<1>2. Spec => [][A]_vars
  BY Inductive, <1>1, PTL DEF Spec
<1> QED BY <1>2 DEF A, FailureRestores
=============================================================================
