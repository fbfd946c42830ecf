------------------------- MODULE LegacyRolloutProofs -------------------------
(***************************************************************************)
(* What holds of processTask of the legacy deployer and of the cache of    *)
(* its Kubernetes client, for every set of deployments and images and any  *)
(* number of tasks, faults and crashes.                                    *)
(***************************************************************************)
EXTENDS LegacyRollout, FiniteSetTheorems, TLAPS

\* There is always a free object.
LEMMA ImageIsSmall ==
  ASSUME NEW S, IsFiniteSet(S), NEW T, NEW f \in [S -> T]
  PROVE  /\ IsFiniteSet({f[x] : x \in S})
         /\ Cardinality({f[x] : x \in S}) <= Cardinality(S)
<1> DEFINE R == {f[x] : x \in S}
<1>1. f \in Surjection(S, R)
  BY DEF Surjection
<1> HIDE DEF R
<1>2. IsFiniteSet(R) /\ Cardinality(R) <= Cardinality(S)
  BY <1>1, FS_Surjection
<1> QED BY <1>2 DEF R

LEMMA SomeFree ==
  ASSUME cached \in [Deployments -> Objects \union {NoObject}],
         dep \in [Workers -> Objects \union {NoObject}]
  PROVE  \E o \in Objects : o \in Free
<1> DEFINE C == {cached[d] : d \in Deployments}
           D == {dep[w] : w \in Workers}
<1>1. /\ IsFiniteSet(C) /\ Cardinality(C) <= Cardinality(Deployments)
      /\ IsFiniteSet(D) /\ Cardinality(D) <= Cardinality(Workers)
  <2>1. IsFiniteSet(C) /\ Cardinality(C) <= Cardinality(Deployments)
    BY ImageIsSmall, ObjectAssumption, Zenon
  <2>2. IsFiniteSet(D) /\ Cardinality(D) <= Cardinality(Workers)
    BY ImageIsSmall, ObjectAssumption, Zenon
  <2> QED BY <2>1, <2>2
<1>2. /\ Cardinality(Deployments) \in Nat /\ Cardinality(Workers) \in Nat
      /\ Cardinality(Objects) \in Nat
  BY FS_CardinalityType, ObjectAssumption
<1> HIDE DEF C, D
<1>3. /\ IsFiniteSet(C \union D) /\ Cardinality(C \union D) <= Cardinality(C) + Cardinality(D)
      /\ Cardinality(C \union D) \in Nat /\ Cardinality(C) \in Nat /\ Cardinality(D) \in Nat
  <2>1. IsFiniteSet(C \intersect D) /\ IsFiniteSet(C \union D)
    BY <1>1, FS_Intersection, FS_Union
  <2>2. /\ Cardinality(C \union D) \in Nat /\ Cardinality(C \intersect D) \in Nat
        /\ Cardinality(C) \in Nat /\ Cardinality(D) \in Nat
    BY <1>1, <2>1, FS_CardinalityType
  <2>3. Cardinality(C \union D) = Cardinality(C) + Cardinality(D) - Cardinality(C \intersect D)
    BY <1>1, FS_Union
  <2> QED BY <2>1, <2>2, <2>3
<1>4. ~(Objects \subseteq C \union D)
  <2> SUFFICES ASSUME Objects \subseteq C \union D PROVE FALSE
    OBVIOUS
  <2>1. Cardinality(Objects) <= Cardinality(C \union D)
    BY <1>3, FS_Subset
  <2> QED BY <1>1, <1>2, <1>3, <2>1, ObjectAssumption
<1>5. PICK o \in Objects : o \notin C \union D
  BY <1>4
<1> QED BY <1>5 DEF Free, C, D
-----------------------------------------------------------------------------
(* Types.  A worker between its first call and its last has an object, and  *)
(* an object somebody can reach has an image.                               *)

Working == {"change", "put", "check", "rollback", "putBack"}

WorkerHasObject ==
  \A w \in Workers : /\ pc[w] \in Working => dep[w] # NoObject
                     /\ pc[w] \in {"idle", "getImage"} => dep[w] = NoObject
                     /\ pc[w] # "complete" => tries[w] <= 2

HasImage(o) == o # NoObject => object[o].image \in Images

ObjectsHaveImages ==
  /\ \A d \in Deployments : HasImage(cached[d])
  /\ \A w \in Workers : HasImage(dep[w])

Types == TypeOK /\ WorkerHasObject /\ ObjectsHaveImages

LEMMA InitTypes == Init => Types
<1> SUFFICES ASSUME Init PROVE Types
  OBVIOUS
<1>1. server \in [Deployments -> [image : Images, previous : Images \union {NoImage}]]
  <2>1. [image |-> FirstImage, previous |-> NoImage]
        \in [image : Images, previous : Images \union {NoImage}]
    BY ImageAssumption
  <2> QED BY <2>1 DEF Init
<1>2. TypeOK
  <2>1. Blank \in Content
    BY DEF Blank, Content
  <2>2. object \in [Objects -> Content] /\ fresh \subseteq Objects
        /\ cached \in [Deployments -> Objects \union {NoObject}]
    BY <2>1 DEF Init
  <2>3. \A w \in Workers : pc[w] = "idle" <=> cur[w] = NoRequest
    BY DEF Init
  <2>4. /\ pc \in [Workers -> {"idle", "getImage", "change", "put", "check", "rollback",
                              "putBack", "complete"}]
        /\ cur \in [Workers -> Requests \union {NoRequest}]
        /\ dep \in [Workers -> Objects \union {NoObject}]
        /\ tries \in [Workers -> 0..3]
        /\ result \in [Workers -> {"none", "failed", "success", "stuck", "rolledBack"}]
        /\ before \in [Workers -> Images \union {NoImage}]
    BY DEF Init
  <2>5. stray \subseteq Objects /\ misled \union alone \subseteq Workers
    BY DEF Init
  <2>6. runs \in 0..MaxRuns /\ faults \in 0..MaxFaults
    BY BoundAssumption DEF Init
  <2> QED BY <1>1, <2>2, <2>3, <2>4, <2>5, <2>6, Zenon DEF TypeOK
<1>3. WorkerHasObject /\ ObjectsHaveImages
  BY DEF Init, WorkerHasObject, Working, ObjectsHaveImages, HasImage
<1> QED BY <1>2, <1>3 DEF Types

LEMMA BusyTypes ==
  ASSUME Types, NEW w \in Workers, pc[w] # "idle"
  PROVE  /\ w \in Busy /\ cur[w] \in Requests /\ Dep(w) \in Deployments
         /\ cur[w].image \in Images
<1>1. cur[w] \in Requests /\ cur[w] # NoRequest
  BY DEF Types, TypeOK
<1>2. cur[w] \in [deployment : Deployments, image : Images]
  BY <1>1, RequestAssumption
<1> QED BY <1>1, <1>2 DEF Busy, Dep

\* What a pointer leads to, and what it leads to in the end.
LEMMA FoundType ==
  ASSUME Types, NEW w \in Workers, pc[w] # "idle"
  PROVE  /\ Pointer(w) \in Objects /\ Pointer(w) # NoObject
         /\ Found(w) \in Content /\ Found(w).image \in Images
         /\ IsCached(w) => Pointer(w) = cached[Dep(w)]
         /\ ~IsCached(w) => Pointer(w) \in Free /\ Found(w) = server[Dep(w)]
<1>1. Dep(w) \in Deployments
  BY BusyTypes
<1>2. CASE IsCached(w)
  <2>1. cached[Dep(w)] \in Objects
    BY <1>1, <1>2 DEF Types, TypeOK, IsCached
  <2> QED BY <1>1, <1>2, <2>1, NullAssumption
          DEF Pointer, Found, IsCached, Types, TypeOK, ObjectsHaveImages, HasImage
<1>3. CASE ~IsCached(w)
  <2>1. Pointer(w) \in Free
    BY <1>3, SomeFree DEF Pointer, Types, TypeOK
  <2>2. Pointer(w) \in Objects
    BY <2>1 DEF Free
  <2> QED BY <1>1, <1>3, <2>1, <2>2, NullAssumption DEF Found, Types, TypeOK, Content
<1> QED BY <1>2, <1>3

LEMMA GetDeploymentType ==
  ASSUME Types, NEW w \in Workers, pc[w] # "idle",
         NEW c \in Content, c.image \in Images, GetDeployment(w, c)
  PROVE  /\ object' \in [Objects -> Content] /\ fresh' \subseteq Objects
         /\ stray' \subseteq Objects
         /\ cached' \in [Deployments -> Objects \union {NoObject}]
         /\ dep' \in [Workers -> Objects \union {NoObject}] /\ dep'[w] # NoObject
         /\ \A v \in Workers \ {w} : dep'[v] = dep[v]
         /\ ObjectsHaveImages'
<1>1. Pointer(w) \in Objects /\ Pointer(w) # NoObject
  BY FoundType
<1>2. /\ object' = [object EXCEPT ![Pointer(w)] = c]
      /\ cached' = [cached EXCEPT ![Dep(w)] = Pointer(w)]
      /\ dep' = [dep EXCEPT ![w] = Pointer(w)]
      /\ fresh' \subseteq fresh \union {Pointer(w)} /\ stray' \subseteq stray
  BY DEF GetDeployment
<1>3. /\ object \in [Objects -> Content] /\ fresh \subseteq Objects /\ stray \subseteq Objects
      /\ cached \in [Deployments -> Objects \union {NoObject}]
      /\ dep \in [Workers -> Objects \union {NoObject}]
  BY DEF Types, TypeOK
<1>4. /\ object' \in [Objects -> Content] /\ fresh' \subseteq Objects /\ stray' \subseteq Objects
      /\ cached' \in [Deployments -> Objects \union {NoObject}]
      /\ dep' \in [Workers -> Objects \union {NoObject}] /\ dep'[w] # NoObject
      /\ \A v \in Workers \ {w} : dep'[v] = dep[v]
  BY <1>1, <1>2, <1>3
<1>5. \A o \in Objects : object[o].image \in Images => object'[o].image \in Images
  BY <1>1, <1>2, <1>3
<1>6. object'[Pointer(w)].image \in Images
  BY <1>1, <1>2, <1>3
<1>7. \A d \in Deployments : cached'[d] = cached[d] \/ cached'[d] = Pointer(w)
  BY <1>2, <1>3
<1>8. \A v \in Workers : dep'[v] = dep[v] \/ dep'[v] = Pointer(w)
  BY <1>2, <1>3
<1> QED BY <1>3, <1>4, <1>5, <1>6, <1>7, <1>8 DEF ObjectsHaveImages, HasImage, Types

LEMMA WrittenType ==
  ASSUME Types, NEW w \in Workers, pc[w] \in {"put", "putBack"}, Written(w)
  PROVE  /\ server' \in [Deployments -> [image : Images, previous : Images \union {NoImage}]]
         /\ fresh' \subseteq Objects
<1>1. Dep(w) \in Deployments
  BY BusyTypes
<1>2. dep[w] \in Objects /\ object[dep[w]] \in Content /\ object[dep[w]].image \in Images
  BY DEF Types, TypeOK, WorkerHasObject, Working, ObjectsHaveImages, HasImage
<1>3. object[dep[w]] \in [image : Images, previous : Images \union {NoImage}]
  <2>1. object[dep[w]].previous \in Images \union {NoImage}
    BY <1>2 DEF Content
  <2>2. object[dep[w]] = [image |-> object[dep[w]].image, previous |-> object[dep[w]].previous]
    BY <1>2 DEF Content
  <2> QED BY <1>2, <2>1, <2>2
<1>4. server' = [server EXCEPT ![Dep(w)] = object[dep[w]]] /\ fresh' \subseteq fresh
  BY DEF Written
<1> QED BY <1>1, <1>3, <1>4 DEF Types, TypeOK

LEMMA UpdateTypes ==
  ASSUME Types, NEW w \in Workers, pc[w] \in {"put", "putBack"},
         (Update(w) /\ UNCHANGED <<stray, faults>>) \/ UpdateFails(w)
  PROVE  /\ server' \in [Deployments -> [image : Images, previous : Images \union {NoImage}]]
         /\ fresh' \subseteq Objects
         /\ stray' \subseteq Objects /\ faults' \in 0..MaxFaults
<1>1. stray' \subseteq Objects /\ faults' \in 0..MaxFaults
  <2>1. (stray' = stray \/ stray' = stray \union {dep[w]}) /\ (faults' = faults \/ Fault)
    BY DEF Update, UpdateFails
  <2>2. stray \subseteq Objects /\ faults \in 0..MaxFaults /\ dep[w] \in Objects
    BY DEF Types, TypeOK, WorkerHasObject, Working
  <2>3. faults' \in 0..MaxFaults
    BY <2>1, <2>2, BoundAssumption DEF Fault
  <2> QED BY <2>1, <2>2, <2>3
<1>2. CASE Written(w)
  BY <1>1, <1>2, WrittenType
<1>3. CASE UNCHANGED <<server, fresh>>
  BY <1>1, <1>3 DEF Types, TypeOK
<1> QED BY <1>2, <1>3 DEF Update, UpdateFails

\* Another attempt: the worker stays within three.
LEMMA AgainType ==
  ASSUME Types, NEW w \in Workers, pc[w] \in {"rollback", "putBack"}, Again(w)
  PROVE  /\ tries' \in [Workers -> 0..3]
         /\ result' \in [Workers -> {"none", "failed", "success", "stuck", "rolledBack"}]
         /\ \/ pc' = [pc EXCEPT ![w] = "complete"]
            \/ pc' = [pc EXCEPT ![w] = "rollback"] /\ tries'[w] <= 2
         /\ \A v \in Workers \ {w} : tries'[v] = tries[v]
<1>1. tries[w] \in 0..2
  BY DEF Types, TypeOK, WorkerHasObject
<1>2. tries' = [tries EXCEPT ![w] = @ + 1]
  BY DEF Again
<1>3. tries' \in [Workers -> 0..3] /\ tries'[w] = tries[w] + 1
  BY <1>1, <1>2 DEF Types, TypeOK
<1> QED BY <1>1, <1>2, <1>3 DEF Again, Ends, Goto, Types, TypeOK

LEMMA ReturnsType ==
  ASSUME Types, NEW w \in Workers, Returns(w), UNCHANGED <<server, object, fresh, cached, stray, runs>>,
         faults' \in 0..MaxFaults
  PROVE  Types'
<1> USE DEF Types, TypeOK
<1>1. WorkerHasObject'
  BY DEF Returns, Ends, Goto, WorkerHasObject, Working
<1>2. ObjectsHaveImages'
  BY DEF Returns, ObjectsHaveImages, HasImage
<1>3. TypeOK'
  BY DEF Returns, Ends, Goto
<1> QED BY <1>1, <1>2, <1>3

LEMMA GettingTypes ==
  ASSUME Types, NEW w \in Workers, GetNewImage(w) \/ ChangeImage(w) PROVE Types'
<1>0. pc[w] \in {"getImage", "change"}
  BY DEF GetNewImage, ChangeImage, At
<1>1. CASE GetNewImage(w) /\ Returns(w) /\ Fault /\ UNCHANGED <<client, stray>>
  BY <1>1, ReturnsType, BoundAssumption DEF GetNewImage, Fault, client, Types, TypeOK
<1>2. CASE ChangeImage(w) /\ Fault /\ Ends(w, "complete", "failed")
           /\ UNCHANGED <<dep, client, stray, misled>>
  <2>1. TypeOK'
    BY <1>0, <1>2, BoundAssumption DEF ChangeImage, Fault, Ends, Goto, client, Types, TypeOK
  <2>2. WorkerHasObject' /\ ObjectsHaveImages'
    BY <1>2 DEF ChangeImage, Ends, Goto, client, Types, TypeOK, WorkerHasObject, Working,
                ObjectsHaveImages, HasImage
  <2> QED BY <2>1, <2>2 DEF Types
<1>3. ASSUME NEW c \in Content, c.image \in Images, GetDeployment(w, c),
             NEW p \in {"change", "put"}, Goto(w, p),
             misled' \subseteq misled \union {w},
             UNCHANGED <<server, cur, tries, result, before, alone, bounds>>
      PROVE  Types'
  <2>1. /\ object' \in [Objects -> Content] /\ fresh' \subseteq Objects /\ stray' \subseteq Objects
        /\ cached' \in [Deployments -> Objects \union {NoObject}]
        /\ dep' \in [Workers -> Objects \union {NoObject}] /\ dep'[w] # NoObject
        /\ \A v \in Workers \ {w} : dep'[v] = dep[v]
        /\ ObjectsHaveImages'
    BY <1>0, <1>3, GetDeploymentType
  <2>2. TypeOK'
    BY <1>0, <1>3, <2>1 DEF Goto, Types, TypeOK, bounds
  <2>3. WorkerHasObject'
    BY <1>0, <1>3, <2>1 DEF Goto, Types, TypeOK, WorkerHasObject, Working
  <2> QED BY <2>1, <2>2, <2>3 DEF Types
<1>4. CASE GetNewImage(w) /\ GetDeployment(w, Found(w)) /\ Goto(w, "change")
           /\ UNCHANGED <<cur, tries, result, before, misled, alone, faults>>
  BY <1>0, <1>3, <1>4, FoundType DEF GetNewImage, bounds
<1>5. CASE ChangeImage(w) /\ Goto(w, "put") /\ UNCHANGED <<result, faults>>
           /\ GetDeployment(w, [image |-> cur[w].image, previous |-> Found(w).image])
           /\ misled' \subseteq misled \union {w}
  <2>1. [image |-> cur[w].image, previous |-> Found(w).image] \in Content
    BY <1>0, FoundType, BusyTypes DEF Content
  <2>2. cur[w].image \in Images
    BY <1>0, BusyTypes
  <2> QED BY <1>3, <1>5, <2>1, <2>2 DEF ChangeImage, bounds
<1> QED BY <1>1, <1>2, <1>4, <1>5 DEF GetNewImage, ChangeImage

LEMMA RollbackTypes ==
  ASSUME Types, NEW w \in Workers, Rollback(w) PROVE Types'
<1>0. pc[w] = "rollback"
  BY DEF Rollback, At
<1>1. CASE Fault /\ Again(w) /\ UNCHANGED <<dep, client, stray>>
  <2>1. TypeOK'
    BY <1>0, <1>1, AgainType, BoundAssumption DEF Rollback, Fault, client, Types, TypeOK
  <2>2. WorkerHasObject'
    BY <1>0, <1>1, AgainType DEF Types, TypeOK, WorkerHasObject, Working
  <2>3. ObjectsHaveImages'
    BY <1>1 DEF client, Types, ObjectsHaveImages, HasImage
  <2> QED BY <2>1, <2>2, <2>3 DEF Types
<1>2. ASSUME NEW c \in Content, c.image \in Images, GetDeployment(w, c), UNCHANGED faults,
             \/ Again(w)
             \/ Goto(w, "putBack") /\ UNCHANGED <<tries, result>>
      PROVE  Types'
  <2>1. /\ object' \in [Objects -> Content] /\ fresh' \subseteq Objects /\ stray' \subseteq Objects
        /\ cached' \in [Deployments -> Objects \union {NoObject}]
        /\ dep' \in [Workers -> Objects \union {NoObject}] /\ dep'[w] # NoObject
        /\ \A v \in Workers \ {w} : dep'[v] = dep[v]
        /\ ObjectsHaveImages'
    BY <1>0, <1>2, GetDeploymentType
  <2>2. /\ tries' \in [Workers -> 0..3]
        /\ result' \in [Workers -> {"none", "failed", "success", "stuck", "rolledBack"}]
        /\ \/ pc' = [pc EXCEPT ![w] = "complete"]
           \/ pc' = [pc EXCEPT ![w] = "rollback"] /\ tries'[w] <= 2
           \/ pc' = [pc EXCEPT ![w] = "putBack"] /\ tries'[w] <= 2
        /\ \A v \in Workers \ {w} : tries'[v] = tries[v]
    BY <1>0, <1>2, AgainType DEF Goto, Types, TypeOK, WorkerHasObject
  <2>3. TypeOK'
    BY <1>0, <1>2, <2>1, <2>2 DEF Rollback, Types, TypeOK
  <2>4. WorkerHasObject'
    BY <1>0, <2>1, <2>2 DEF Types, TypeOK, WorkerHasObject, Working
  <2> QED BY <2>1, <2>3, <2>4 DEF Types
<1>3. CASE /\ Found(w).previous # NoImage
           /\ GetDeployment(w, [image |-> Found(w).previous, previous |-> NoImage])
           /\ Goto(w, "putBack") /\ UNCHANGED <<tries, result, faults>>
  <2>1. Found(w) \in Content
    BY <1>0, FoundType
  <2>2. Found(w).previous \in Images
    BY <1>3, <2>1 DEF Content
  <2>3. [image |-> Found(w).previous, previous |-> NoImage] \in Content
    BY <2>2 DEF Content
  <2> QED BY <1>2, <1>3, <2>2, <2>3
<1>4. CASE GetDeployment(w, Found(w)) /\ Again(w) /\ UNCHANGED faults
  BY <1>0, <1>2, <1>4, FoundType
<1> QED BY <1>1, <1>3, <1>4 DEF Rollback

LEMMA NextTypes == Types /\ [Next]_vars => Types'
<1> SUFFICES ASSUME Types, [Next]_vars PROVE Types'
    OBVIOUS
<1>1. ASSUME NEW w \in Workers, Start(w) PROVE Types'
  <2>1. \/ UNCHANGED <<cur, pc, alone>>
        \/ /\ \E r \in Requests : cur' = [cur EXCEPT ![w] = r]
           /\ Goto(w, "getImage") /\ alone' \subseteq alone \union {w}
    BY <1>1 DEF Start
  <2>2. TypeOK'
    BY <1>1, <2>1, NullAssumption, BoundAssumption
       DEF Start, At, Goto, client, Types, TypeOK
  <2>3. WorkerHasObject' /\ ObjectsHaveImages'
    BY <1>1 DEF Start, At, Goto, client, Types, TypeOK, WorkerHasObject, Working,
                ObjectsHaveImages, HasImage
  <2> QED BY <2>2, <2>3 DEF Types
<1>2. ASSUME NEW w \in Workers, Put(w) PROVE Types'
  <2>0. pc[w] = "put" /\ Dep(w) \in Deployments
    BY <1>2, BusyTypes DEF Put, At
  <2>1. /\ server' \in [Deployments -> [image : Images, previous : Images \union {NoImage}]]
        /\ fresh' \subseteq Objects
        /\ stray' \subseteq Objects /\ faults' \in 0..MaxFaults
    BY <1>2, <2>0, UpdateTypes DEF Put
  <2>2. before' \in [Workers -> Images \union {NoImage}]
    BY <1>2, <2>0 DEF Put, Types, TypeOK
  <2>3. TypeOK' /\ WorkerHasObject' /\ ObjectsHaveImages'
    BY <1>2, <2>0, <2>1, <2>2
       DEF Put, Ends, Goto, Types, TypeOK, WorkerHasObject, Working, ObjectsHaveImages, HasImage
  <2> QED BY <2>3 DEF Types
<1>3. ASSUME NEW w \in Workers, CheckPods(w) PROVE Types'
  <2>1. TypeOK'
    BY <1>3 DEF CheckPods, At, Ends, Goto, client, history, bounds, Types, TypeOK
  <2>2. WorkerHasObject' /\ ObjectsHaveImages'
    BY <1>3 DEF CheckPods, At, Ends, Goto, client, Types, TypeOK, WorkerHasObject, Working,
                ObjectsHaveImages, HasImage
  <2> QED BY <2>1, <2>2 DEF Types
<1>4. ASSUME NEW w \in Workers, PutBack(w) PROVE Types'
  <2>0. pc[w] = "putBack"
    BY <1>4 DEF PutBack, At
  <2>1. /\ server' \in [Deployments -> [image : Images, previous : Images \union {NoImage}]]
        /\ fresh' \subseteq Objects
        /\ stray' \subseteq Objects /\ faults' \in 0..MaxFaults
    BY <1>4, <2>0, UpdateTypes DEF PutBack
  <2>2. /\ tries' \in [Workers -> 0..3]
        /\ result' \in [Workers -> {"none", "failed", "success", "stuck", "rolledBack"}]
        /\ \/ pc' = [pc EXCEPT ![w] = "complete"]
           \/ pc' = [pc EXCEPT ![w] = "rollback"] /\ tries'[w] <= 2
        /\ \A v \in Workers \ {w} : tries'[v] = tries[v]
    BY <1>4, <2>0, AgainType DEF PutBack, Ends, Goto, Types, TypeOK
  <2>3. TypeOK'
    BY <1>4, <2>0, <2>1, <2>2 DEF PutBack, Types, TypeOK
  <2>4. WorkerHasObject' /\ ObjectsHaveImages'
    BY <1>4, <2>0, <2>2 DEF PutBack, Types, TypeOK, WorkerHasObject, Working,
                            ObjectsHaveImages, HasImage
  <2> QED BY <2>3, <2>4 DEF Types
<1>5. ASSUME NEW w \in Workers, Complete(w) PROVE Types'
  BY <1>5, ReturnsType DEF Complete, client, bounds, Types, TypeOK
<1>6. ASSUME NEW d \in Deployments, CacheExpires(d) \/ Touch(d) PROVE Types'
  <2>1. /\ UNCHANGED <<server, object, locals, history, bounds>>
        /\ fresh' \subseteq fresh
        /\ cached' = cached \/ cached' = [cached EXCEPT ![d] = NoObject]
    BY <1>6 DEF CacheExpires, Touch
  <2>2. TypeOK'
    BY <2>1 DEF locals, history, bounds, Types, TypeOK
  <2>3. WorkerHasObject'
    BY <2>1 DEF locals, Types, WorkerHasObject
  <2>4. ObjectsHaveImages'
    BY <2>1 DEF locals, Types, TypeOK, ObjectsHaveImages, HasImage
  <2> QED BY <2>2, <2>3, <2>4 DEF Types
<1>7. CASE Crash
  <2>1. Blank \in Content
    BY DEF Blank, Content
  <2>2. TypeOK'
    BY <1>7, <2>1, BoundAssumption DEF Crash, Fault, Types, TypeOK
  <2>3. WorkerHasObject' /\ ObjectsHaveImages'
    BY <1>7 DEF Crash, WorkerHasObject, Working, ObjectsHaveImages, HasImage
  <2> QED BY <2>2, <2>3 DEF Types
<1>8. CASE UNCHANGED vars
  BY <1>8 DEF vars, client, locals, history, bounds, Types, TypeOK, WorkerHasObject,
              ObjectsHaveImages, HasImage
<1> QED BY <1>1, <1>2, <1>3, <1>4, <1>5, <1>6, <1>7, <1>8, GettingTypes, RollbackTypes
        DEF Next, Process

\* Every variable keeps its type: in particular an object is always found for
\* what is fetched, what is sent to the server has an image, and a worker never
\* makes a fourth attempt to go back (main.go 337-350, client.go 106-123).
THEOREM TypeCorrect == Spec => []TypeOK
<1>1. Types => TypeOK
  BY DEF Types
<1> QED BY <1>1, InitTypes, NextTypes, PTL DEF Spec
-----------------------------------------------------------------------------
(* Pointers.  A worker never shares an object with another deployment's     *)
(* entry of the cache: a fetched deployment is a new object.                *)

PointersAreApart ==
  /\ \A d, e \in Deployments : cached[d] = cached[e] /\ cached[d] # NoObject => d = e
  /\ \A w \in Workers, d \in Deployments :
       dep[w] = cached[d] /\ dep[w] # NoObject => d = Dep(w)

\* What AcceptedIsTrue says of one deployment.
Accepted(d) ==
  \/ cached[d] \notin fresh
  \/ object[cached[d]] = server[d]
  \/ cached[d] \in stray
  \/ \E w \in Busy : Writing(w) /\ dep[w] = cached[d]

\* Who is alone at a deployment.
AloneIsAlone ==
  \A w \in alone : w \in Busy /\ \A v \in Busy \ {w} : Dep(v) # Dep(w)

Replacing(w) == pc[w] \in {"check", "rollback", "putBack"}

\* What the worker relies on when it ends with a success or a rollback: the
\* object it is about to write holds the task's image, and beside it the image
\* that is deployed; what the server remembers is what the task has replaced; and
\* what a failed attempt to go back leaves in the cache remembers nothing.
ToldTruly(w) ==
  /\ pc[w] = "put" => object[dep[w]].image = cur[w].image
  /\ pc[w] = "put" /\ w \notin misled /\ dep[w] \in fresh =>
       object[dep[w]].previous = server[Dep(w)].image
  /\ pc[w] = "check" => server[Dep(w)].image = cur[w].image
  /\ Replacing(w) /\ w \notin misled => server[Dep(w)].previous \in {before[w], NoImage}
  /\ Replacing(w) /\ cached[Dep(w)] \in fresh \intersect stray =>
       object[cached[Dep(w)]].previous = NoImage
  /\ pc[w] = "putBack" => object[dep[w]].previous = NoImage
  /\ pc[w] = "putBack" /\ w \notin misled /\ dep[w] \in fresh =>
       object[dep[w]].image = before[w]
  /\ result[w] = "success" => pc[w] = "complete" /\ server[Dep(w)].image = cur[w].image
  /\ result[w] = "rolledBack" =>
       pc[w] = "complete" /\ (w \notin misled => server[Dep(w)].image = before[w])

\* A result is told at the end of a task, and taken back with the next one.
ResultAtEnd == \A w \in Workers : result[w] # "none" => pc[w] = "complete"

ReportInv ==
  /\ Types /\ PointersAreApart /\ AcceptedIsTrue /\ AloneIsAlone /\ ResultAtEnd
  /\ \A w \in alone : ToldTruly(w)

LEMMA InitReport == Init => ReportInv
<1> SUFFICES ASSUME Init PROVE ReportInv
  OBVIOUS
<1>1. Types
  BY InitTypes
<1>2. PointersAreApart
  BY DEF Init, PointersAreApart
<1>3. AcceptedIsTrue
  BY DEF Init, AcceptedIsTrue
<1>4. AloneIsAlone /\ ResultAtEnd /\ \A w \in alone : ToldTruly(w)
  BY DEF Init, AloneIsAlone, ResultAtEnd
<1> QED BY <1>1, <1>2, <1>3, <1>4 DEF ReportInv

\* Who has called GetDeployment holds what the cache holds, and no other entry
\* of the cache has changed.
LEMMA GotPointer ==
  ASSUME Types, PointersAreApart, NEW w \in Workers, pc[w] # "idle", NEW c,
         GetDeployment(w, c)
  PROVE  /\ cached'[Dep(w)] = Pointer(w) /\ dep'[w] = Pointer(w)
         /\ object'[Pointer(w)] = c
         /\ \A d \in Deployments \ {Dep(w)} :
              /\ cached'[d] = cached[d] /\ cached[d] # Pointer(w)
              /\ cached[d] \in fresh' => cached[d] \in fresh
              /\ cached[d] \in Objects => object'[cached[d]] = object[cached[d]]
         /\ \A o : o # Pointer(w) /\ o \in Objects =>
              /\ object'[o] = object[o] /\ (o \in fresh' => o \in fresh)
              /\ (o \in stray' <=> o \in stray)
         /\ \A v \in Workers \ {w} : dep'[v] = dep[v]
         /\ IsCached(w) => Pointer(w) = cached[Dep(w)] /\ UNCHANGED <<fresh, stray>>
         /\ ~IsCached(w) => Pointer(w) \in Free /\ Pointer(w) \notin stray'
<1>1. /\ Dep(w) \in Deployments /\ Pointer(w) \in Objects /\ Pointer(w) # NoObject
      /\ IsCached(w) => Pointer(w) = cached[Dep(w)]
      /\ ~IsCached(w) => Pointer(w) \in Free
  BY BusyTypes, FoundType
<1>2. /\ object' = [object EXCEPT ![Pointer(w)] = c]
      /\ cached' = [cached EXCEPT ![Dep(w)] = Pointer(w)]
      /\ dep' = [dep EXCEPT ![w] = Pointer(w)]
      /\ fresh' = IF IsCached(w) THEN fresh ELSE fresh \union {Pointer(w)}
      /\ stray' = IF IsCached(w) THEN stray ELSE stray \ {Pointer(w)}
  BY DEF GetDeployment
<1>3. /\ object \in [Objects -> Content]
      /\ cached \in [Deployments -> Objects \union {NoObject}]
      /\ dep \in [Workers -> Objects \union {NoObject}]
  BY DEF Types, TypeOK
<1>4. ASSUME NEW d \in Deployments \ {Dep(w)} PROVE cached[d] # Pointer(w)
  BY <1>1 DEF PointersAreApart, Free, IsCached
<1>5. cached'[Dep(w)] = Pointer(w) /\ dep'[w] = Pointer(w) /\ object'[Pointer(w)] = c
  BY <1>1, <1>2, <1>3
<1>6. ASSUME NEW d \in Deployments \ {Dep(w)}
      PROVE  /\ cached'[d] = cached[d]
             /\ cached[d] \in fresh' => cached[d] \in fresh
             /\ cached[d] \in Objects => object'[cached[d]] = object[cached[d]]
  BY <1>1, <1>2, <1>3, <1>4
<1>7. IsCached(w) => UNCHANGED <<fresh, stray>>
  BY <1>2
<1>8. ~IsCached(w) => Pointer(w) \notin stray'
  BY <1>2
<1>9. ASSUME NEW o \in Objects, o # Pointer(w)
      PROVE  /\ object'[o] = object[o] /\ (o \in fresh' => o \in fresh)
             /\ (o \in stray' <=> o \in stray)
  BY <1>1, <1>2, <1>3, <1>9
<1>10. \A v \in Workers \ {w} : dep'[v] = dep[v]
  BY <1>2, <1>3
<1> QED BY <1>1, <1>4, <1>5, <1>6, <1>7, <1>8, <1>9, <1>10

LEMMA GotApart ==
  ASSUME Types, PointersAreApart, NEW w \in Workers, pc[w] # "idle", NEW c,
         GetDeployment(w, c), UNCHANGED cur
  PROVE  PointersAreApart'
<1>1. /\ cached'[Dep(w)] = Pointer(w) /\ dep'[w] = Pointer(w)
      /\ \A d \in Deployments \ {Dep(w)} :
           cached'[d] = cached[d] /\ cached[d] # Pointer(w)
      /\ IsCached(w) => Pointer(w) = cached[Dep(w)]
  BY GotPointer
<1>2. /\ Dep(w) \in Deployments /\ Pointer(w) # NoObject
      /\ ~IsCached(w) => Pointer(w) \in Free
  BY BusyTypes, FoundType
<1>3. \A v \in Workers \ {w} : dep'[v] = dep[v]
  BY DEF GetDeployment, Types, TypeOK
<1>4. \A d, e \in Deployments : cached'[d] = cached'[e] /\ cached'[d] # NoObject => d = e
  BY <1>1, <1>2 DEF PointersAreApart
<1>5. ASSUME NEW v \in Workers, NEW d \in Deployments,
             dep'[v] = cached'[d], dep'[v] # NoObject
      PROVE  d = Dep(v)
  <2>1. CASE v = w
    BY <1>1, <1>5, <2>1
  <2>2. CASE v # w /\ d # Dep(w)
    BY <1>1, <1>3, <1>5, <2>2 DEF PointersAreApart
  <2>3. CASE v # w /\ d = Dep(w)
    <3>1. dep[v] = Pointer(w) /\ dep[v] # NoObject
      BY <1>1, <1>3, <1>5, <2>3
    <3>2. IsCached(w)
      BY <1>2, <3>1 DEF Free
    <3> QED BY <1>1, <1>2, <2>3, <3>1, <3>2 DEF PointersAreApart
  <2> QED BY <2>1, <2>2, <2>3
<1>6. \A v \in Workers : Dep(v)' = Dep(v)
  BY DEF Dep
<1> QED BY <1>4, <1>5, <1>6 DEF PointersAreApart

LEMMA OthersApart ==
  ASSUME PointersAreApart,
         \A d \in Deployments : cached'[d] \in {cached[d], NoObject},
         \A w \in Workers : \/ dep'[w] = NoObject
                            \/ dep'[w] = dep[w] /\ cur'[w] = cur[w]
  PROVE  PointersAreApart'
<1>1. \A d, e \in Deployments : cached'[d] = cached'[e] /\ cached'[d] # NoObject => d = e
  BY DEF PointersAreApart
<1>2. ASSUME NEW w \in Workers, NEW d \in Deployments,
             dep'[w] = cached'[d], dep'[w] # NoObject
      PROVE  d = Dep(w)'
  <2>1. dep[w] = cached[d] /\ dep[w] # NoObject /\ cur'[w] = cur[w]
    BY <1>2
  <2>2. d = Dep(w)
    BY <2>1 DEF PointersAreApart
  <2> QED BY <2>1, <2>2 DEF Dep
<1> QED BY <1>1, <1>2 DEF PointersAreApart

LEMMA NextApart ==
  ASSUME Types, PointersAreApart, [Next]_vars PROVE PointersAreApart'
<1> USE DEF Types, TypeOK
<1>1. ASSUME NEW w \in Workers, NEW c, pc[w] # "idle", GetDeployment(w, c), UNCHANGED cur
      PROVE  PointersAreApart'
  BY <1>1, GotApart
<1>2. ASSUME NEW w \in Workers, Start(w) PROVE PointersAreApart'
  <2>1. dep[w] = NoObject
    BY <1>2 DEF Start, At, WorkerHasObject
  <2> QED BY <1>2, <2>1, OthersApart DEF Start, client
<1>3. ASSUME NEW w \in Workers, GetNewImage(w) \/ ChangeImage(w) \/ Rollback(w)
      PROVE  PointersAreApart'
  <2>1. pc[w] # "idle"
    BY <1>3 DEF GetNewImage, ChangeImage, Rollback, At
  <2>2. CASE Returns(w) /\ UNCHANGED client
    BY <2>2, OthersApart DEF Returns, client
  <2>3. CASE UNCHANGED <<dep, client, cur>>
    BY <2>3, OthersApart DEF client
  <2>4. CASE UNCHANGED cur /\ \E c : GetDeployment(w, c)
    BY <1>1, <2>1, <2>4
  <2> QED BY <1>3, <2>2, <2>3, <2>4, Zenon DEF GetNewImage, ChangeImage, Rollback
<1>4. ASSUME NEW w \in Workers, Put(w) \/ CheckPods(w) \/ PutBack(w) PROVE PointersAreApart'
  BY <1>4, OthersApart DEF Put, CheckPods, PutBack, client
<1>5. ASSUME NEW w \in Workers, Complete(w) PROVE PointersAreApart'
  BY <1>5, OthersApart DEF Complete, Returns, client
<1>6. ASSUME NEW d \in Deployments, CacheExpires(d) \/ Touch(d) PROVE PointersAreApart'
  BY <1>6, OthersApart DEF CacheExpires, Touch, locals
<1>7. CASE Crash
  BY <1>7, OthersApart DEF Crash
<1>8. CASE UNCHANGED vars
  BY <1>8, OthersApart DEF vars, client, locals
<1> QED BY <1>2, <1>3, <1>4, <1>5, <1>6, <1>7, <1>8 DEF Next, Process
-----------------------------------------------------------------------------
(* The cache: what a step leaves alone, what a worker gets from it, and what *)
(* his call of Update leaves in it.                                          *)

LEMMA AcceptedKept ==
  ASSUME Types, AcceptedIsTrue, UNCHANGED server, fresh' \subseteq fresh, stray \subseteq stray',
         \A d \in Deployments : \/ cached'[d] = NoObject
                                \/ cached'[d] = cached[d] /\ UNCHANGED object,
         \A v \in Busy : Writing(v) => v \in Busy' /\ Writing(v)' /\ dep'[v] = dep[v]
  PROVE  AcceptedIsTrue'
<1> SUFFICES ASSUME NEW d \in Deployments PROVE Accepted(d)'
  BY DEF AcceptedIsTrue, Accepted
<1>1. Accepted(d)
  BY DEF AcceptedIsTrue, Accepted
<1>2. NoObject \notin fresh
  BY NullAssumption DEF Types, TypeOK
<1>3. CASE cached'[d] = NoObject
  BY <1>2, <1>3 DEF Accepted
<1>4. CASE cached'[d] = cached[d] /\ UNCHANGED object
  BY <1>1, <1>4 DEF Accepted
<1> QED BY <1>3, <1>4

\* Who is not w writes on when w makes a step.
LEMMA WritesOn ==
  ASSUME Types, NEW w \in Workers, NEW v \in Workers, v # w, Writing(v), UNCHANGED cur,
         pc'[v] = pc[v]
  PROVE  v \in Busy' /\ Writing(v)'
<1>1. pc[v] # "idle"
  BY DEF Writing
<1>2. v \in Busy
  BY <1>1, BusyTypes
<1> QED BY <1>2 DEF Busy, Writing

LEMMA GotAccepted ==
  ASSUME Types, PointersAreApart, AcceptedIsTrue,
         NEW w \in Workers, pc[w] # "idle", ~Writing(w),
         NEW c, GetDeployment(w, c), UNCHANGED <<server, cur>>,
         \A v \in Workers \ {w} : pc'[v] = pc[v],
         c = Found(w) \/ pc'[w] \in {"put", "putBack"}
  PROVE  AcceptedIsTrue'
<1> SUFFICES ASSUME NEW d \in Deployments PROVE Accepted(d)'
  BY DEF AcceptedIsTrue, Accepted
<1>1. Accepted(d)
  BY DEF AcceptedIsTrue, Accepted
<1>2. ASSUME NEW v \in Busy, Writing(v)
      PROVE  v \in Busy' /\ Writing(v)' /\ dep'[v] = dep[v]
  <2>1. v \in Workers \ {w}
    BY <1>2 DEF Busy
  <2> QED BY <1>2, <2>1, WritesOn, GotPointer
<1>3. CASE d # Dep(w)
  <2>1. cached'[d] = cached[d] /\ cached[d] # Pointer(w)
    BY <1>3, GotPointer
  <2>2. cached[d] \in Objects \/ cached[d] = NoObject
    BY DEF Types, TypeOK
  <2>3. CASE cached[d] = NoObject
    <3>1. NoObject \notin fresh'
      BY NullAssumption, FoundType DEF GetDeployment, Types, TypeOK
    <3> QED BY <2>1, <2>3, <3>1 DEF Accepted
  <2>4. CASE cached[d] \in Objects
    <3>1. /\ object'[cached[d]] = object[cached[d]]
          /\ cached[d] \in fresh' => cached[d] \in fresh
          /\ cached[d] \in stray => cached[d] \in stray'
      BY <2>1, <2>4, GotPointer
    <3> QED BY <1>1, <1>2, <2>1, <3>1 DEF Accepted
  <2> QED BY <2>2, <2>3, <2>4
<1>4. CASE d = Dep(w)
  <2>1. cached'[d] = Pointer(w) /\ dep'[w] = Pointer(w) /\ object'[Pointer(w)] = c
    BY <1>4, GotPointer
  <2>2. CASE pc'[w] \in {"put", "putBack"}
    <3>1. w \in Busy'
      BY BusyTypes DEF Busy
    <3> QED BY <2>1, <2>2, <3>1 DEF Accepted, Writing
  <2>3. CASE c = Found(w) /\ IsCached(w)
    <3>1. Pointer(w) = cached[d] /\ UNCHANGED <<fresh, stray>> /\ c = object[cached[d]]
      BY <1>4, <2>3, GotPointer DEF Found
    <3> QED BY <1>1, <1>2, <2>1, <3>1 DEF Accepted
  <2>4. CASE c = Found(w) /\ ~IsCached(w)
    BY <1>4, <2>1, <2>4 DEF Accepted, Found
  <2> QED BY <2>2, <2>3, <2>4
<1> QED BY <1>3, <1>4

\* What Update does, whether it succeeds or not.
Sent(w) ==
  \/ Written(w) /\ UNCHANGED stray
  \/ dep[w] \notin fresh /\ UNCHANGED <<server, fresh, stray>>
  \/ stray' = stray \union {dep[w]} /\ UNCHANGED <<server, fresh>>

LEMMA UpdateAccepted ==
  ASSUME Types, PointersAreApart, AcceptedIsTrue,
         NEW w \in Workers, Writing(w), UNCHANGED <<object, cached, cur, dep>>, Sent(w),
         \A v \in Workers \ {w} : pc'[v] = pc[v]
  PROVE  AcceptedIsTrue'
<1> SUFFICES ASSUME NEW d \in Deployments PROVE Accepted(d)'
  BY DEF AcceptedIsTrue, Accepted
<1>1. Accepted(d)
  BY DEF AcceptedIsTrue, Accepted
<1>2. pc[w] \in {"put", "putBack"} /\ dep[w] # NoObject /\ Dep(w) \in Deployments
  BY BusyTypes DEF Writing, Types, WorkerHasObject, Working
<1>3. ASSUME NEW v \in Busy, Writing(v), v # w
      PROVE  v \in Busy' /\ Writing(v)' /\ dep'[v] = dep[v]
  <2>1. v \in Workers
    BY DEF Busy
  <2> QED BY <1>3, <2>1, WritesOn
<1>4. dep[w] = cached[d] => d = Dep(w)
  BY <1>2 DEF PointersAreApart
<1>5. CASE Written(w) /\ UNCHANGED stray
  <2>1. fresh' = fresh \ ObjectsOf(Dep(w)) /\ cached[Dep(w)] \in ObjectsOf(Dep(w))
    BY <1>5 DEF Written, ObjectsOf
  <2>2. CASE d = Dep(w)
    BY <2>1, <2>2 DEF Accepted
  <2>3. CASE d # Dep(w)
    <3>1. server'[d] = server[d]
      BY <1>2, <1>5, <2>3 DEF Written, Types, TypeOK
    <3> QED BY <1>1, <1>3, <1>4, <1>5, <2>1, <2>3, <3>1 DEF Accepted
  <2> QED BY <2>2, <2>3
<1>6. CASE dep[w] \notin fresh /\ UNCHANGED <<server, fresh, stray>>
  BY <1>1, <1>3, <1>6 DEF Accepted
<1>7. CASE stray' = stray \union {dep[w]} /\ UNCHANGED <<server, fresh>>
  BY <1>1, <1>3, <1>7 DEF Accepted
<1> QED BY <1>5, <1>6, <1>7 DEF Sent

\* The steps of one worker leave the others' control alone.
LEMMA OthersControl ==
  ASSUME Types, NEW w \in Workers, Process(w), NEW v \in Workers, v # w
  PROVE  /\ pc'[v] = pc[v] /\ cur'[v] = cur[v] /\ result'[v] = result[v]
         /\ before'[v] = before[v] /\ dep'[v] = dep[v]
         /\ (v \in misled' <=> v \in misled) /\ (v \in alone' => v \in alone)
<1> USE DEF Types, TypeOK
<1>1. CASE Start(w)
  <2>1. UNCHANGED <<result, before, dep, misled>>
    BY <1>1 DEF Start, client
  <2>2. /\ pc' = pc \/ pc' = [pc EXCEPT ![w] = "getImage"]
        /\ cur' = cur \/ \E q : cur' = [cur EXCEPT ![w] = q]
        /\ alone' \subseteq alone \union {w}
    BY <1>1 DEF Start, Goto
  <2> QED BY <2>1, <2>2
<1>2. CASE GetNewImage(w)
  BY <1>2 DEF GetNewImage, GetDeployment, Returns, Ends, Goto
<1>3. CASE ChangeImage(w)
  BY <1>3 DEF ChangeImage, GetDeployment, Ends, Goto
<1>4. CASE Put(w)
  BY <1>4 DEF Put, Ends, Goto
<1>5. CASE CheckPods(w)
  BY <1>5 DEF CheckPods, Ends, Goto, history
<1>6. CASE Rollback(w)
  BY <1>6 DEF Rollback, GetDeployment, Again, Ends, Goto
<1>7. CASE PutBack(w)
  BY <1>7 DEF PutBack, Again, Ends, Goto
<1>8. CASE Complete(w)
  BY <1>8 DEF Complete, Returns, Ends, Goto
<1> QED BY <1>1, <1>2, <1>3, <1>4, <1>5, <1>6, <1>7, <1>8 DEF Process

\* A worker gets an object, leaves it as it is or goes on to write it.
Leaves(w, c) ==
  /\ GetDeployment(w, c)
  /\ c = Found(w) \/ pc'[w] \in {"put", "putBack"}

\* What a worker's step does to the cache, the objects and the server.
LEMMA ProcessSteps ==
  ASSUME Types, NEW w \in Workers, Process(w)
  PROVE  \/ UNCHANGED <<server, client, stray>> /\ ~Writing(w)
         \/ /\ pc[w] # "idle" /\ ~Writing(w) /\ UNCHANGED <<server, cur>>
            /\ \E c : Leaves(w, c)
         \/ Writing(w) /\ UNCHANGED <<object, cached, cur, dep>> /\ Sent(w)
<1>1. CASE Start(w) \/ CheckPods(w) \/ Complete(w)
  BY <1>1 DEF Start, CheckPods, Complete, At, Writing, history
<1>2. CASE GetNewImage(w)
  BY <1>2 DEF GetNewImage, At, Writing, Leaves
<1>3. CASE ChangeImage(w)
  <2>1. Goto(w, "put") => pc'[w] = "put"
    BY DEF Goto, Types, TypeOK
  <2> QED BY <1>3, <2>1 DEF ChangeImage, At, Writing, Leaves
<1>4. CASE Rollback(w)
  <2>1. Goto(w, "putBack") => pc'[w] = "putBack"
    BY DEF Goto, Types, TypeOK
  <2> QED BY <1>4, <2>1 DEF Rollback, At, Writing, Leaves
<1>5. CASE Put(w) \/ PutBack(w)
  BY <1>5 DEF Put, PutBack, At, Writing, Update, UpdateFails, Sent
<1> QED BY <1>1, <1>2, <1>3, <1>4, <1>5 DEF Process

LEMMA NextAccepted ==
  ASSUME Types, PointersAreApart, AcceptedIsTrue, [Next]_vars PROVE AcceptedIsTrue'
<1>1. ASSUME NEW w \in Workers, Process(w) PROVE AcceptedIsTrue'
  <2>1. \A v \in Workers \ {w} : pc'[v] = pc[v]
    BY <1>1, OthersControl
  <2>2. CASE UNCHANGED <<server, client, stray>> /\ ~Writing(w)
    <3>1. ASSUME NEW v \in Busy, Writing(v)
          PROVE  v \in Busy' /\ Writing(v)' /\ dep'[v] = dep[v]
      <4>1. v \in Workers /\ v # w /\ cur[v] # NoRequest
        BY <2>2, <3>1 DEF Busy
      <4>2. pc'[v] = pc[v] /\ cur'[v] = cur[v] /\ dep'[v] = dep[v]
        BY <1>1, <4>1, OthersControl
      <4> QED BY <3>1, <4>1, <4>2 DEF Busy, Writing
    <3> QED BY <2>2, <3>1, AcceptedKept DEF client
  <2>3. CASE /\ pc[w] # "idle" /\ ~Writing(w) /\ UNCHANGED <<server, cur>>
             /\ \E c : Leaves(w, c)
    <3>1. PICK c : Leaves(w, c)
      BY <2>3
    <3> QED BY <2>1, <2>3, <3>1, GotAccepted DEF Leaves
  <2>4. CASE Writing(w) /\ UNCHANGED <<object, cached, cur, dep>> /\ Sent(w)
    BY <2>1, <2>4, UpdateAccepted
  <2> QED BY <1>1, <2>2, <2>3, <2>4, ProcessSteps
<1>2. ASSUME NEW d \in Deployments, CacheExpires(d) \/ Touch(d) PROVE AcceptedIsTrue'
  <2>1. /\ UNCHANGED <<server, object, locals, stray>> /\ fresh' \subseteq fresh
        /\ \A e \in Deployments : cached'[e] \in {cached[e], NoObject}
    BY <1>2 DEF CacheExpires, Touch, Types, TypeOK, history
  <2> QED BY <2>1, AcceptedKept DEF locals, Busy, Writing
<1>3. CASE Crash
  BY <1>3 DEF Crash, AcceptedIsTrue
<1>4. CASE UNCHANGED vars
  BY <1>4, AcceptedKept DEF vars, client, locals, history, Busy, Writing
<1> QED BY <1>1, <1>2, <1>3, <1>4 DEF Next
-----------------------------------------------------------------------------
(* Who is alone at a deployment, and what the others leave to him.          *)

LEMMA NextAlone ==
  ASSUME Types, AloneIsAlone, [Next]_vars PROVE AloneIsAlone'
<1> USE DEF AloneIsAlone
<1>1. ASSUME UNCHANGED <<cur, alone>> PROVE AloneIsAlone'
  BY <1>1 DEF Busy, Dep
<1>2. ASSUME NEW w \in Workers, NEW r \in Requests, At(w, "idle"),
             cur' = [cur EXCEPT ![w] = r],
             alone' = IF {v \in Busy : Dep(v) = r.deployment} = {} THEN alone \union {w}
                      ELSE alone \ {v \in Busy : Dep(v) = r.deployment}
      PROVE  AloneIsAlone'
  <2>1. w \notin Busy /\ r # NoRequest
    BY <1>2, NullAssumption DEF At, Busy, Types, TypeOK
  <2>2. Busy' = Busy \union {w} /\ Dep(w)' = r.deployment
        /\ \A v \in Busy : Dep(v)' = Dep(v)
    BY <1>2, <2>1 DEF Busy, Dep, Types, TypeOK
  <2> QED BY <1>2, <2>1, <2>2
<1>3. ASSUME NEW w \in Workers, Returns(w) PROVE AloneIsAlone'
  <2>1. Busy' = Busy \ {w} /\ \A v \in Busy \ {w} : Dep(v)' = Dep(v)
    BY <1>3 DEF Returns, Busy, Dep, Types, TypeOK
  <2> QED BY <1>3, <2>1 DEF Returns
<1>4. ASSUME NEW w \in Workers, Process(w) PROVE AloneIsAlone'
  <2>1. CASE Start(w)
    BY <1>1, <1>2, <2>1 DEF Start
  <2>2. CASE ~Start(w)
    <3>1. UNCHANGED <<cur, alone>> \/ Returns(w)
      BY <1>4, <2>2 DEF Process, GetNewImage, ChangeImage, Put, CheckPods, Rollback, PutBack,
                        Complete, history
    <3> QED BY <1>1, <1>3, <3>1
  <2> QED BY <2>1, <2>2
<1>5. CASE Crash
  BY <1>5 DEF Crash
<1>6. (\E d \in Deployments : CacheExpires(d) \/ Touch(d)) \/ UNCHANGED vars
      => UNCHANGED <<cur, alone>>
  BY DEF CacheExpires, Touch, vars, locals, history
<1> QED BY <1>1, <1>4, <1>5, <1>6 DEF Next

\* What a worker relies on is not touched.
Untouched(w) ==
  /\ pc'[w] = pc[w] /\ cur'[w] = cur[w] /\ result'[w] = result[w] /\ before'[w] = before[w]
  /\ dep'[w] = dep[w] /\ (w \in misled' <=> w \in misled)
  /\ server'[Dep(w)] = server[Dep(w)]
  /\ dep[w] # NoObject =>
       object'[dep[w]] = object[dep[w]] /\ (dep[w] \in fresh' => dep[w] \in fresh)
  /\ cached'[Dep(w)] # NoObject =>
       /\ cached'[Dep(w)] = cached[Dep(w)]
       /\ object'[cached[Dep(w)]] = object[cached[Dep(w)]]
       /\ cached[Dep(w)] \in fresh' \intersect stray' => cached[Dep(w)] \in fresh \intersect stray

LEMMA ToldStays ==
  ASSUME Types, Types', NEW w \in Workers, ToldTruly(w), Untouched(w) PROVE ToldTruly(w)'
<1>1. Dep(w)' = Dep(w) /\ (Replacing(w)' <=> Replacing(w))
  BY DEF Untouched, Dep, Replacing
<1>2. pc[w] \in {"put", "putBack"} => dep[w] # NoObject
  BY DEF Types, WorkerHasObject, Working
<1>3. NoObject \notin fresh'
  BY NullAssumption DEF Types, TypeOK
<1>4. Replacing(w)' /\ (cached[Dep(w)] \in fresh \intersect stray)' =>
        (object[cached[Dep(w)]].previous = NoImage)'
  BY <1>1, <1>3 DEF Untouched, ToldTruly
<1>5. /\ (pc[w] = "put" => object[dep[w]].image = cur[w].image)'
      /\ (pc[w] = "put" /\ w \notin misled /\ dep[w] \in fresh =>
            object[dep[w]].previous = server[Dep(w)].image)'
      /\ (pc[w] = "putBack" => object[dep[w]].previous = NoImage)'
      /\ (pc[w] = "putBack" /\ w \notin misled /\ dep[w] \in fresh =>
            object[dep[w]].image = before[w])'
  BY <1>1, <1>2 DEF Untouched, ToldTruly
<1>6. /\ (pc[w] = "check" => server[Dep(w)].image = cur[w].image)'
      /\ (Replacing(w) /\ w \notin misled => server[Dep(w)].previous \in {before[w], NoImage})'
      /\ (result[w] = "success" => pc[w] = "complete" /\ server[Dep(w)].image = cur[w].image)'
      /\ (result[w] = "rolledBack" =>
            pc[w] = "complete" /\ (w \notin misled => server[Dep(w)].image = before[w]))'
  BY <1>1 DEF Untouched, ToldTruly
<1> QED BY <1>4, <1>5, <1>6 DEF ToldTruly

\* A worker at another deployment touches none of it.
LEMMA OthersTold ==
  ASSUME Types, Types', PointersAreApart, AloneIsAlone, NEW v \in Workers, Process(v),
         NEW w \in alone, w # v, ToldTruly(w)
  PROVE  ToldTruly(w)'
<1>0. w \in Workers /\ w \in Busy /\ Dep(w) \in Deployments
  <2>1. w \in Busy /\ w \in Workers
    BY DEF AloneIsAlone, Busy
  <2>2. pc[w] # "idle"
    BY <2>1 DEF Busy, Types, TypeOK
  <2> QED BY <2>1, <2>2, BusyTypes
<1>1. /\ pc'[w] = pc[w] /\ cur'[w] = cur[w] /\ result'[w] = result[w] /\ before'[w] = before[w]
      /\ dep'[w] = dep[w] /\ (w \in misled' <=> w \in misled)
  BY <1>0, OthersControl
<1>2. pc[v] # "idle" => v \in Busy /\ Dep(v) # Dep(w) /\ Dep(v) \in Deployments
  BY BusyTypes DEF AloneIsAlone
<1>3. /\ dep[w] # NoObject => dep[w] \in Objects
      /\ cached[Dep(w)] # NoObject => cached[Dep(w)] \in Objects
  BY <1>0 DEF Types, TypeOK
<1>4. CASE UNCHANGED <<server, client, stray>>
  BY <1>0, <1>1, <1>4, ToldStays DEF Untouched, client
<1>5. ASSUME pc[v] # "idle", UNCHANGED server, NEW c, GetDeployment(v, c)
      PROVE  ToldTruly(w)'
  <2>1. cached'[Dep(w)] = cached[Dep(w)] /\ cached[Dep(w)] # Pointer(v)
    BY <1>0, <1>2, <1>5, GotPointer
  <2>2. dep[w] # NoObject => dep[w] # Pointer(v)
    <3>1. CASE IsCached(v)
      <4>1. Pointer(v) = cached[Dep(v)]
        BY <1>5, <3>1, GotPointer
      <4> QED BY <1>0, <1>2, <1>5, <4>1 DEF PointersAreApart
    <3>2. CASE ~IsCached(v)
      BY <1>0, <1>5, <3>2, GotPointer DEF Free
    <3> QED BY <3>1, <3>2
  <2>3. \A o \in Objects \ {Pointer(v)} :
          /\ object'[o] = object[o] /\ (o \in fresh' => o \in fresh)
          /\ (o \in stray' <=> o \in stray)
    BY <1>5, GotPointer
  <2>4. Untouched(w)
    BY <1>1, <1>3, <1>5, <2>1, <2>2, <2>3 DEF Untouched
  <2> QED BY <1>0, <2>4, ToldStays
<1>6. CASE Writing(v) /\ UNCHANGED <<object, cached>> /\ Sent(v)
  <2>1. pc[v] # "idle" /\ dep[v] # NoObject
    BY <1>6 DEF Writing, Types, WorkerHasObject, Working
  <2>2. dep[v] # cached[Dep(w)]
    BY <1>0, <1>2, <2>1 DEF PointersAreApart
  <2>3. server'[Dep(w)] = server[Dep(w)] /\ fresh' \subseteq fresh
        /\ stray' \subseteq stray \union {dep[v]}
    BY <1>0, <1>2, <1>6, <2>1 DEF Sent, Written, Types, TypeOK
  <2>4. Untouched(w)
    BY <1>1, <1>6, <2>2, <2>3 DEF Untouched
  <2> QED BY <1>0, <2>4, ToldStays
<1>7. CASE pc[v] # "idle" /\ UNCHANGED server /\ \E c : GetDeployment(v, c)
  BY <1>5, <1>7
<1>8. \/ UNCHANGED <<server, client, stray>>
      \/ pc[v] # "idle" /\ UNCHANGED server /\ \E c : GetDeployment(v, c)
      \/ Writing(v) /\ UNCHANGED <<object, cached>> /\ Sent(v)
  BY ProcessSteps DEF Leaves
<1> QED BY <1>4, <1>6, <1>7, <1>8
-----------------------------------------------------------------------------
(* The worker's own steps.                                                  *)

\* Who is alone and gets an object that the server would accept has got the
\* truth, or what a failed update has left.
LEMMA FoundIsTrue ==
  ASSUME Types, PointersAreApart, AcceptedIsTrue, AloneIsAlone,
         NEW w \in alone, w \in Workers, pc[w] # "idle", ~Writing(w),
         NEW c, GetDeployment(w, c), Pointer(w) \in fresh'
  PROVE  \/ Found(w) = server[Dep(w)]
         \/ /\ Pointer(w) \in stray'
            /\ cached[Dep(w)] \in fresh \intersect stray
            /\ Found(w) = object[cached[Dep(w)]]
<1>1. CASE IsCached(w)
  <2>1. /\ Pointer(w) = cached[Dep(w)] /\ UNCHANGED <<fresh, stray>>
        /\ Dep(w) \in Deployments /\ Found(w) = object[cached[Dep(w)]]
    BY <1>1, GotPointer, BusyTypes DEF Found
  <2>2. Accepted(Dep(w)) /\ cached[Dep(w)] \in fresh
    BY <2>1 DEF AcceptedIsTrue, Accepted
  <2>3. ~ \E v \in Busy : Writing(v) /\ dep[v] = cached[Dep(w)]
    <3> SUFFICES ASSUME NEW v \in Busy, Writing(v), dep[v] = cached[Dep(w)] PROVE FALSE
      OBVIOUS
    <3>1. v \in Workers /\ v # w /\ dep[v] # NoObject
      BY DEF Busy, Writing, Types, WorkerHasObject, Working
    <3>2. Dep(w) = Dep(v)
      BY <2>1, <3>1 DEF PointersAreApart
    <3> QED BY <3>1, <3>2 DEF AloneIsAlone
  <2> QED BY <2>1, <2>2, <2>3 DEF Accepted
<1>2. CASE ~IsCached(w)
  BY <1>2 DEF Found
<1> QED BY <1>1, <1>2

\* What the worker relies on survives his own steps.
LEMMA ChangeTold ==
  ASSUME ReportInv, NEW w \in alone, w \in Workers, ChangeImage(w)
  PROVE  ToldTruly(w)'
<1>0. /\ Types /\ PointersAreApart /\ AcceptedIsTrue /\ AloneIsAlone /\ ToldTruly(w)
      /\ pc[w] = "change" /\ ~Writing(w) /\ UNCHANGED <<server, cur>>
  BY DEF ReportInv, ChangeImage, At, Writing
<1>1. CASE Ends(w, "complete", "failed")
  <2>1. pc'[w] = "complete" /\ result'[w] = "failed"
    BY <1>0, <1>1 DEF Ends, Goto, Types, TypeOK
  <2> QED BY <2>1 DEF ToldTruly, Replacing
<1>2. CASE /\ GetDeployment(w, [image |-> cur[w].image, previous |-> Found(w).image])
           /\ misled' = IF Pointer(w) \in stray' THEN misled \union {w} ELSE misled
           /\ Goto(w, "put") /\ UNCHANGED result
  <2> DEFINE c == [image |-> cur[w].image, previous |-> Found(w).image]
  <2>1. pc'[w] = "put" /\ result'[w] \notin {"success", "rolledBack"}
    BY <1>0, <1>2 DEF Goto, ToldTruly, Types, TypeOK
  <2>2. dep'[w] = Pointer(w) /\ object'[dep'[w]] = c
    BY <1>0, <1>2, GotPointer
  <2>3. w \notin misled' /\ Pointer(w) \in fresh' => Found(w) = server[Dep(w)]
    BY <1>0, <1>2, FoundIsTrue
  <2> QED BY <1>0, <2>1, <2>2, <2>3 DEF ToldTruly, Dep, Replacing
<1> QED BY <1>1, <1>2 DEF ChangeImage

LEMMA AgainTold ==
  ASSUME Types, NEW w \in Workers, Again(w),
         pc[w] \in {"rollback", "putBack"},
         result[w] \notin {"success", "rolledBack"},
         (w \notin misled => server[Dep(w)].previous \in {before[w], NoImage})',
         (cached[Dep(w)] \in fresh \intersect stray =>
            object[cached[Dep(w)]].previous = NoImage)'
  PROVE  ToldTruly(w)'
<1>1. CASE Ends(w, "complete", "stuck")
  <2>1. pc'[w] = "complete" /\ result'[w] = "stuck"
    BY <1>1 DEF Ends, Goto, Types, TypeOK
  <2> QED BY <2>1 DEF ToldTruly, Replacing
<1>2. CASE Goto(w, "rollback") /\ UNCHANGED result
  <2>1. pc'[w] = "rollback" /\ result'[w] \notin {"success", "rolledBack"}
    BY <1>2 DEF Goto, Types, TypeOK
  <2> QED BY <2>1 DEF ToldTruly
<1> QED BY <1>1, <1>2 DEF Again

LEMMA RollbackTold ==
  ASSUME ReportInv, NEW w \in alone, w \in Workers, Rollback(w)
  PROVE  ToldTruly(w)'
<1>0. /\ Types /\ PointersAreApart /\ AcceptedIsTrue /\ AloneIsAlone /\ ToldTruly(w)
      /\ pc[w] = "rollback" /\ ~Writing(w) /\ UNCHANGED <<server, cur, before, misled>>
      /\ Dep(w)' = Dep(w)
  BY DEF ReportInv, Rollback, At, Writing, Dep
<1>1. /\ result[w] \notin {"success", "rolledBack"}
      /\ w \notin misled => server[Dep(w)].previous \in {before[w], NoImage}
      /\ cached[Dep(w)] \in fresh \intersect stray => object[cached[Dep(w)]].previous = NoImage
  BY <1>0 DEF ToldTruly, Replacing
<1>2. CASE Again(w) /\ UNCHANGED <<dep, client, stray>>
  <2>1. (cached[Dep(w)] \in fresh \intersect stray => object[cached[Dep(w)]].previous = NoImage)'
    BY <1>0, <1>1, <1>2 DEF client
  <2> QED BY <1>0, <1>1, <1>2, <2>1, AgainTold
<1>3. CASE /\ Found(w).previous = NoImage
           /\ GetDeployment(w, Found(w)) /\ Again(w)
  <2>1. cached'[Dep(w)] = Pointer(w) /\ object'[Pointer(w)] = Found(w)
    BY <1>0, <1>3, GotPointer
  <2> QED BY <1>0, <1>1, <1>3, <2>1, AgainTold
<1>4. CASE /\ Found(w).previous # NoImage
           /\ GetDeployment(w, [image |-> Found(w).previous, previous |-> NoImage])
           /\ Goto(w, "putBack") /\ UNCHANGED result
  <2> DEFINE c == [image |-> Found(w).previous, previous |-> NoImage]
  <2>1. pc'[w] = "putBack" /\ result'[w] \notin {"success", "rolledBack"}
    BY <1>0, <1>1, <1>4 DEF Goto, Types, TypeOK
  <2>2. dep'[w] = Pointer(w) /\ object'[Pointer(w)] = c /\ cached'[Dep(w)] = Pointer(w)
    BY <1>0, <1>4, GotPointer
  <2>3. Pointer(w) \in fresh' => Found(w) = server[Dep(w)]
    BY <1>0, <1>1, <1>4, FoundIsTrue
  <2>4. w \notin misled /\ Pointer(w) \in fresh' => Found(w).previous = before[w]
    BY <1>1, <1>4, <2>3
  <2>5. c.previous = NoImage /\ c.image = Found(w).previous
    OBVIOUS
  <2> HIDE DEF c
  <2> QED BY <1>0, <1>1, <2>1, <2>2, <2>4, <2>5 DEF ToldTruly, Replacing
<1> QED BY <1>2, <1>3, <1>4 DEF Rollback

LEMMA PutTold ==
  ASSUME ReportInv, NEW w \in alone, w \in Workers, Put(w)
  PROVE  ToldTruly(w)'
<1>0. Types /\ ToldTruly(w) /\ pc[w] = "put" /\ Dep(w) \in Deployments
      /\ UNCHANGED <<cur, misled, object, cached>> /\ Dep(w)' = Dep(w)
  BY BusyTypes DEF ReportInv, Put, At, Dep
<1>1. CASE /\ Update(w) /\ Goto(w, "check") /\ UNCHANGED <<result, stray>>
           /\ before' = [before EXCEPT ![w] = server[Dep(w)].image]
  <2>1. pc'[w] = "check" /\ result'[w] \notin {"success", "rolledBack"}
        /\ before'[w] = server[Dep(w)].image
    BY <1>0, <1>1 DEF Goto, ToldTruly, Types, TypeOK
  <2>2. server'[Dep(w)] = object[dep[w]] /\ dep[w] \in fresh /\ cached[Dep(w)] \notin fresh'
    BY <1>0, <1>1 DEF Update, Written, ObjectsOf, Types, TypeOK
  <2>3. /\ object[dep[w]].image = cur[w].image
        /\ w \notin misled => object[dep[w]].previous = server[Dep(w)].image
    BY <1>0, <2>2 DEF ToldTruly
  <2> QED BY <1>0, <2>1, <2>2, <2>3 DEF ToldTruly, Replacing
<1>2. CASE Ends(w, "complete", "failed")
  <2>1. pc'[w] = "complete" /\ result'[w] = "failed"
    BY <1>0, <1>2 DEF Ends, Goto, Types, TypeOK
  <2> QED BY <2>1 DEF ToldTruly, Replacing
<1> QED BY <1>1, <1>2 DEF Put

LEMMA PutBackTold ==
  ASSUME ReportInv, NEW w \in alone, w \in Workers, PutBack(w)
  PROVE  ToldTruly(w)'
<1>0. /\ Types /\ ToldTruly(w) /\ pc[w] = "putBack" /\ Dep(w) \in Deployments
      /\ UNCHANGED <<cur, before, misled, object, cached>> /\ Dep(w)' = Dep(w)
  BY BusyTypes DEF ReportInv, PutBack, At, Dep
<1>1. /\ result[w] \notin {"success", "rolledBack"}
      /\ w \notin misled => server[Dep(w)].previous \in {before[w], NoImage}
      /\ object[dep[w]].previous = NoImage
      /\ cached[Dep(w)] \in fresh \intersect stray => object[cached[Dep(w)]].previous = NoImage
  BY <1>0 DEF ToldTruly, Replacing
<1>2. CASE Update(w) /\ Ends(w, "complete", "rolledBack")
  <2>1. pc'[w] = "complete" /\ result'[w] = "rolledBack"
    BY <1>0, <1>2 DEF Ends, Goto, Types, TypeOK
  <2>2. server'[Dep(w)] = object[dep[w]] /\ dep[w] \in fresh
    BY <1>0, <1>2 DEF Update, Written, Types, TypeOK
  <2> QED BY <1>0, <2>1, <2>2 DEF ToldTruly, Replacing
<1>3. CASE UpdateFails(w) /\ Again(w)
  <2>1. CASE Written(w) /\ UNCHANGED stray
    <3>1. server'[Dep(w)] = object[dep[w]] /\ cached[Dep(w)] \notin fresh'
      BY <1>0, <2>1 DEF Written, ObjectsOf, Types, TypeOK
    <3> QED BY <1>0, <1>1, <1>3, <3>1, AgainTold
  <2>2. CASE UNCHANGED <<server, fresh>> /\ stray' \subseteq stray \union {dep[w]}
    BY <1>0, <1>1, <1>3, <2>2, AgainTold
  <2> QED BY <1>3, <2>1, <2>2 DEF UpdateFails
<1> QED BY <1>2, <1>3 DEF PutBack

\* Who starts has told nothing yet.
LEMMA NothingTold ==
  ASSUME NEW w, pc'[w] \in {"idle", "getImage", "change"}, result'[w] \notin {"success", "rolledBack"}
  PROVE  ToldTruly(w)'
  BY DEF ToldTruly, Replacing

LEMMA NextTold ==
  ASSUME ReportInv, Types', [Next]_vars, NEW w \in alone'
  PROVE  ToldTruly(w)'
<1>0. /\ Types /\ PointersAreApart /\ AloneIsAlone /\ w \in Workers
      /\ w \in alone => ToldTruly(w)
  BY DEF ReportInv, Types, TypeOK
<1>1. ASSUME Process(w) PROVE ToldTruly(w)'
  <2>1. ~Returns(w)
    BY DEF Returns
  <2>2. CASE Start(w)
    <3>1. pc[w] = "idle" /\ pc'[w] \in {"idle", "getImage"} /\ result' = result
      BY <1>0, <2>2 DEF Start, At, Goto, Types, TypeOK
    <3> QED BY <1>0, <3>1, NothingTold DEF ReportInv, ResultAtEnd
  <2>3. ~Start(w) => w \in alone
    BY <1>1, <2>1 DEF Process, GetNewImage, ChangeImage, Put, CheckPods, Rollback, PutBack,
                      Complete, history
  <2>4. CASE GetNewImage(w) /\ Goto(w, "change") /\ UNCHANGED result
    <3>1. pc[w] = "getImage" /\ pc'[w] = "change" /\ result' = result
      BY <1>0, <2>4 DEF GetNewImage, At, Goto, Types, TypeOK
    <3> QED BY <1>0, <3>1, NothingTold DEF ReportInv, ResultAtEnd
  <2>5. CASE CheckPods(w)
    <3>1. pc[w] = "check" /\ UNCHANGED <<server, client, cur, history>> /\ Dep(w)' = Dep(w)
          /\ ToldTruly(w)
      BY <1>0, <2>3, <2>5 DEF CheckPods, At, Dep, Start
    <3>2. CASE Ends(w, "complete", "success")
      <4>1. pc'[w] = "complete" /\ result'[w] = "success"
        BY <1>0, <3>2 DEF Ends, Goto, Types, TypeOK
      <4> QED BY <3>1, <4>1 DEF ToldTruly, Replacing
    <3>3. CASE Goto(w, "rollback") /\ UNCHANGED result
      <4>1. pc'[w] = "rollback" /\ result'[w] = result[w]
        BY <1>0, <3>3 DEF Goto, Types, TypeOK
      <4> QED BY <3>1, <4>1 DEF ToldTruly, Replacing, client, history
    <3> QED BY <2>5, <3>2, <3>3 DEF CheckPods
  <2>6. GetNewImage(w) => Goto(w, "change") /\ UNCHANGED result
    BY <2>1 DEF GetNewImage
  <2>7. ~Complete(w)
    BY <2>1 DEF Complete
  <2> QED BY <1>0, <1>1, <2>2, <2>3, <2>4, <2>5, <2>6, <2>7, ChangeTold, RollbackTold, PutTold,
             PutBackTold DEF Process
<1>2. ASSUME NEW v \in Workers, v # w, Process(v) PROVE ToldTruly(w)'
  BY <1>0, <1>2, OthersControl, OthersTold
<1>3. ASSUME NEW d \in Deployments, CacheExpires(d) \/ Touch(d) PROVE ToldTruly(w)'
  <2>1. /\ UNCHANGED <<server, object, locals, history>> /\ fresh' \subseteq fresh
        /\ \A e \in Deployments : cached'[e] \in {cached[e], NoObject}
    BY <1>0, <1>3 DEF CacheExpires, Touch, Types, TypeOK
  <2>2. w \in alone /\ Dep(w) \in Deployments
    <3>1. w \in alone
      BY <2>1 DEF history
    <3>2. pc[w] # "idle"
      BY <1>0, <3>1 DEF AloneIsAlone, Busy, Types, TypeOK
    <3> QED BY <1>0, <3>1, <3>2, BusyTypes
  <2>3. Untouched(w)
    BY <2>1, <2>2 DEF Untouched, locals, history
  <2> QED BY <1>0, <2>2, <2>3, ToldStays
<1>4. ~Crash
  BY DEF Crash
<1>5. CASE UNCHANGED vars
  BY <1>0, <1>5, ToldStays DEF vars, client, locals, history, bounds, Untouched
<1> QED BY <1>1, <1>2, <1>3, <1>4, <1>5 DEF Next

LEMMA NextEnd == Types /\ ResultAtEnd /\ [Next]_vars => ResultAtEnd'
<1> SUFFICES ASSUME Types, ResultAtEnd, [Next]_vars, NEW w \in Workers, result'[w] # "none"
             PROVE  pc'[w] = "complete"
  BY DEF ResultAtEnd
<1> USE DEF ResultAtEnd, Types, TypeOK
<1>1. ASSUME Process(w) PROVE pc'[w] = "complete"
  BY <1>1 DEF Process, Start, GetNewImage, ChangeImage, Put, CheckPods, Rollback, PutBack,
              Complete, Again, Returns, Ends, Goto, At
<1>2. ASSUME NEW v \in Workers, v # w, Process(v) PROVE pc'[w] = "complete"
  BY <1>2, OthersControl
<1>3. ASSUME UNCHANGED <<pc, result>> PROVE pc'[w] = "complete"
  BY <1>3
<1>4. ~Crash
  BY DEF Crash
<1> QED BY <1>1, <1>2, <1>3, <1>4 DEF Next, CacheExpires, Touch, locals, vars

LEMMA NextReport == ReportInv /\ [Next]_vars => ReportInv'
<1> SUFFICES ASSUME ReportInv, [Next]_vars PROVE ReportInv'
  OBVIOUS
<1>1. Types' /\ PointersAreApart' /\ AcceptedIsTrue' /\ AloneIsAlone' /\ ResultAtEnd'
  BY NextTypes, NextApart, NextAccepted, NextAlone, NextEnd DEF ReportInv
<1>2. \A w \in alone' : ToldTruly(w)'
  BY <1>1, NextTold
<1> QED BY <1>1, <1>2 DEF ReportInv

\* As long as the API server would accept an object of the cache, it says what
\* is deployed, or a worker is about to write it, or it is left of an update that
\* has failed without a conflict: with any number of workers, also when several
\* of them are at one deployment (client.go 106-123, 168-183, 255-279).
THEOREM CacheIsTrusted == Spec => []AcceptedIsTrue
<1>1. ReportInv => AcceptedIsTrue
  BY DEF ReportInv
<1> QED BY <1>1, InitReport, NextReport, PTL DEF Spec

\* What a worker tells about its task is true when it tells it, if its task has
\* overlapped no other one for its deployment: after a success the image is
\* deployed, and after a rollback the one before is deployed again unless the
\* task had taken what a failed update left for it (main.go 305-328, 337-350,
\* client.go 168-183, 242-284).
THEOREM ReportsAreTrue == Spec => []ReportIsTrue
<1>1. ReportInv => ReportIsTrue
  BY DEF ReportInv, ReportIsTrue, ToldTruly
<1> QED BY <1>1, InitReport, NextReport, PTL DEF Spec
=============================================================================
