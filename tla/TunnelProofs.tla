----------------------------- MODULE TunnelProofs -----------------------------
(***************************************************************************)
(* For any profiles, devices, keys, pool, grants and number of kills: the  *)
(* two ends of the tunnel agree with themselves at rest, and no step gives *)
(* a running tunnel another profile.                                       *)
(*                                                                         *)
(* The invariant of the appliance says what each copy of the profile is    *)
(* while a plan is carried out: a copy the rest of the plan still writes   *)
(* may be anything the action could have left, one that it wrote is the    *)
(* candidate's, one outside the plan is the old one.  A rollback may put   *)
(* the tunnel back only because the files and the tunnel it found were the *)
(* configuration's.  The plans are sequences: what is used of them (Shape, *)
(* UndoShape) is proved first, one plan at a time.                         *)
(***************************************************************************)
EXTENDS MCTunnel, WireGuardPeersProofs, Sequences

-----------------------------------------------------------------------------
(* Plans.                                                                  *)

\* The tuples of at most six steps: what Tail and ToSet make of them.
LEMMA Tails ==
    /\ \A a : Tail(<<a>>) = <<>>
    /\ \A a, b : Tail(<<a, b>>) = <<b>>
    /\ \A a, b, c : Tail(<<a, b, c>>) = <<b, c>>
    /\ \A a, b, c, d : Tail(<<a, b, c, d>>) = <<b, c, d>>
    /\ \A a, b, c, d, e : Tail(<<a, b, c, d, e>>) = <<b, c, d, e>>
    /\ \A a, b, c, d, e, f : Tail(<<a, b, c, d, e, f>>) = <<b, c, d, e, f>>
  OBVIOUS

LEMMA Sets ==
    /\ Assist!ToSet(<<>>) = {}
    /\ \A a : Assist!ToSet(<<a>>) = {a}
    /\ \A a, b : Assist!ToSet(<<a, b>>) = {a, b}
    /\ \A a, b, c : Assist!ToSet(<<a, b, c>>) = {a, b, c}
    /\ \A a, b, c, d : Assist!ToSet(<<a, b, c, d>>) = {a, b, c, d}
    /\ \A a, b, c, d, e : Assist!ToSet(<<a, b, c, d, e>>) = {a, b, c, d, e}
    /\ \A a, b, c, d, e, f : Assist!ToSet(<<a, b, c, d, e, f>>) = {a, b, c, d, e, f}
<1>1. Assist!ToSet(<<>>) = {}
  BY DEF Assist!ToSet
<1>2. ASSUME NEW a PROVE Assist!ToSet(<<a>>) = {a}
  BY DEF Assist!ToSet
<1>3. ASSUME NEW a, NEW b PROVE Assist!ToSet(<<a, b>>) = {a, b}
  BY DEF Assist!ToSet
<1>4. ASSUME NEW a, NEW b, NEW c PROVE Assist!ToSet(<<a, b, c>>) = {a, b, c}
  BY DEF Assist!ToSet
<1>5. ASSUME NEW a, NEW b, NEW c, NEW d PROVE Assist!ToSet(<<a, b, c, d>>) = {a, b, c, d}
  BY DEF Assist!ToSet
<1>6. ASSUME NEW a, NEW b, NEW c, NEW d, NEW e
      PROVE  Assist!ToSet(<<a, b, c, d, e>>) = {a, b, c, d, e}
  BY DEF Assist!ToSet
<1>7. ASSUME NEW a, NEW b, NEW c, NEW d, NEW e, NEW f
      PROVE  Assist!ToSet(<<a, b, c, d, e, f>>) = {a, b, c, d, e, f}
  BY DEF Assist!ToSet
<1> QED
  BY <1>1, <1>2, <1>3, <1>4, <1>5, <1>6, <1>7

\* What is known of the steps that are left of a plan, by the next one.
Shape(c, q, t) ==
    /\ t \in Seq(Assist!Step)
    /\ t # <<>> =>
       /\ Tail(t) \in Assist!Rests(c, q)
       /\ Head(t) \in Assist!Step /\ Assist!ToSet(t) = {Head(t)} \cup Assist!ToSet(Tail(t))
       /\ Head(t) = "up" =>
            /\ Tail(t) = <<>> /\ q.action \in Assist!Activating
            /\ {"keyfile", "up"} \subseteq Assist!ToSet(Assist!Plan(c, q))
                 /\ (q.action = "save" => c.enabled)
       /\ Head(t) = "enable" =>
            /\ q.action = "register-connect"
                 /\ {"keyfile", "up"} \subseteq Assist!ToSet(Tail(t))
            /\ "enable" \notin Assist!ToSet(Tail(t))
       /\ Head(t) = "ask" =>
            q.action = "auto-register"
              /\ {"keyfile", "recovery"} \subseteq Assist!ToSet(Tail(t))
       /\ Head(t) = "keyfile" =>
            /\ q.action \notin {"generate-identity", "delete-profile"}
            /\ "forget" \notin Assist!ToSet(t) /\ "keyfile" \in Assist!ToSet(Assist!Plan(c, q))
            /\ q.action = "boot" => c.profile # None
       /\ Head(t) = "recovery" => "recovery" \in Assist!ToSet(Assist!Plan(c, q))
       /\ Head(t) = "forget" =>
            q.action = "delete-profile"
              /\ {"forget", "down"} \subseteq Assist!ToSet(Assist!Plan(c, q))
       /\ Head(t) = "down" =>
            /\ q.action \in {"disable", "delete-profile"}
                 /\ "down" \in Assist!ToSet(Assist!Plan(c, q))
            /\ {"up", "down"} \cap Assist!ToSet(Tail(t)) = {}
       /\ Head(t) = "bounce" => "up" \in Assist!ToSet(Tail(t))
       /\ Head(t) \notin {"old-keyfile", "old-recovery", "old-reply", "old-tunnel"}
       /\ {"up", "down"} \cap Assist!ToSet(Assist!Plan(c, q)) # {}
            /\ {"up", "down"} \cap Assist!ToSet(t) = {} =>
            q.action = "delete-profile"

LEMMA RestShapes ==
    ASSUME NEW c \in Assist!Config, NEW q \in Assist!Request, NEW t \in Assist!Rests(c, q)
    PROVE  Shape(c, q, t)
<1>a. q.action \in Assist!Action \cup {"boot"}
  BY DEF Assist!Request
<1>e. t = <<>> => Shape(c, q, t)
  BY DEF Shape
<1>1. CASE q.action = "generate-identity"
  <2>1. /\ Assist!Plan(c, q) = <<"identity">>
        /\ Assist!Rests(c, q) = {<<"identity">>, <<>>}
    BY <1>1 DEF Assist!Rests, Assist!Plan, Assist!IfProfile
  <2>2. CASE t = <<"identity">>
    BY <1>1, <2>1, <2>2, Tails, Sets DEF Shape, Assist!Step, Assist!Activating
  <2> QED
    BY <2>1, <2>2, <1>e
<1>2. CASE q.action = "register"
  <2>1. /\ Assist!Plan(c, q) = <<"keyfile", "recovery", "reply">>
        /\ Assist!Rests(c, q) = {<<"keyfile", "recovery", "reply">>, <<"recovery", "reply">>,
                          <<"reply">>, <<>>}
    BY <1>2 DEF Assist!Rests, Assist!Plan, Assist!IfProfile
  <2>2. CASE t = <<"keyfile", "recovery", "reply">>
    BY <1>2, <2>1, <2>2, Tails, Sets DEF Shape, Assist!Step, Assist!Activating
  <2>3. CASE t = <<"recovery", "reply">>
    BY <1>2, <2>1, <2>3, Tails, Sets DEF Shape, Assist!Step, Assist!Activating
  <2>4. CASE t = <<"reply">>
    BY <1>2, <2>1, <2>4, Tails, Sets DEF Shape, Assist!Step, Assist!Activating
  <2> QED
    BY <2>1, <2>2, <2>3, <2>4, <1>e
<1>3. CASE q.action = "register-connect"
  <2>1. /\ Assist!Plan(c, q) = <<"keyfile", "recovery", "reply", "enable", "keyfile", "up">>
        /\ Assist!Rests(c, q) = {<<"keyfile", "recovery", "reply", "enable", "keyfile", "up">>,
                          <<"recovery", "reply", "enable", "keyfile", "up">>,
                          <<"reply", "enable", "keyfile", "up">>,
                          <<"enable", "keyfile", "up">>, <<"keyfile", "up">>, <<"up">>,
                          <<>>}
    BY <1>3 DEF Assist!Rests, Assist!Plan, Assist!IfProfile
  <2>2. CASE t = <<"keyfile", "recovery", "reply", "enable", "keyfile", "up">>
    <3>1. /\ Head(t) = "keyfile" /\ t # <<>> /\ t \in Seq(Assist!Step)
          /\ Tail(t) = <<"recovery", "reply", "enable", "keyfile", "up">>
          /\ Assist!ToSet(t) = {"keyfile", "recovery", "reply", "enable", "up"}
          /\ Assist!ToSet(Tail(t)) = {"recovery", "reply", "enable", "keyfile", "up"}
      BY <2>2, Tails, Sets DEF Assist!Step
    <3>2. "keyfile" \in Assist!ToSet(Assist!Plan(c, q))
      BY <2>1, Sets
    <3> QED
      BY <1>3, <2>1, <3>1, <3>2 DEF Shape, Assist!Step
  <2>3. CASE t = <<"recovery", "reply", "enable", "keyfile", "up">>
    <3>1. /\ Head(t) = "recovery" /\ Tail(t) = <<"reply", "enable", "keyfile", "up">>
          /\ Assist!ToSet(t) = {"recovery", "reply", "enable", "keyfile", "up"}
          /\ Assist!ToSet(Tail(t)) = {"reply", "enable", "keyfile", "up"}
          /\ t # <<>> /\ t \in Seq(Assist!Step)
      BY <2>3, Tails, Sets DEF Assist!Step
    <3>2. {"keyfile", "recovery", "up"} \subseteq Assist!ToSet(Assist!Plan(c, q))
      BY <2>1, Sets
    <3> QED
      BY <1>3, <2>1, <3>1, <3>2 DEF Shape, Assist!Step, Assist!Activating
  <2>4. CASE t = <<"reply", "enable", "keyfile", "up">>
    <3>1. /\ Head(t) = "reply" /\ Tail(t) = <<"enable", "keyfile", "up">>
          /\ Assist!ToSet(t) = {"reply", "enable", "keyfile", "up"}
          /\ Assist!ToSet(Tail(t)) = {"enable", "keyfile", "up"}
          /\ t # <<>> /\ t \in Seq(Assist!Step)
      BY <2>4, Tails, Sets DEF Assist!Step
    <3>2. {"keyfile", "recovery", "up"} \subseteq Assist!ToSet(Assist!Plan(c, q))
      BY <2>1, Sets
    <3> QED
      BY <1>3, <2>1, <3>1, <3>2 DEF Shape, Assist!Step, Assist!Activating
  <2>5. CASE t = <<"enable", "keyfile", "up">>
    <3>1. /\ Head(t) = "enable" /\ Tail(t) = <<"keyfile", "up">>
          /\ Assist!ToSet(t) = {"enable", "keyfile", "up"}
          /\ Assist!ToSet(Tail(t)) = {"keyfile", "up"}
          /\ t # <<>> /\ t \in Seq(Assist!Step)
      BY <2>5, Tails, Sets DEF Assist!Step
    <3>2. {"keyfile", "recovery", "up"} \subseteq Assist!ToSet(Assist!Plan(c, q))
      BY <2>1, Sets
    <3> QED
      BY <1>3, <2>1, <3>1, <3>2 DEF Shape, Assist!Step, Assist!Activating
  <2>6. CASE t = <<"keyfile", "up">>
    <3>1. /\ Head(t) = "keyfile" /\ Tail(t) = <<"up">> /\ t # <<>>
          /\ Assist!ToSet(t) = {"keyfile", "up"} /\ Assist!ToSet(Tail(t)) = {"up"}
               /\ t \in Seq(Assist!Step)
      BY <2>6, Tails, Sets DEF Assist!Step
    <3>2. "keyfile" \in Assist!ToSet(Assist!Plan(c, q))
      BY <2>1, Sets
    <3> QED
      BY <1>3, <2>1, <3>1, <3>2 DEF Shape, Assist!Step
  <2>7. CASE t = <<"up">>
    <3>1. /\ Head(t) = "up" /\ Tail(t) = <<>>
          /\ Assist!ToSet(t) = {"up"}
          /\ Assist!ToSet(Tail(t)) = {}
          /\ t # <<>> /\ t \in Seq(Assist!Step)
      BY <2>7, Tails, Sets DEF Assist!Step
    <3>2. {"keyfile", "recovery", "up"} \subseteq Assist!ToSet(Assist!Plan(c, q))
      BY <2>1, Sets
    <3> QED
      BY <1>3, <2>1, <3>1, <3>2 DEF Shape, Assist!Step, Assist!Activating
  <2> QED
    BY <2>1, <2>2, <2>3, <2>4, <2>5, <2>6, <2>7, <1>e
<1>4. CASE q.action = "auto-register"
  <2>1. /\ Assist!Plan(c, q) = <<"identity", "ask", "reply", "keyfile", "recovery", "reply">>
        /\ Assist!Rests(c, q) = {<<"identity", "ask", "reply", "keyfile", "recovery", "reply">>,
                          <<"ask", "reply", "keyfile", "recovery", "reply">>,
                          <<"reply", "keyfile", "recovery", "reply">>,
                          <<"keyfile", "recovery", "reply">>, <<"recovery", "reply">>,
                          <<"reply">>, <<>>}
    BY <1>4 DEF Assist!Rests, Assist!Plan, Assist!IfProfile
  <2>2. CASE t = <<"identity", "ask", "reply", "keyfile", "recovery", "reply">>
    BY <1>4, <2>1, <2>2, Tails, Sets DEF Shape, Assist!Step, Assist!Activating
  <2>3. CASE t = <<"ask", "reply", "keyfile", "recovery", "reply">>
    BY <1>4, <2>1, <2>3, Tails, Sets DEF Shape, Assist!Step, Assist!Activating
  <2>4. CASE t = <<"reply", "keyfile", "recovery", "reply">>
    BY <1>4, <2>1, <2>4, Tails, Sets DEF Shape, Assist!Step, Assist!Activating
  <2>5. CASE t = <<"keyfile", "recovery", "reply">>
    BY <1>4, <2>1, <2>5, Tails, Sets DEF Shape, Assist!Step, Assist!Activating
  <2>6. CASE t = <<"recovery", "reply">>
    BY <1>4, <2>1, <2>6, Tails, Sets DEF Shape, Assist!Step, Assist!Activating
  <2>7. CASE t = <<"reply">>
    BY <1>4, <2>1, <2>7, Tails, Sets DEF Shape, Assist!Step, Assist!Activating
  <2> QED
    BY <2>1, <2>2, <2>3, <2>4, <2>5, <2>6, <2>7, <1>e
<1>5. CASE q.action = "delete-profile"
  <2>1. /\ Assist!Plan(c, q) = <<"down", "forget", "recovery">>
        /\ Assist!Rests(c, q) = {<<"down", "forget", "recovery">>, <<"forget", "recovery">>,
                          <<"recovery">>, <<>>}
    BY <1>5 DEF Assist!Rests, Assist!Plan, Assist!IfProfile
  <2>2. CASE t = <<"down", "forget", "recovery">>
    BY <1>5, <2>1, <2>2, Tails, Sets DEF Shape, Assist!Step, Assist!Activating
  <2>3. CASE t = <<"forget", "recovery">>
    BY <1>5, <2>1, <2>3, Tails, Sets DEF Shape, Assist!Step, Assist!Activating
  <2>4. CASE t = <<"recovery">>
    BY <1>5, <2>1, <2>4, Tails, Sets DEF Shape, Assist!Step, Assist!Activating
  <2> QED
    BY <2>1, <2>2, <2>3, <2>4, <1>e
<1>6. CASE q.action = "restart"
  <2>1. /\ Assist!Plan(c, q) = <<"keyfile", "bounce", "up">>
        /\ Assist!Rests(c, q) =
             {<<"keyfile", "bounce", "up">>, <<"bounce", "up">>, <<"up">>, <<>>}
    BY <1>6 DEF Assist!Rests, Assist!Plan, Assist!IfProfile
  <2>2. CASE t = <<"keyfile", "bounce", "up">>
    BY <1>6, <2>1, <2>2, Tails, Sets DEF Shape, Assist!Step, Assist!Activating
  <2>3. CASE t = <<"bounce", "up">>
    BY <1>6, <2>1, <2>3, Tails, Sets DEF Shape, Assist!Step, Assist!Activating
  <2>4. CASE t = <<"up">>
    BY <1>6, <2>1, <2>4, Tails, Sets DEF Shape, Assist!Step, Assist!Activating
  <2> QED
    BY <2>1, <2>2, <2>3, <2>4, <1>e
<1>7. CASE q.action = "save" /\ c.enabled
  <2>1. /\ Assist!Plan(c, q) = <<"keyfile", "recovery", "up">>
        /\ Assist!Rests(c, q) =
             {<<"keyfile", "recovery", "up">>, <<"recovery", "up">>, <<"up">>,
                          <<>>}
    BY <1>7 DEF Assist!Rests, Assist!Plan, Assist!IfProfile
  <2>2. CASE t = <<"keyfile", "recovery", "up">>
    BY <1>7, <2>1, <2>2, Tails, Sets DEF Shape, Assist!Step, Assist!Activating
  <2>3. CASE t = <<"recovery", "up">>
    BY <1>7, <2>1, <2>3, Tails, Sets DEF Shape, Assist!Step, Assist!Activating
  <2>4. CASE t = <<"up">>
    BY <1>7, <2>1, <2>4, Tails, Sets DEF Shape, Assist!Step, Assist!Activating
  <2> QED
    BY <2>1, <2>2, <2>3, <2>4, <1>e
<1>8. CASE q.action = "save" /\ ~c.enabled
  <2>1. /\ Assist!Plan(c, q) = <<"keyfile", "recovery">>
        /\ Assist!Rests(c, q) = {<<"keyfile", "recovery">>, <<"recovery">>, <<>>}
    BY <1>8 DEF Assist!Rests, Assist!Plan, Assist!IfProfile
  <2>2. CASE t = <<"keyfile", "recovery">>
    BY <1>8, <2>1, <2>2, Tails, Sets DEF Shape, Assist!Step, Assist!Activating
  <2>3. CASE t = <<"recovery">>
    BY <1>8, <2>1, <2>3, Tails, Sets DEF Shape, Assist!Step, Assist!Activating
  <2> QED
    BY <2>1, <2>2, <2>3, <1>e
<1>9. CASE q.action = "enable"
  <2>1. /\ Assist!Plan(c, q) = <<"keyfile", "up">>
        /\ Assist!Rests(c, q) = {<<"keyfile", "up">>, <<"up">>, <<>>}
    BY <1>9 DEF Assist!Rests, Assist!Plan, Assist!IfProfile
  <2>2. CASE t = <<"keyfile", "up">>
    BY <1>9, <2>1, <2>2, Tails, Sets DEF Shape, Assist!Step, Assist!Activating
  <2>3. CASE t = <<"up">>
    BY <1>9, <2>1, <2>3, Tails, Sets DEF Shape, Assist!Step, Assist!Activating
  <2> QED
    BY <2>1, <2>2, <2>3, <1>e
<1>10. CASE q.action = "disable" /\ c.profile # None
  <2>1. /\ Assist!Plan(c, q) = <<"keyfile", "down">>
        /\ Assist!Rests(c, q) = {<<"keyfile", "down">>, <<"down">>, <<>>}
    BY <1>10 DEF Assist!Rests, Assist!Plan, Assist!IfProfile
  <2>2. CASE t = <<"keyfile", "down">>
    BY <1>10, <2>1, <2>2, Tails, Sets DEF Shape, Assist!Step, Assist!Activating
  <2>3. CASE t = <<"down">>
    BY <1>10, <2>1, <2>3, Tails, Sets DEF Shape, Assist!Step, Assist!Activating
  <2> QED
    BY <2>1, <2>2, <2>3, <1>e
<1>11. CASE q.action \in {"boot-on", "boot-off", "boot"} /\ c.profile # None
  <2>1. /\ Assist!Plan(c, q) = <<"keyfile">>
        /\ Assist!Rests(c, q) = {<<"keyfile">>, <<>>}
    BY <1>11 DEF Assist!Rests, Assist!Plan, Assist!IfProfile
  <2>2. CASE t = <<"keyfile">>
    BY <1>11, <2>1, <2>2, Tails, Sets DEF Shape, Assist!Step, Assist!Activating
  <2> QED
    BY <2>1, <2>2, <1>e
<1>12. CASE c.profile = None /\ q.action \in {"disable", "boot-on", "boot-off", "boot"}
  BY <1>12, <1>e DEF Assist!Rests
<1> QED
  BY <1>a, <1>1, <1>2, <1>3, <1>4, <1>5, <1>6, <1>7, <1>8, <1>9, <1>10, <1>11, <1>12
     DEF Assist!Action, Assist!Registering

LEMMA PlanFirst == ASSUME NEW c \in Assist!Config, NEW q \in Assist!Request
    PROVE Assist!Plan(c, q) \in Assist!Rests(c, q)
  BY DEF Assist!Plan, Assist!Rests, Assist!IfProfile, Assist!Request, Assist!Action,
     Assist!Registering

\* What the plans write, by the action.
LEMMA PlanSets ==
    ASSUME NEW c \in Assist!Config, NEW q \in Assist!Request
    PROVE  LET plan == Assist!ToSet(Assist!Plan(c, q))
           IN  /\ plan \cap {"keyfile", "forget"} = {} =>
                    \/ q.action = "generate-identity"
                    \/ q.action \in {"disable", "boot-on", "boot-off", "boot"}
                         /\ c.profile = None
               /\ "recovery" \notin plan =>
                    q.action \notin Assist!Registering \cup {"auto-register", "save",
                      "delete-profile"}
               /\ plan \cap {"up", "down"} = {} =>
                    /\ q.action \notin {"enable", "restart", "register-connect",
                         "delete-profile"}
                    /\ q.action = "disable" => c.profile = None
                    /\ q.action = "save" => ~c.enabled
               /\ plan \cap {"up", "down"} # {} =>
                    /\ plan \cap {"keyfile", "forget"} # {}
                    /\ q.action \notin {"boot", "generate-identity"}
               /\ "enable" \in plan => q.action = "register-connect"
               /\ q.action = "register-connect" => "enable" \in plan
               /\ q.action \in {"generate-identity", "boot"} =>
                    plan \cap {"recovery", "forget", "up", "down"} = {}
               /\ q.action = "generate-identity" => "keyfile" \notin plan
<1>a. q.action \in Assist!Action \cup {"boot"}
  BY DEF Assist!Request
<1> DEFINE plan == Assist!ToSet(Assist!Plan(c, q))
<1>1. CASE q.action = "generate-identity"
  <2>1. plan = {"identity"}
    BY <1>1, Sets DEF Assist!Plan
  <2> QED
    BY <1>1, <2>1 DEF Assist!Registering
<1>2. CASE q.action \in Assist!Registering \cup {"auto-register"}
  <2>1. {"keyfile", "recovery"} \subseteq plan /\ "down" \notin plan
        /\ (q.action = "register-connect" => {"up", "enable"} \subseteq plan)
        /\ ("enable" \in plan => q.action = "register-connect")
    BY <1>2, Sets DEF Assist!Plan, Assist!Registering
  <2> QED
    BY <1>2, <2>1 DEF Assist!Registering
<1>3. CASE q.action = "delete-profile"
  <2>1. plan = {"down", "forget", "recovery"}
    BY <1>3, Sets DEF Assist!Plan
  <2> QED
    BY <1>3, <2>1 DEF Assist!Registering
<1>4. CASE q.action \in {"restart", "enable"}
  <2>1. {"keyfile", "up"} \subseteq plan /\ "enable" \notin plan
    BY <1>4, Sets DEF Assist!Plan
  <2> QED
    BY <1>4, <2>1 DEF Assist!Registering
<1>5. CASE q.action = "save"
  <2>1. {"keyfile", "recovery"} \subseteq plan /\ (c.enabled <=> "up" \in plan)
        /\ "down" \notin plan /\ "enable" \notin plan
    BY <1>5, Sets DEF Assist!Plan
  <2> QED
    BY <1>5, <2>1 DEF Assist!Registering
<1>6. CASE q.action \in {"disable", "boot-on", "boot-off", "boot"} /\ c.profile = None
  <2>1. plan = {}
    BY <1>6, Sets DEF Assist!Plan, Assist!IfProfile
  <2> QED
    BY <1>6, <2>1 DEF Assist!Registering
<1>7. CASE q.action = "disable" /\ c.profile # None
  <2>1. plan = {"keyfile", "down"}
    BY <1>7, Sets DEF Assist!Plan, Assist!IfProfile
  <2> QED
    BY <1>7, <2>1 DEF Assist!Registering
<1>8. CASE q.action \in {"boot-on", "boot-off", "boot"} /\ c.profile # None
  <2>1. plan = {"keyfile"}
    BY <1>8, Sets DEF Assist!Plan, Assist!IfProfile
  <2> QED
    BY <1>8, <2>1 DEF Assist!Registering
<1> QED
  BY <1>a, <1>1, <1>2, <1>3, <1>4, <1>5, <1>6, <1>7, <1>8 DEF Assist!Action, Assist!Registering

\* What is known of the steps that are left of a rollback.
UndoShape(t) ==
    /\ t \in Seq(Assist!Step)
    /\ t = <<>> => Assist!ToSet(t) = {}
    /\ t # <<>> =>
       /\ Tail(t) \in Assist!Unwound /\ Assist!ToSet(t) = {Head(t)} \cup Assist!ToSet(Tail(t))
       /\ Head(t) \in {"old-keyfile", "old-recovery", "old-reply", "old-tunnel"}
       /\ Head(t) \notin Assist!ToSet(Tail(t)) /\ "old-tunnel" \in Assist!ToSet(t)
       /\ Head(t) = "old-tunnel" => Tail(t) = <<>>

LEMMA UndoShapes == ASSUME NEW t \in Assist!Unwound PROVE UndoShape(t)
<1>1. CASE t = <<"old-keyfile", "old-recovery", "old-reply", "old-tunnel">>
  <2>1. t # <<>> /\ Head(t) = "old-keyfile"
          /\ Tail(t) = <<"old-recovery", "old-reply", "old-tunnel">>
    BY <1>1, Tails
  <2>2. Assist!ToSet(t) = {"old-keyfile", "old-recovery", "old-reply", "old-tunnel"}
          /\ Assist!ToSet(Tail(t)) = {"old-recovery", "old-reply", "old-tunnel"}
    BY <1>1, <2>1, Sets
  <2>3. t \in Seq(Assist!Step)
    BY <1>1 DEF Assist!Step
  <2>4. Tail(t) \in Assist!Unwound
    BY <2>1 DEF Assist!Unwound
  <2>5. Assist!ToSet(t) = {Head(t)} \cup Assist!ToSet(Tail(t))
          /\ Head(t) \notin Assist!ToSet(Tail(t)) /\ "old-tunnel" \in Assist!ToSet(t)
    BY <2>1, <2>2
  <2>6. Head(t) = "old-tunnel" => Tail(t) = <<>>
    BY <2>1
  <2> HIDE <1>1
  <2> QED
    BY <2>1, <2>3, <2>4, <2>5, <2>6 DEF UndoShape
<1>2. CASE t = <<"old-recovery", "old-reply", "old-tunnel">>
  <2>1. t # <<>> /\ Head(t) = "old-recovery" /\ Tail(t) = <<"old-reply", "old-tunnel">>
    BY <1>2, Tails
  <2>2. Assist!ToSet(t) = {"old-recovery", "old-reply", "old-tunnel"}
          /\ Assist!ToSet(Tail(t)) = {"old-reply", "old-tunnel"}
    BY <1>2, <2>1, Sets
  <2>3. t \in Seq(Assist!Step)
    BY <1>2 DEF Assist!Step
  <2>4. Tail(t) \in Assist!Unwound
    BY <2>1 DEF Assist!Unwound
  <2>5. Assist!ToSet(t) = {Head(t)} \cup Assist!ToSet(Tail(t))
          /\ Head(t) \notin Assist!ToSet(Tail(t)) /\ "old-tunnel" \in Assist!ToSet(t)
    BY <2>1, <2>2
  <2>6. Head(t) = "old-tunnel" => Tail(t) = <<>>
    BY <2>1
  <2> HIDE <1>2
  <2> QED
    BY <2>1, <2>3, <2>4, <2>5, <2>6 DEF UndoShape
<1>3. CASE t = <<"old-reply", "old-tunnel">>
  <2>1. t # <<>> /\ Head(t) = "old-reply" /\ Tail(t) = <<"old-tunnel">>
    BY <1>3, Tails
  <2>2. Assist!ToSet(t) = {"old-reply", "old-tunnel"} /\ Assist!ToSet(Tail(t)) = {"old-tunnel"}
    BY <1>3, <2>1, Sets
  <2>3. t \in Seq(Assist!Step)
    BY <1>3 DEF Assist!Step
  <2>4. Tail(t) \in Assist!Unwound
    BY <2>1 DEF Assist!Unwound
  <2>5. Assist!ToSet(t) = {Head(t)} \cup Assist!ToSet(Tail(t))
          /\ Head(t) \notin Assist!ToSet(Tail(t)) /\ "old-tunnel" \in Assist!ToSet(t)
    BY <2>1, <2>2
  <2>6. Head(t) = "old-tunnel" => Tail(t) = <<>>
    BY <2>1
  <2> HIDE <1>3
  <2> QED
    BY <2>1, <2>3, <2>4, <2>5, <2>6 DEF UndoShape
<1>4. CASE t = <<"old-tunnel">>
  <2>1. t # <<>> /\ Head(t) = "old-tunnel" /\ Tail(t) = <<>>
    BY <1>4, Tails
  <2>2. Assist!ToSet(t) = {"old-tunnel"} /\ Assist!ToSet(Tail(t)) = {}
    BY <1>4, <2>1, Sets
  <2>3. t \in Seq(Assist!Step)
    BY <1>4 DEF Assist!Step
  <2>4. Tail(t) \in Assist!Unwound
    BY <2>1 DEF Assist!Unwound
  <2>5. Assist!ToSet(t) = {Head(t)} \cup Assist!ToSet(Tail(t))
          /\ Head(t) \notin Assist!ToSet(Tail(t)) /\ "old-tunnel" \in Assist!ToSet(t)
    BY <2>1, <2>2
  <2>6. Head(t) = "old-tunnel" => Tail(t) = <<>>
    BY <2>1
  <2> HIDE <1>4
  <2> QED
    BY <2>1, <2>3, <2>4, <2>5, <2>6 DEF UndoShape
<1>5. CASE t = <<>>
  BY <1>5, Tails, Sets DEF UndoShape, Assist!Unwound, Assist!Step
<1> QED
  BY <1>1, <1>2, <1>3, <1>4, <1>5 DEF Assist!Unwound

-----------------------------------------------------------------------------
(* Candidates and the types of what a run carries.                         *)

\* What an action works towards, by its name.
LEMMA CandidateType ==
    ASSUME Assist!TypeOK, NEW q \in Assist!Request
    PROVE  /\ Assist!Candidate(q) \in Assist!Config
           /\ q.action \in Assist!Registering \cup {"save", "delete-profile"} =>
                Assist!Candidate(q).profile = q.profile
           /\ q.action \notin Assist!Registering \cup {"save", "delete-profile"} =>
                Assist!Candidate(q).profile = config.profile
           /\ q.action \in {"enable", "restart"} => Assist!Candidate(q).enabled
           /\ q.action \in Assist!Registering \cup {"disable", "delete-profile", "boot"} =>
                ~Assist!Candidate(q).enabled
           /\ q.action \notin Assist!Registering \cup {"enable", "restart", "disable",
                "delete-profile", "boot"} =>
                Assist!Candidate(q).enabled = config.enabled
           /\ q.action \notin {"boot-on", "boot-off", "delete-profile"} =>
                Assist!Candidate(q).autostart = config.autostart
<1>1. config \in Assist!Config /\ q.profile \in Profiles \cup {None}
        /\ config.enabled \in BOOLEAN /\ config.autostart \in BOOLEAN
  BY DEF Assist!TypeOK, Assist!Config, Assist!Request
<1>2. Assist!Candidate(q).enabled \in BOOLEAN
  BY <1>1 DEF Assist!Candidate, Assist!Registering
<1>3. Assist!Candidate(q).autostart \in BOOLEAN
  BY <1>1 DEF Assist!Candidate
<1>4. Assist!Candidate(q).profile \in Profiles \cup {None}
  BY <1>1 DEF Assist!Candidate, Assist!Config
<1>5. Assist!Candidate(q) \in Assist!Config
  BY <1>2, <1>3, <1>4 DEF Assist!Candidate, Assist!Config
<1>6. q.action \in Assist!Registering \cup {"save", "delete-profile"} =>
        Assist!Candidate(q).profile = q.profile
  BY DEF Assist!Candidate
<1>7. q.action \notin Assist!Registering \cup {"save", "delete-profile"} =>
        Assist!Candidate(q).profile = config.profile
  BY DEF Assist!Candidate
<1>8. q.action \in {"enable", "restart"} => Assist!Candidate(q).enabled
  BY DEF Assist!Candidate
<1>9. q.action \in Assist!Registering \cup {"disable", "delete-profile", "boot"} =>
        ~Assist!Candidate(q).enabled
  BY DEF Assist!Candidate, Assist!Registering
<1>10. q.action \notin Assist!Registering \cup {"enable", "restart", "disable",
         "delete-profile", "boot"} =>
                Assist!Candidate(q).enabled = config.enabled
  BY <1>1 DEF Assist!Candidate
<1>11. q.action \notin {"boot-on", "boot-off", "delete-profile"} =>
         Assist!Candidate(q).autostart = config.autostart
  BY <1>1 DEF Assist!Candidate
<1> QED
  BY <1>5, <1>6, <1>7, <1>8, <1>9, <1>10, <1>11

\* The candidate of a request that is permitted.
LEMMA AimsOfCandidate ==
    ASSUME Assist!TypeOK, NEW q \in Assist!Request, Assist!WellFormed(q),
             Assist!Permitted(config, q), config' = config,
           q.action = "boot" => ~config.autostart \/ config.profile = None,
           job'.request = q, job'.cand = Assist!Candidate(q)
    PROVE  Assist!Aims'
<1> DEFINE a == q.action
<1> USE CandidateType
<1>2. a \notin Assist!Registering \cup {"auto-register", "save", "delete-profile"} =>
             job'.cand.profile = config.profile
  OBVIOUS
<1>3. a = "delete-profile" => job'.cand.profile = None
  BY DEF Assist!WellFormed
<1>4. a \in {"enable", "restart"} => job'.cand.enabled
  OBVIOUS
<1>5. a \in {"register", "auto-register", "disable", "delete-profile", "boot"} =>
        ~job'.cand.enabled
  <2>1. a = "auto-register" => ~job'.cand.enabled
    BY DEF Assist!Permitted, Assist!Registering, Assist!TypeOK, Assist!Config
  <2> QED
    BY <2>1 DEF Assist!Registering
<1>6. a \in {"generate-identity", "boot-on", "boot-off", "save"} =>
             job'.cand.enabled = config.enabled
  BY DEF Assist!Registering
<1>7. a \notin {"boot-on", "boot-off", "delete-profile"} =>
             job'.cand.autostart = config.autostart
  OBVIOUS
<1> HIDE CandidateType
<1> QED
  BY <1>2, <1>3, <1>4, <1>5, <1>6, <1>7 DEF Assist!Aims

\* The fields of the process that holds the lock.
LEMMA JobFields ==
    ASSUME NEW j \in Assist!Job
    PROVE  /\ j # None /\ j.request \in Assist!Request /\ j.by \in {"mailbox", "cli", "boot"}
           /\ j.cand \in Assist!Config /\ j.old \in Assist!Copies /\ j.touched \in BOOLEAN
           /\ j.phase \in {"doing", "undoing", "answer", "publish"}
                /\ j.todo \in Seq(Assist!Step)
           /\ j.cand.enabled \in BOOLEAN /\ j.cand.autostart \in BOOLEAN
           /\ j.cand.profile \in Profiles \cup {None}
           /\ j.old.keyfile \in Assist!Keyfile \cup {None}
                /\ j.old.recovery \in Profiles \cup {None}
           /\ j.old.reply \in Profiles \cup {None} /\ j.old.tunnel \in Profiles \cup {None}
<1>1. j # None
  BY NoneIsNoProfile DEF Assist!NoneApart
<1>2. /\ j.request \in Assist!Request /\ j.by \in {"mailbox", "cli", "boot"}
      /\ j.cand \in Assist!Config /\ j.old \in Assist!Copies /\ j.touched \in BOOLEAN
      /\ j.phase \in {"doing", "undoing", "answer", "publish"} /\ j.todo \in Seq(Assist!Step)
  BY DEF Assist!Job
<1> QED
  BY <1>1, <1>2 DEF Assist!Config, Assist!Copies

\* The keyfile of a configuration.
LEMMA KeyfileOfType ==
    ASSUME NEW c \in Assist!Config
    PROVE  /\ Assist!KeyfileOf(c) \in Assist!Keyfile \cup {None}
           /\ Assist!KeyfileOf(c) = None <=> c.profile = None
           /\ Assist!KeyfileOf(c) # None =>
                Assist!KeyfileOf(c).profile = c.profile
                  /\ Assist!KeyfileOf(c).auto = (c.enabled /\ c.autostart)
<1>1. CASE c.profile = None
  BY <1>1 DEF Assist!KeyfileOf
<1>2. CASE c.profile # None
  <2>1. c.profile \in Profiles /\ (c.enabled /\ c.autostart) \in BOOLEAN
    BY <1>2 DEF Assist!Config
  <2>2. Assist!KeyfileOf(c) = [profile |-> c.profile, auto |-> c.enabled /\ c.autostart]
    BY <1>2 DEF Assist!KeyfileOf
  <2>3. Assist!KeyfileOf(c) \in Assist!Keyfile
    BY <2>1, <2>2 DEF Assist!Keyfile
  <2>4. Assist!KeyfileOf(c) # None
    BY <2>3, NoneIsNoProfile DEF Assist!NoneApart
  <2> QED
    BY <1>2, <2>2, <2>3, <2>4
<1> QED
  BY <1>1, <1>2

\* The next step taken off the list.
LEMMA DoneFields ==
    ASSUME NEW j \in Assist!Job, j.todo # <<>>
    PROVE  LET k == [j EXCEPT !.todo = Tail(@)]
           IN  /\ k \in Assist!Job /\ k.request = j.request /\ k.by = j.by /\ k.cand = j.cand
               /\ k.old = j.old /\ k.touched = j.touched /\ k.phase = j.phase
               /\ k.todo = Tail(j.todo)
<1>1. Tail(j.todo) \in Seq(Assist!Step)
  BY JobFields
<1> QED
  BY <1>1 DEF Assist!Job

\* The aims are about the configuration, the request and the candidate only.
LEMMA AimsKept ==
    ASSUME Assist!Aims, config' = config, job'.request = job.request, job'.cand = job.cand
    PROVE  Assist!Aims'
  BY DEF Assist!Aims

-----------------------------------------------------------------------------
(* The steps of a plan.                                                    *)

\* A step of a plan that is done: what holds of the rest of the plan.
LEMMA DoneDoing ==
    ASSUME Assist!IInv, job # None, job.phase = "doing", job.todo # <<>>,
             Head(job.todo) # "enable",
           job' = [job EXCEPT !.todo = Tail(@)], config' = config, disturbed' = disturbed,
           \/ keyfile' = keyfile /\ Head(job.todo) \notin {"keyfile", "forget"}
           \/ keyfile' = Assist!KeyfileOf(job.cand) /\ Head(job.todo) \in {"keyfile", "forget"},
           \/ recovery' = recovery /\ Head(job.todo) # "recovery"
           \/ recovery' = job.cand.profile /\ Head(job.todo) = "recovery",
           \/ tunnel' = tunnel /\ Head(job.todo) \notin {"up", "down"}
           \/ tunnel' = None
           \/ tunnel' = job.cand.profile /\ Head(job.todo) = "up"
    PROVE  job' \in Assist!Job /\ job'.request = job.request /\ job'.phase = "doing"
           /\ Assist!Doing' /\ Assist!KeyfileKnown' /\ Assist!OldIsConfigured'
<1> DEFINE t == job.todo
           h == Head(job.todo)
           r == Tail(job.todo)
           P == Assist!ToSet(Assist!Plan(config, job.request))
<1>1. job \in Assist!Job /\ config \in Assist!Config
  BY DEF Assist!IInv, Assist!TypeOK
<1>2. /\ job' \in Assist!Job /\ job'.request = job.request /\ job'.cand = job.cand
      /\ job'.old = job.old /\ job'.phase = job.phase /\ job'.todo = r
  BY <1>1, DoneFields
<1>3. Assist!Doing /\ Assist!KeyfileKnown /\ Assist!OldIsConfigured
  BY DEF Assist!IInv
<1>4. Shape(config, job.request, t)
  BY <1>1, <1>3, JobFields, RestShapes DEF Assist!Doing
<1>5. r \in Assist!Rests(config, job.request) /\ Assist!ToSet(t) = {h} \cup Assist!ToSet(r)
  BY <1>4 DEF Shape
<1>6. Assist!Aims /\ Assist!Aims'
  BY <1>2, <1>3, AimsKept DEF Assist!Doing
<1>7. /\ "enable" \in Assist!ToSet(r) => ~job.cand.enabled
      /\ job.request.action = "register-connect" =>
           job.cand.enabled = ("enable" \notin Assist!ToSet(r))
  BY <1>3, <1>5 DEF Assist!Doing, Assist!Left
<1>8. IF P \cap {"keyfile", "forget"} = {} THEN keyfile' = job.old.keyfile
      ELSE Assist!ToSet(r) \cap {"keyfile", "forget"} = {} =>
             keyfile' = Assist!KeyfileOf(job.cand)
  <2>1. CASE h \in {"keyfile", "forget"}
    <3>1. P \cap {"keyfile", "forget"} # {}
      BY <1>4, <2>1 DEF Shape
    <3> QED
      BY <2>1, <3>1
  <2>2. CASE h \notin {"keyfile", "forget"}
    <3>1. Assist!ToSet(r) \cap {"keyfile", "forget"} = {} =>
            Assist!ToSet(t) \cap {"keyfile", "forget"} = {}
      BY <1>5, <2>2
    <3> QED
      BY <1>3, <2>2, <3>1 DEF Assist!Doing, Assist!Left, Assist!Planned
  <2> QED
    BY <2>1, <2>2
<1>9. IF "recovery" \notin P THEN recovery' = job.old.recovery
      ELSE "recovery" \notin Assist!ToSet(r) => recovery' = job.cand.profile
  <2>1. CASE h = "recovery"
    <3>1. "recovery" \in P
      BY <1>4, <2>1 DEF Shape
    <3> QED
      BY <2>1, <3>1
  <2>2. CASE h # "recovery"
    <3>1. "recovery" \notin Assist!ToSet(r) => "recovery" \notin Assist!ToSet(t)
      BY <1>5, <2>2
    <3> QED
      BY <1>3, <2>2, <3>1 DEF Assist!Doing, Assist!Left, Assist!Planned
  <2> QED
    BY <2>1, <2>2
<1>10. IF P \cap {"up", "down"} # {} /\ Assist!ToSet(r) \cap {"up", "down"} = {}
       THEN Assist!RunsAs(tunnel', job.cand)
       ELSE Assist!Sound("tunnel") => Assist!RunsAs(tunnel', config)
  <2>1. CASE tunnel' = None
    BY <2>1 DEF Assist!RunsAs
  <2>2. CASE tunnel' = tunnel /\ h \notin {"up", "down"}
    <3>1. (Assist!ToSet(r) \cap {"up", "down"} = {}) <=>
            (Assist!ToSet(t) \cap {"up", "down"} = {})
      BY <1>5, <2>2
    <3> QED
      BY <1>3, <2>2, <3>1 DEF Assist!Doing, Assist!Left, Assist!Planned
  <2>3. CASE tunnel' = job.cand.profile /\ h = "up"
    <3>1. /\ r = <<>> /\ job.request.action \in Assist!Activating /\ "up" \in P
          /\ job.request.action = "save" => config.enabled
      BY <1>4, <2>3 DEF Shape
    <3>2. Assist!ToSet(r) = {}
      BY <3>1, Sets
    <3>3. job.request.action = "register-connect" => job.cand.enabled
      BY <1>7, <3>2
    <3>4. job.request.action \in {"enable", "restart", "save"} => job.cand.enabled
      BY <1>6, <3>1 DEF Assist!Aims
    <3>5. job.cand.enabled
      BY <3>1, <3>3, <3>4 DEF Assist!Activating
    <3> QED
      BY <2>3, <3>1, <3>2, <3>5 DEF Assist!RunsAs
  <2> QED
    BY <2>1, <2>2, <2>3
<1>11. Assist!Doing'
  BY <1>2, <1>5, <1>6, <1>7, <1>8, <1>9, <1>10 DEF Assist!Doing, Assist!Left, Assist!Planned,
     Assist!RunsAs, Assist!Sound
<1>12. Assist!KeyfileKnown'
  <2>1. CASE keyfile' = keyfile
    BY <1>2, <1>3, <1>6, <2>1 DEF Assist!KeyfileKnown
  <2>2. CASE keyfile' = Assist!KeyfileOf(job.cand) /\ h \in {"keyfile", "forget"}
    <3>1. job.cand \in Assist!Config
      BY <1>1, JobFields
    <3>2. CASE keyfile' = None
      <4>1. job.cand.profile = None
        BY <2>2, <3>1, <3>2, KeyfileOfType
      <4>2. h = "keyfile" /\ job.request.action = "boot" => config.profile # None
        BY <1>4 DEF Shape
      <4>3. h = "forget" => job.request.action = "delete-profile"
        BY <1>4 DEF Shape
      <4>4. job.request.action = "boot" => job.cand.profile = config.profile
        BY <1>6 DEF Assist!Aims, Assist!Registering
      <4> QED
        BY <1>2, <2>2, <3>2, <4>1, <4>2, <4>3, <4>4 DEF Assist!KeyfileKnown
    <3>3. CASE keyfile' # None
      <4>1. keyfile'.profile = job.cand.profile /\ (keyfile'.auto => job.cand.enabled)
        BY <2>2, <3>1, <3>3, KeyfileOfType
      <4> QED
        BY <1>2, <1>6, <3>3, <4>1 DEF Assist!KeyfileKnown
    <3> QED
      BY <3>2, <3>3
  <2> QED
    BY <2>1, <2>2
<1>13. Assist!OldIsConfigured'
  BY <1>2, <1>3 DEF Assist!OldIsConfigured, Assist!Sound, Assist!RunsAs
<1> QED
  BY <1>2, <1>11, <1>12, <1>13

\* From a step that leaves a plan under way to the invariant.
LEMMA OnDoing ==
    ASSUME Assist!IInv, job' \in Assist!Job, job'.phase = "doing",
             Assist!WellFormed(job'.request),
           Assist!Doing', Assist!KeyfileKnown', Assist!OldIsConfigured',
           Assist!TypeOK', mailbox' = mailbox, disturbed' = disturbed
    PROVE  Assist!IInv'
<1>1. job' # None
  BY JobFields
<1> QED
  BY <1>1 DEF Assist!IInv, Assist!WellFormed

\* From a step that leaves a rollback under way to the invariant.
LEMMA OnUndoing ==
    ASSUME job' \in Assist!Job, job'.phase = "undoing", Assist!WellFormed(job'.request),
           Assist!Undoing', Assist!KeyfileKnown', Assist!OldIsConfigured', Assist!TypeOK',
           mailbox' = mailbox, mailbox # None => Assist!WellFormed(mailbox)
             /\ mailbox.action # "boot",
           "keyfile" \in disturbed' => "tunnel" \in disturbed'
    PROVE  Assist!IInv'
<1>1. job' # None
  BY JobFields
<1> QED
  BY <1>1 DEF Assist!IInv, Assist!WellFormed

\* Only a plan under way has its steps left, only a rollback those of a rollback.
LEMMA AtPhase ==
    ASSUME Assist!IInv, NEW s \in Assist!Step, Assist!At(s)
    PROVE  /\ job # None /\ job \in Assist!Job /\ job.todo # <<>> /\ Head(job.todo) = s
           /\ s \in {"old-keyfile", "old-recovery", "old-reply", "old-tunnel"} =>
                job.phase = "undoing"
           /\ s \notin {"old-keyfile", "old-recovery", "old-reply", "old-tunnel"} =>
                job.phase = "doing"
<1>1. job # None /\ job \in Assist!Job /\ job.todo # <<>> /\ Head(job.todo) = s
        /\ config \in Assist!Config
  BY DEF Assist!At, Assist!IInv, Assist!TypeOK
<1>2. CASE job.phase = "doing"
  <2>1. Shape(config, job.request, job.todo)
    BY <1>1, <1>2, JobFields, RestShapes DEF Assist!IInv, Assist!Doing
  <2> QED
    BY <1>1, <1>2, <2>1 DEF Shape
<1>3. CASE job.phase = "undoing"
  <2>1. UndoShape(job.todo)
    BY <1>1, <1>3, UndoShapes DEF Assist!IInv, Assist!Undoing
  <2> QED
    BY <1>1, <1>3, <2>1 DEF UndoShape
<1> QED
  BY <1>1, <1>2, <1>3, JobFields DEF Assist!IInv

LEMMA InstallProfileStep == ASSUME Assist!IInv, Assist!InstallProfile PROVE Assist!IInv'
<1>1. /\ job # None /\ job \in Assist!Job /\ job.todo # <<>> /\ Head(job.todo) = "keyfile"
      /\ job.phase = "doing"
  BY AtPhase DEF Assist!InstallProfile, Assist!Step
<1>2. /\ job' = [job EXCEPT !.todo = Tail(@)] /\ keyfile' = Assist!KeyfileOf(job.cand)
      /\ UNCHANGED <<config, recovery, tunnel, disturbed, mailbox>>
  BY DEF Assist!InstallProfile, Assist!Done, Assist!outside
<1>3. job' \in Assist!Job /\ job'.request = job.request /\ job'.phase = "doing"
      /\ Assist!Doing' /\ Assist!KeyfileKnown' /\ Assist!OldIsConfigured'
  BY <1>1, <1>2, DoneDoing
<1>4. Assist!TypeOK'
  BY <1>1, <1>3, JobFields, KeyfileOfType DEF Assist!IInv, Assist!TypeOK, Assist!InstallProfile,
     Assist!outside
<1> QED
  BY <1>1, <1>2, <1>3, <1>4, OnDoing DEF Assist!IInv

LEMMA InstallRecoveryStep == ASSUME Assist!IInv, Assist!InstallRecovery PROVE Assist!IInv'
<1>1. /\ job # None /\ job \in Assist!Job /\ job.todo # <<>> /\ Head(job.todo) = "recovery"
      /\ job.phase = "doing"
  BY AtPhase DEF Assist!InstallRecovery, Assist!Step
<1>2. /\ job' = [job EXCEPT !.todo = Tail(@)] /\ recovery' = job.cand.profile
      /\ UNCHANGED <<config, keyfile, tunnel, disturbed, mailbox>>
  BY DEF Assist!InstallRecovery, Assist!Done, Assist!outside
<1>3. job' \in Assist!Job /\ job'.request = job.request /\ job'.phase = "doing"
      /\ Assist!Doing' /\ Assist!KeyfileKnown' /\ Assist!OldIsConfigured'
  BY <1>1, <1>2, DoneDoing
<1>4. Assist!TypeOK'
  BY <1>1, <1>3, JobFields DEF Assist!IInv, Assist!TypeOK, Assist!InstallRecovery,
     Assist!outside
<1> QED
  BY <1>1, <1>2, <1>3, <1>4, OnDoing DEF Assist!IInv

LEMMA SaveReplyStep == ASSUME Assist!IInv, Assist!SaveReply PROVE Assist!IInv'
<1>1. /\ job # None /\ job \in Assist!Job /\ job.todo # <<>> /\ Head(job.todo) = "reply"
      /\ job.phase = "doing"
  BY AtPhase DEF Assist!SaveReply, Assist!Step
<1>2. /\ job' = [job EXCEPT !.todo = Tail(@)]
      /\ UNCHANGED <<config, keyfile, recovery, tunnel, disturbed, mailbox>>
  BY DEF Assist!SaveReply, Assist!Done, Assist!outside
<1>3. job' \in Assist!Job /\ job'.request = job.request /\ job'.phase = "doing"
      /\ Assist!Doing' /\ Assist!KeyfileKnown' /\ Assist!OldIsConfigured'
  BY <1>1, <1>2, DoneDoing
<1>4. Assist!TypeOK'
  BY <1>1, <1>3, JobFields DEF Assist!IInv, Assist!TypeOK, Assist!SaveReply, Assist!outside
<1> QED
  BY <1>1, <1>2, <1>3, <1>4, OnDoing DEF Assist!IInv

LEMMA EnsureIdentityStep == ASSUME Assist!IInv, Assist!EnsureIdentity PROVE Assist!IInv'
<1>1. /\ job # None /\ job \in Assist!Job /\ job.todo # <<>> /\ Head(job.todo) = "identity"
      /\ job.phase = "doing"
  BY AtPhase DEF Assist!EnsureIdentity, Assist!Step
<1>2. /\ job' = [job EXCEPT !.todo = Tail(@)]
      /\ UNCHANGED <<config, keyfile, recovery, tunnel, disturbed, mailbox>>
  BY DEF Assist!EnsureIdentity, Assist!Done, Assist!files
<1>3. job' \in Assist!Job /\ job'.request = job.request /\ job'.phase = "doing"
      /\ Assist!Doing' /\ Assist!KeyfileKnown' /\ Assist!OldIsConfigured'
  BY <1>1, <1>2, DoneDoing
<1>4. Assist!TypeOK'
  BY <1>1, <1>3, JobFields DEF Assist!IInv, Assist!TypeOK, Assist!EnsureIdentity, Assist!files
<1> QED
  BY <1>1, <1>2, <1>3, <1>4, OnDoing DEF Assist!IInv

\* The keyfile that "up" brings up is the candidate's.
LEMMA UpKeyfile ==
    ASSUME Assist!IInv, Assist!At("up")
    PROVE  /\ job.request.action \in Assist!Activating /\ keyfile = Assist!KeyfileOf(job.cand)
           /\ job.request.action = "save" => config.enabled
           /\ Assist!Sound("tunnel") => Assist!RunsAs(tunnel, config)
           /\ keyfile # None => keyfile.profile = job.cand.profile /\ job.cand.profile # None
<1>1. /\ job # None /\ job \in Assist!Job /\ job.todo # <<>> /\ Head(job.todo) = "up"
      /\ job.phase = "doing"
  BY AtPhase DEF Assist!Step
<1>2. Assist!Doing /\ config \in Assist!Config
  BY <1>1 DEF Assist!IInv, Assist!TypeOK
<1>3. Shape(config, job.request, job.todo)
  BY <1>1, <1>2, JobFields, RestShapes DEF Assist!Doing
<1>4. /\ Tail(job.todo) = <<>> /\ job.request.action \in Assist!Activating
      /\ {"keyfile", "up"} \subseteq Assist!Planned
           /\ (job.request.action = "save" => config.enabled)
      /\ Assist!Left = {"up"} \cup Assist!ToSet(Tail(job.todo))
  BY <1>1, <1>3 DEF Shape, Assist!Left, Assist!Planned
<1>5. Assist!Left = {"up"}
  BY <1>4, Sets
<1>6. keyfile = Assist!KeyfileOf(job.cand)
        /\ (Assist!Sound("tunnel") => Assist!RunsAs(tunnel, config))
  BY <1>2, <1>4, <1>5 DEF Assist!Doing
<1> QED
  BY <1>1, <1>4, <1>6, KeyfileOfType, JobFields

LEMMA TunnelUpStep == ASSUME Assist!IInv, Assist!TunnelUp PROVE Assist!IInv'
<1>1. /\ job # None /\ job \in Assist!Job /\ job.todo # <<>> /\ Head(job.todo) = "up"
      /\ job.phase = "doing"
  BY AtPhase DEF Assist!TunnelUp, Assist!Step
<1>2. /\ job' = [job EXCEPT !.todo = Tail(@)] /\ tunnel' = keyfile.profile /\ keyfile # None
      /\ UNCHANGED <<config, keyfile, recovery, disturbed, mailbox>>
  BY DEF Assist!TunnelUp, Assist!Done, Assist!outside, Assist!files
<1>3. tunnel' = job.cand.profile
  BY <1>2, UpKeyfile DEF Assist!TunnelUp
<1>4. job' \in Assist!Job /\ job'.request = job.request /\ job'.phase = "doing"
      /\ Assist!Doing' /\ Assist!KeyfileKnown' /\ Assist!OldIsConfigured'
  BY <1>1, <1>2, <1>3, DoneDoing
<1>5. Assist!TypeOK'
  BY <1>1, <1>3, <1>4, JobFields DEF Assist!IInv, Assist!TypeOK, Assist!TunnelUp,
     Assist!outside, Assist!files
<1> QED
  BY <1>1, <1>2, <1>4, <1>5, OnDoing DEF Assist!IInv

LEMMA TunnelDownStep == ASSUME Assist!IInv, Assist!TunnelDown PROVE Assist!IInv'
<1>1. /\ job # None /\ job \in Assist!Job /\ job.todo # <<>>
           /\ Head(job.todo) \in {"down", "bounce"}
      /\ job.phase = "doing"
  BY AtPhase DEF Assist!TunnelDown, Assist!Step
<1>2. /\ job' = [job EXCEPT !.todo = Tail(@)]
      /\ \/ tunnel' = None
         \/ tunnel' = tunnel /\ Head(job.todo) \notin {"up", "down"}
      /\ UNCHANGED <<config, keyfile, recovery, disturbed, mailbox>>
  BY <1>1 DEF Assist!TunnelDown, Assist!Done, Assist!outside, Assist!files, Assist!At
<1>3. job' \in Assist!Job /\ job'.request = job.request /\ job'.phase = "doing"
      /\ Assist!Doing' /\ Assist!KeyfileKnown' /\ Assist!OldIsConfigured'
  BY <1>1, <1>2, DoneDoing
<1>4. Assist!TypeOK'
  BY <1>1, <1>2, <1>3, JobFields DEF Assist!IInv, Assist!TypeOK, Assist!TunnelDown,
     Assist!outside, Assist!files
<1> QED
  BY <1>1, <1>2, <1>3, <1>4, OnDoing DEF Assist!IInv

LEMMA ForgetProfileStep == ASSUME Assist!IInv, Assist!ForgetProfile PROVE Assist!IInv'
<1>1. /\ job # None /\ job \in Assist!Job /\ job.todo # <<>> /\ Head(job.todo) = "forget"
      /\ job.phase = "doing"
  BY AtPhase DEF Assist!ForgetProfile, Assist!Step
<1>2. /\ job' = [job EXCEPT !.todo = Tail(@)] /\ keyfile' = None
      /\ UNCHANGED <<config, recovery, tunnel, disturbed, mailbox>>
  BY DEF Assist!ForgetProfile, Assist!Done, Assist!outside
<1>3. Shape(config, job.request, job.todo) /\ Assist!Aims
  BY <1>1, JobFields, RestShapes DEF Assist!Doing, Assist!IInv, Assist!TypeOK
<1>4. job.cand.profile = None
  BY <1>1, <1>3 DEF Shape, Assist!Aims
<1>5. keyfile' = Assist!KeyfileOf(job.cand)
  BY <1>2, <1>4 DEF Assist!KeyfileOf
<1>6. job' \in Assist!Job /\ job'.request = job.request /\ job'.phase = "doing"
      /\ Assist!Doing' /\ Assist!KeyfileKnown' /\ Assist!OldIsConfigured'
  BY <1>1, <1>2, <1>5, DoneDoing
<1>7. Assist!TypeOK'
  BY <1>1, <1>2, <1>6, JobFields DEF Assist!IInv, Assist!TypeOK, Assist!ForgetProfile,
     Assist!outside
<1> QED
  BY <1>1, <1>2, <1>6, <1>7, OnDoing DEF Assist!IInv

LEMMA EnableNextStep == ASSUME Assist!IInv, Assist!EnableNext PROVE Assist!IInv'
<1> DEFINE t == job.todo
           P == Assist!ToSet(Assist!Plan(config, job.request))
<1>1. /\ job # None /\ job \in Assist!Job /\ job.todo # <<>> /\ Head(job.todo) = "enable"
      /\ job.phase = "doing"
  BY AtPhase DEF Assist!EnableNext, Assist!Step
<1>2. /\ job' = [job EXCEPT !.todo = Tail(@), !.cand.enabled = TRUE]
      /\ UNCHANGED <<config, keyfile, recovery, reply, tunnel, disturbed, mailbox>>
  BY DEF Assist!EnableNext, Assist!outside, Assist!files
<1>3. Assist!Doing /\ Assist!KeyfileKnown /\ Assist!OldIsConfigured /\ config \in Assist!Config
  BY <1>1 DEF Assist!IInv, Assist!TypeOK
<1>4. Shape(config, job.request, t)
  BY <1>1, <1>3, JobFields, RestShapes DEF Assist!Doing
<1>5. /\ Tail(t) \in Assist!Rests(config, job.request)
           /\ Assist!ToSet(t) = {"enable"} \cup Assist!ToSet(Tail(t))
      /\ job.request.action = "register-connect"
           /\ {"keyfile", "up"} \subseteq Assist!ToSet(Tail(t))
      /\ "enable" \notin Assist!ToSet(Tail(t))
  BY <1>1, <1>4 DEF Shape
<1>6. Tail(t) \in Seq(Assist!Step)
  BY <1>1, JobFields
<1>7. /\ job' \in Assist!Job /\ job'.request = job.request /\ job'.old = job.old
      /\ job'.phase = job.phase /\ job'.todo = Tail(t) /\ job'.cand.enabled = TRUE
      /\ job'.cand.profile = job.cand.profile /\ job'.cand.autostart = job.cand.autostart
  BY <1>1, <1>2, <1>6 DEF Assist!Job, Assist!Config
<1>8. Assist!Aims /\ Assist!Aims'
  BY <1>2, <1>3, <1>5, <1>7 DEF Assist!Doing, Assist!Aims
<1>9. Assist!Doing'
  <2>1. IF P \cap {"keyfile", "forget"} = {} THEN keyfile' = job.old.keyfile
        ELSE Assist!ToSet(Tail(t)) \cap {"keyfile", "forget"} = {} =>
               keyfile' = Assist!KeyfileOf(job'.cand)
    BY <1>2, <1>3, <1>5 DEF Assist!Doing, Assist!Planned
  <2>2. IF "recovery" \notin P THEN recovery' = job.old.recovery
        ELSE "recovery" \notin Assist!ToSet(Tail(t)) => recovery' = job.cand.profile
    BY <1>2, <1>3, <1>5 DEF Assist!Doing, Assist!Planned, Assist!Left
  <2>3. Assist!Sound("tunnel") => Assist!RunsAs(tunnel', config)
    BY <1>2, <1>3, <1>5 DEF Assist!Doing, Assist!Planned, Assist!Left
  <2> QED
    BY <1>2, <1>5, <1>7, <1>8, <2>1, <2>2, <2>3 DEF Assist!Doing, Assist!Left, Assist!Planned,
       Assist!RunsAs, Assist!Sound
<1>10. Assist!KeyfileKnown'
  BY <1>2, <1>3, <1>7, <1>8 DEF Assist!KeyfileKnown
<1>11. Assist!OldIsConfigured'
  BY <1>2, <1>3, <1>7 DEF Assist!OldIsConfigured, Assist!RunsAs, Assist!Sound
<1>12. Assist!TypeOK'
  BY <1>7 DEF Assist!IInv, Assist!TypeOK, Assist!EnableNext, Assist!outside, Assist!files
<1> QED
  BY <1>1, <1>2, <1>7, <1>9, <1>10, <1>11, <1>12, OnDoing DEF Assist!IInv

LEMMA AskServerStep == ASSUME Assist!IInv, Assist!AskServer PROVE Assist!IInv'
<1> DEFINE t == job.todo
           P == Assist!ToSet(Assist!Plan(config, job.request))
<1>1. /\ job # None /\ job \in Assist!Job /\ job.todo # <<>> /\ Head(job.todo) = "ask"
      /\ job.phase = "doing"
  BY AtPhase DEF Assist!AskServer, Assist!Step
<1>2. PICK p \in Profiles :
         job' = [job EXCEPT !.todo = Tail(@), !.cand.profile = p, !.cand.enabled = FALSE]
  BY DEF Assist!AskServer, Assist!Approved, Assist!IInv, Assist!TypeOK
<1>a. UNCHANGED <<config, keyfile, recovery, reply, tunnel, disturbed, mailbox>>
  BY DEF Assist!AskServer, Assist!files
<1>3. Assist!Doing /\ Assist!KeyfileKnown /\ Assist!OldIsConfigured /\ config \in Assist!Config
  BY <1>1 DEF Assist!IInv, Assist!TypeOK
<1>4. Shape(config, job.request, t)
  BY <1>1, <1>3, JobFields, RestShapes DEF Assist!Doing
<1>5. /\ Tail(t) \in Assist!Rests(config, job.request)
           /\ Assist!ToSet(t) = {"ask"} \cup Assist!ToSet(Tail(t))
      /\ job.request.action = "auto-register"
      /\ {"keyfile", "recovery"} \subseteq Assist!ToSet(Tail(t))
  BY <1>1, <1>4 DEF Shape
<1>6. Tail(t) \in Seq(Assist!Step)
  BY <1>1, JobFields
<1>7. /\ job' \in Assist!Job /\ job'.request = job.request /\ job'.old = job.old
      /\ job'.phase = job.phase /\ job'.todo = Tail(t) /\ job'.cand.enabled = FALSE
      /\ job'.cand.profile = p /\ job'.cand.autostart = job.cand.autostart
  BY <1>1, <1>2, <1>6 DEF Assist!Job, Assist!Config
<1>8. Assist!Aims /\ Assist!Aims'
  BY <1>a, <1>3, <1>5, <1>7 DEF Assist!Doing, Assist!Aims
<1>9. Assist!Doing'
  <2>1. IF P \cap {"keyfile", "forget"} = {} THEN keyfile' = job.old.keyfile
        ELSE Assist!ToSet(Tail(t)) \cap {"keyfile", "forget"} = {} =>
               keyfile' = Assist!KeyfileOf(job'.cand)
    BY <1>a, <1>3, <1>5 DEF Assist!Doing, Assist!Planned
  <2>2. IF "recovery" \notin P THEN recovery' = job.old.recovery
        ELSE "recovery" \notin Assist!ToSet(Tail(t)) => recovery' = job'.cand.profile
    BY <1>a, <1>3, <1>5 DEF Assist!Doing, Assist!Planned, Assist!Left
  <2>3. "up" \notin P /\ "down" \notin P
    <3>1. P = {"identity", "ask", "reply", "keyfile", "recovery"}
      BY <1>5, Sets DEF Assist!Plan
    <3> QED
      BY <3>1
  <2>4. Assist!Sound("tunnel") => Assist!RunsAs(tunnel', config)
    BY <1>a, <1>3, <1>5, <2>3 DEF Assist!Doing, Assist!Planned, Assist!Left
  <2> QED
    BY <1>a, <1>5, <1>7, <1>8, <2>1, <2>2, <2>3, <2>4 DEF Assist!Doing, Assist!Left,
       Assist!Planned, Assist!RunsAs, Assist!Sound
<1>10. Assist!KeyfileKnown'
  <2>1. ~job.cand.enabled
    BY <1>5, <1>8 DEF Assist!Aims
  <2> QED
    BY <1>a, <1>3, <1>5, <1>7, <1>8, <2>1 DEF Assist!KeyfileKnown
<1>11. Assist!OldIsConfigured'
  BY <1>a, <1>3, <1>7 DEF Assist!OldIsConfigured, Assist!RunsAs, Assist!Sound
<1>12. Assist!TypeOK'
  BY <1>7 DEF Assist!IInv, Assist!TypeOK, Assist!AskServer, Assist!files
<1> QED
  BY <1>1, <1>a, <1>7, <1>9, <1>10, <1>11, <1>12, OnDoing DEF Assist!IInv

LEMMA StepFailsStep == ASSUME Assist!IInv, Assist!StepFails PROVE Assist!IInv'
<1> DEFINE t == job.todo
           h == Head(job.todo)
           a == job.request.action
           P == Assist!ToSet(Assist!Plan(config, job.request))
<1>1. job # None /\ job \in Assist!Job /\ config \in Assist!Config /\ t # <<>>
        /\ job.phase = "doing"
  BY DEF Assist!StepFails, Assist!IInv, Assist!TypeOK
<1>2. Assist!Doing /\ Assist!KeyfileKnown /\ Assist!OldIsConfigured /\ Assist!Aims
  BY <1>1 DEF Assist!IInv, Assist!Doing
<1>3. Shape(config, job.request, t)
  BY <1>1, <1>2, JobFields, RestShapes DEF Assist!Doing
<1>4. UNCHANGED <<config, recovery, reply, disturbed, mailbox>>
  BY DEF Assist!StepFails, Assist!outside
<1>5. /\ job' \in Assist!Job /\ job'.request = job.request /\ job'.old = job.old
      /\ job'.cand = job.cand /\ job'.phase = "undoing"
      /\ job'.todo = IF a \in {"generate-identity", "boot"} THEN <<>> ELSE Assist!Undo
      /\ job'.touched <=> <<keyfile', recovery, reply>>
                            # <<job.old.keyfile, job.old.recovery, job.old.reply>>
  <2> DEFINE k == IF a \in {"generate-identity", "boot"} THEN <<>> ELSE Assist!Undo
             b == <<keyfile', recovery, reply>>
                    # <<job.old.keyfile, job.old.recovery, job.old.reply>>
  <2>a. Assist!Undo \in Seq(Assist!Step) /\ <<>> \in Seq(Assist!Step)
    BY DEF Assist!Undo, Assist!Step
  <2>1. k \in Seq(Assist!Step) /\ b \in BOOLEAN
    BY <2>a
  <2>2. job' = [job EXCEPT !.phase = "undoing", !.todo = k, !.touched = b]
    BY DEF Assist!StepFails
  <2> HIDE DEF k, b
  <2>3. /\ job' \in Assist!Job /\ job'.request = job.request /\ job'.old = job.old
        /\ job'.cand = job.cand /\ job'.phase = "undoing" /\ job'.todo = k /\ job'.touched = b
    BY <1>1, <2>1, <2>2 DEF Assist!Job
  <2> QED
    BY <2>1, <2>3 DEF k, b
<1>6. /\ \/ keyfile' = keyfile
         \/ h = "keyfile" /\ keyfile' = Assist!KeyfileOf(job.cand)
         \/ h = "forget" /\ keyfile' = None
      /\ tunnel' = tunnel \/ (h = "up" /\ keyfile # None /\ tunnel' = keyfile.profile)
  BY <1>1 DEF Assist!StepFails, Assist!At
<1>7. Assist!Aims'
  BY <1>2, <1>4, <1>5, AimsKept
<1>8. Assist!KeyfileKnown'
  <2>1. CASE keyfile' = keyfile
    BY <1>2, <1>5, <1>7, <2>1 DEF Assist!KeyfileKnown
  <2>2. CASE keyfile' = None /\ a # "boot"
    BY <1>5, <2>2 DEF Assist!KeyfileKnown
  <2>3. CASE keyfile' = Assist!KeyfileOf(job.cand) /\ keyfile' # None
    BY <1>1, <1>5, <1>7, <2>3, KeyfileOfType, JobFields DEF Assist!KeyfileKnown
  <2>4. h = "forget" => a # "boot"
    BY <1>1, <1>3 DEF Shape
  <2>5. h = "keyfile" /\ a = "boot" => Assist!KeyfileOf(job.cand) # None
    <3>1. h = "keyfile" /\ a = "boot" => config.profile # None
      BY <1>1, <1>3 DEF Shape
    <3>2. a = "boot" => job.cand.profile = config.profile
      BY <1>2 DEF Assist!Aims, Assist!Registering
    <3> QED
      BY <1>1, <3>1, <3>2, KeyfileOfType, JobFields
  <2> QED
    BY <1>6, <2>1, <2>2, <2>3, <2>4, <2>5
<1>9. Assist!OldIsConfigured'
  BY <1>2, <1>4, <1>5 DEF Assist!OldIsConfigured, Assist!RunsAs, Assist!Sound
<1>10. Assist!Undoing'
  <2>1. job'.todo \in Assist!Unwound
    BY <1>5 DEF Assist!Unwound, Assist!Undo
  <2>2. CASE a \in {"generate-identity", "boot"}
    <3>1. Assist!ToSet(job'.todo) = {}
      BY <1>5, <2>2, Sets
    <3>2. P \cap {"recovery", "forget", "up", "down"} = {}
            /\ (a = "generate-identity" => "keyfile" \notin P)
      BY <1>1, <2>2, PlanSets, JobFields
    <3>3. h \notin {"recovery", "forget", "up"} /\ (a = "generate-identity" => h # "keyfile")
      BY <1>1, <1>3, <3>2 DEF Shape
    <3>4. Assist!Sound("tunnel") => Assist!RunsAs(tunnel', config)
      BY <1>2, <1>6, <3>2, <3>3 DEF Assist!Doing, Assist!Planned
    <3>5. Assist!Sound("recovery") => recovery = config.profile
      BY <1>2, <3>2 DEF Assist!Doing, Assist!Planned, Assist!OldIsConfigured
    <3>6. Assist!Sound("keyfile") => keyfile' = Assist!KeyfileOf(config)
      <4> SUFFICES ASSUME Assist!Sound("keyfile") PROVE keyfile' = Assist!KeyfileOf(config)
        OBVIOUS
      <4>1. job.old.keyfile = Assist!KeyfileOf(config)
        BY <1>2 DEF Assist!OldIsConfigured
      <4>2. CASE a = "generate-identity"
        BY <1>2, <1>6, <3>2, <3>3, <4>1, <4>2 DEF Assist!Doing, Assist!Planned
      <4>3. CASE a = "boot"
        <5>1. job.cand.profile = config.profile /\ ~job.cand.enabled
              /\ (~config.autostart \/ config.profile = None)
          BY <1>2, <4>3 DEF Assist!Aims, Assist!Registering
        <5>2. keyfile' = job.old.keyfile
                \/ (keyfile' # None /\ ~keyfile'.auto /\ keyfile'.profile = config.profile)
          <6>1. \/ keyfile' = job.old.keyfile
                \/ /\ keyfile' # None /\ (keyfile'.auto => job'.cand.enabled)
                   /\ keyfile'.profile = job'.cand.profile
            BY <1>5, <1>8, <4>3 DEF Assist!KeyfileKnown
          <6> QED
            BY <1>5, <5>1, <6>1
        <5>3. keyfile' \in Assist!Keyfile \cup {None}
          BY <1>1, <1>6, KeyfileOfType, JobFields DEF Assist!IInv, Assist!TypeOK
        <5>4. CASE keyfile' # None /\ ~keyfile'.auto /\ keyfile'.profile = config.profile
          <6>1. config.profile \in Profiles
                  /\ keyfile' = [profile |-> config.profile, auto |-> FALSE]
            BY <5>3, <5>4 DEF Assist!Keyfile
          <6>2. config.profile # None
            BY <6>1, NoneIsNoProfile DEF Assist!NoneApart
          <6> QED
            BY <5>1, <6>1, <6>2 DEF Assist!KeyfileOf
        <5> QED
          BY <4>1, <5>2, <5>4
      <4> QED
        BY <2>2, <4>2, <4>3
    <3> QED
      BY <1>4, <2>1, <3>1, <3>4, <3>5, <3>6 DEF Assist!Undoing, Assist!Left, Assist!RunsAs,
         Assist!Sound
  <2>3. CASE a \notin {"generate-identity", "boot"}
    <3>1. job'.todo = Assist!Undo
            /\ {"old-keyfile", "old-recovery", "old-tunnel"} \subseteq Assist!ToSet(job'.todo)
      BY <1>5, <2>3, Sets DEF Assist!Undo
    <3>2. ASSUME Assist!Sound("tunnel")
          PROVE  \/ Assist!RunsAs(tunnel', config)
                 \/ /\ tunnel' = job.cand.profile /\ a \in Assist!Activating
                    /\ job'.touched \/ (Assist!Reconnects' /\ job.old.keyfile # None)
      <4>1. CASE tunnel' = tunnel
        <5>1. CASE P \cap {"up", "down"} # {} /\ Assist!ToSet(t) \cap {"up", "down"} = {}
          <6>1. a = "delete-profile"
            BY <1>1, <1>3, <5>1 DEF Shape
          <6>2. Assist!RunsAs(tunnel, job.cand) /\ job.cand.profile = None
            BY <1>2, <5>1, <6>1 DEF Assist!Doing, Assist!Left, Assist!Planned, Assist!Aims
          <6> QED
            BY <4>1, <6>2 DEF Assist!RunsAs
        <5>2. CASE ~(P \cap {"up", "down"} # {} /\ Assist!ToSet(t) \cap {"up", "down"} = {})
          BY <1>2, <3>2, <4>1, <5>2 DEF Assist!Doing, Assist!Left, Assist!Planned
        <5> QED
          BY <5>1, <5>2
      <4>2. CASE h = "up" /\ keyfile # None /\ tunnel' = keyfile.profile
        <5>1. Assist!At("up")
          BY <1>1, <4>2 DEF Assist!At
        <5>2. a \in Assist!Activating /\ (a = "save" => config.enabled)
                /\ tunnel' = job.cand.profile
          BY <4>2, <5>1, UpKeyfile
        <5>3. keyfile' = keyfile
          BY <1>6, <4>2
        <5>4. job'.touched \/ job.old.keyfile # None
          BY <1>5, <4>2, <5>3
        <5>5. CASE a = "save"
          <6>1. config.profile = None
            BY <1>2, <5>2, <5>5 DEF Assist!Aims, Assist!Permitted
          <6>2. Assist!Sound("keyfile")
            BY <3>2 DEF Assist!IInv, Assist!Sound
          <6>3. job.old.keyfile = None
            BY <1>2, <6>1, <6>2 DEF Assist!OldIsConfigured, Assist!KeyfileOf
          <6> QED
            BY <5>2, <5>4, <6>3
        <5>6. CASE a # "save"
          <6>1. Assist!Reconnects'
            BY <1>5, <5>2, <5>6 DEF Assist!Reconnects, Assist!Activating
          <6> QED
            BY <5>2, <5>4, <6>1
        <5> QED
          BY <5>5, <5>6
      <4> QED
        BY <1>6, <4>1, <4>2
    <3> QED
      BY <1>4, <1>5, <1>7, <2>1, <3>1, <3>2 DEF Assist!Undoing, Assist!Left, Assist!RunsAs,
         Assist!Sound
  <2> QED
    BY <2>2, <2>3
<1>11. Assist!TypeOK'
  <2>1. keyfile' \in Assist!Keyfile \cup {None} /\ tunnel' \in Profiles \cup {None}
    BY <1>1, <1>6, KeyfileOfType, JobFields DEF Assist!IInv, Assist!TypeOK, Assist!Keyfile
  <2> QED
    BY <1>5, <2>1 DEF Assist!IInv, Assist!TypeOK, Assist!StepFails, Assist!outside
<1> QED
  BY <1>1, <1>4, <1>5, <1>8, <1>9, <1>10, <1>11, OnUndoing DEF Assist!IInv

-----------------------------------------------------------------------------
(* The steps of a rollback, and the ends of a run.                         *)

\* A step of a rollback that is done: what holds of the rest of it.
LEMMA DoneUndoing ==
    ASSUME Assist!IInv, job # None, job.phase = "undoing", job.todo # <<>>,
           job' = [job EXCEPT !.todo = Tail(@)], config' = config, mailbox' = mailbox,
             Assist!TypeOK',
           disturbed' = disturbed \/ disturbed' = disturbed \cup {"tunnel"},
           keyfile' = IF Head(job.todo) = "old-keyfile" THEN job.old.keyfile ELSE keyfile,
           recovery' = IF Head(job.todo) = "old-recovery" THEN job.old.recovery ELSE recovery,
           Head(job.todo) # "old-tunnel" => tunnel' = tunnel /\ disturbed' = disturbed,
           Head(job.todo) = "old-tunnel" =>
             (Assist!Sound("tunnel")' => Assist!RunsAs(tunnel', config))
    PROVE  Assist!IInv'
<1> DEFINE t == job.todo
           h == Head(job.todo)
           r == Tail(job.todo)
<1>1. job \in Assist!Job /\ config \in Assist!Config
  BY DEF Assist!IInv, Assist!TypeOK
<1>2. /\ job' \in Assist!Job /\ job'.request = job.request /\ job'.cand = job.cand
      /\ job'.old = job.old /\ job'.phase = job.phase /\ job'.todo = r
      /\ job'.touched = job.touched
  BY <1>1, DoneFields
<1>3. Assist!Undoing /\ Assist!KeyfileKnown /\ Assist!OldIsConfigured
  BY DEF Assist!IInv
<1>4. UndoShape(t)
  BY <1>3, UndoShapes DEF Assist!Undoing
<1>5. r \in Assist!Unwound /\ Assist!ToSet(t) = {h} \cup Assist!ToSet(r)
        /\ h \notin Assist!ToSet(r)
      /\ h \in {"old-keyfile", "old-recovery", "old-reply", "old-tunnel"}
      /\ "old-tunnel" \in Assist!ToSet(t)
  BY <1>4 DEF UndoShape
<1>6. \A n : n \notin disturbed' => n \notin disturbed
  OBVIOUS
<1>7. "old-keyfile" \notin Assist!ToSet(r)
        /\ "keyfile" \notin disturbed' => keyfile' = Assist!KeyfileOf(config)
  <2>1. CASE h = "old-keyfile"
    BY <1>3, <1>6, <2>1 DEF Assist!OldIsConfigured, Assist!Sound
  <2>2. CASE h # "old-keyfile"
    BY <1>3, <1>5, <1>6, <2>2 DEF Assist!Undoing, Assist!Left, Assist!Sound
  <2> QED
    BY <2>1, <2>2
<1>8. "old-recovery" \notin Assist!ToSet(r)
        /\ "recovery" \notin disturbed' => recovery' = config.profile
  <2>1. CASE h = "old-recovery"
    BY <1>3, <1>6, <2>1 DEF Assist!OldIsConfigured, Assist!Sound
  <2>2. CASE h # "old-recovery"
    BY <1>3, <1>5, <1>6, <2>2 DEF Assist!Undoing, Assist!Left, Assist!Sound
  <2> QED
    BY <2>1, <2>2
<1>9. Assist!Aims => Assist!Aims'
  BY <1>2, AimsKept
<1>10. Assist!Reconnects' <=> Assist!Reconnects
  BY <1>2 DEF Assist!Reconnects
<1>11. ASSUME "tunnel" \notin disturbed'
       PROVE  \/ Assist!RunsAs(tunnel', config)
              \/ /\ "old-tunnel" \in Assist!ToSet(r)
                 /\ Assist!Aims' /\ tunnel' = job.cand.profile
                      /\ job.request.action \in Assist!Activating
                 /\ job.touched \/ (Assist!Reconnects' /\ job.old.keyfile # None)
  <2>1. CASE h = "old-tunnel"
    BY <1>11, <2>1 DEF Assist!Sound
  <2>2. CASE h # "old-tunnel"
    <3>1. "old-tunnel" \in Assist!ToSet(r)
      BY <1>5, <2>2
    <3> QED
      BY <1>3, <1>6, <1>9, <1>10, <1>11, <2>2, <3>1 DEF Assist!Undoing, Assist!Sound
  <2> QED
    BY <2>1, <2>2
<1>12. Assist!Undoing'
  BY <1>2, <1>5, <1>7, <1>8, <1>11 DEF Assist!Undoing, Assist!Left, Assist!Sound, Assist!RunsAs
<1>13. Assist!KeyfileKnown'
  BY <1>2, <1>3, <1>9 DEF Assist!KeyfileKnown
<1>14. Assist!OldIsConfigured'
  BY <1>2, <1>3, <1>6 DEF Assist!OldIsConfigured, Assist!Sound, Assist!RunsAs
<1> QED
  BY <1>2, <1>12, <1>13, <1>14, OnUndoing DEF Assist!IInv

LEMMA RestoreFilesStep ==
    ASSUME Assist!IInv, Assist!RestoreKeyfile \/ Assist!RestoreRecovery \/ Assist!RestoreReply
    PROVE  Assist!IInv'
<1>1. PICK s \in {"old-keyfile", "old-recovery", "old-reply"} :
        /\ Assist!At(s)
        /\ keyfile' = IF s = "old-keyfile" THEN job.old.keyfile ELSE keyfile
        /\ recovery' = IF s = "old-recovery" THEN job.old.recovery ELSE recovery
        /\ reply' = IF s = "old-reply" THEN job.old.reply ELSE reply
        /\ job' = [job EXCEPT !.todo = Tail(@)]
        /\ UNCHANGED <<config, tunnel, disturbed, Assist!outside>>
  BY DEF Assist!RestoreKeyfile, Assist!RestoreRecovery, Assist!RestoreReply, Assist!Done
<1>2. /\ job # None /\ job \in Assist!Job /\ job.todo # <<>> /\ Head(job.todo) = s
      /\ job.phase = "undoing"
  BY <1>1, AtPhase DEF Assist!Step
<1>3. job' \in Assist!Job
  BY <1>1, <1>2, DoneFields
<1>4. Assist!TypeOK'
  BY <1>1, <1>2, <1>3, JobFields DEF Assist!IInv, Assist!TypeOK, Assist!outside
<1> QED
  BY <1>1, <1>2, <1>4, DoneUndoing DEF Assist!outside

LEMMA RestoreTunnelStep == ASSUME Assist!IInv, Assist!RestoreTunnel PROVE Assist!IInv'
<1>1. /\ job # None /\ job \in Assist!Job /\ job.todo # <<>> /\ Head(job.todo) = "old-tunnel"
      /\ job.phase = "undoing"
  BY AtPhase DEF Assist!RestoreTunnel, Assist!Step
<1>2. /\ job' = [job EXCEPT !.todo = Tail(@)]
      /\ UNCHANGED <<config, keyfile, recovery, reply, Assist!outside>>
      /\ disturbed' = disturbed \/ disturbed' = disturbed \cup {"tunnel"}
  BY DEF Assist!RestoreTunnel, Assist!Done, Assist!files
<1>3. Assist!Undoing /\ Assist!OldIsConfigured /\ config \in Assist!Config
  BY <1>1 DEF Assist!IInv, Assist!TypeOK
<1>4. ASSUME "tunnel" \notin disturbed' PROVE Assist!RunsAs(tunnel', config)
  <2>1. Assist!Sound("tunnel") /\ Assist!Sound("keyfile")
    BY <1>2, <1>4 DEF Assist!Sound, Assist!IInv
  <2>2. CASE Assist!Reconnects /\ job.old.keyfile # None
    <3>1. tunnel' = IF job.old.tunnel = None THEN None ELSE job.old.keyfile.profile
      BY <1>2, <1>4, <2>2 DEF Assist!RestoreTunnel
    <3>2. job.old.keyfile = Assist!KeyfileOf(config) /\ Assist!RunsAs(job.old.tunnel, config)
      BY <1>3, <2>1 DEF Assist!OldIsConfigured
    <3>3. job.old.keyfile.profile = config.profile
      BY <1>3, <2>2, <3>2, KeyfileOfType
    <3> QED
      BY <3>1, <3>2, <3>3 DEF Assist!RunsAs
  <2>3. CASE ~(Assist!Reconnects /\ job.old.keyfile # None)
    <3>1. tunnel' = IF job.touched THEN None ELSE tunnel
      BY <2>3 DEF Assist!RestoreTunnel
    <3>2. job.touched \/ Assist!RunsAs(tunnel, config)
      BY <1>3, <2>1, <2>3 DEF Assist!Undoing
    <3> QED
      BY <3>1, <3>2 DEF Assist!RunsAs
  <2> QED
    BY <2>2, <2>3
<1>5. job' \in Assist!Job
  BY <1>1, <1>2, DoneFields
<1>6. tunnel' \in Profiles \cup {None}
  <2>1. job.old.keyfile # None => job.old.keyfile.profile \in Profiles
    BY <1>1, JobFields DEF Assist!Keyfile
  <2> QED
    BY <2>1 DEF Assist!RestoreTunnel, Assist!IInv, Assist!TypeOK
<1>7. Assist!TypeOK'
  BY <1>2, <1>5, <1>6 DEF Assist!IInv, Assist!TypeOK, Assist!Copy, Assist!outside
<1> QED
  BY <1>1, <1>2, <1>4, <1>7, DoneUndoing DEF Assist!outside, Assist!Sound

\* What a finished plan leaves is the new configuration's, what it did not touch the
\* old one's, and the two are the same there.
LEMMA CommitStep == ASSUME Assist!IInv, Assist!Commit PROVE Assist!IInv'
<1> DEFINE a == job.request.action
           P == Assist!ToSet(Assist!Plan(config, job.request))
<1>1. /\ job # None /\ job \in Assist!Job /\ job.phase = "doing" /\ job.todo = <<>>
      /\ config \in Assist!Config
  BY DEF Assist!Commit, Assist!IInv, Assist!TypeOK
<1>2. /\ config' = job.cand /\ disturbed' = (disturbed \ Assist!Settled) \cup Assist!LeftUp
      /\ job' = [job EXCEPT !.phase = IF job.by = "mailbox" THEN "answer" ELSE "publish"]
      /\ UNCHANGED <<keyfile, recovery, reply, tunnel, Assist!outside>>
  BY DEF Assist!Commit, Assist!files
<1>3. job' \in Assist!Job /\ job'.phase \in {"answer", "publish"} /\ job'.request = job.request
      /\ job'.todo = <<>> /\ job' # None
  <2>1. job' \in Assist!Job /\ job'.phase \in {"answer", "publish"}
          /\ job'.request = job.request
        /\ job'.todo = <<>>
    BY <1>1, <1>2 DEF Assist!Job
  <2> QED
    BY <2>1, JobFields
<1>4. Assist!Doing /\ Assist!OldIsConfigured /\ Assist!Aims
  BY <1>1 DEF Assist!IInv, Assist!Doing
<1>5. Assist!Left = {}
  BY <1>1, Sets DEF Assist!Left
<1>6. /\ "keyfile" \in Assist!Settled <=> P \cap {"keyfile", "forget"} # {}
      /\ "recovery" \in Assist!Settled <=> "recovery" \in P
      /\ "tunnel" \in Assist!Settled <=> P \cap {"up", "down"} # {}
      /\ Assist!Settled \subseteq Assist!Copy
  BY DEF Assist!Settled, Assist!Copy
<1>7. "keyfile" \notin disturbed' => keyfile = Assist!KeyfileOf(job.cand)
  <2>1. CASE P \cap {"keyfile", "forget"} # {}
    BY <1>4, <1>5, <2>1 DEF Assist!Doing, Assist!Planned
  <2>2. CASE P \cap {"keyfile", "forget"} = {}
    <3>1. ASSUME "keyfile" \notin disturbed'
          PROVE  keyfile = Assist!KeyfileOf(job.cand)
      <4>1. Assist!Sound("keyfile")
        BY <1>2, <1>6, <2>2, <3>1 DEF Assist!Sound
      <4>2. keyfile = Assist!KeyfileOf(config)
        BY <1>4, <2>2, <4>1 DEF Assist!Doing, Assist!Planned, Assist!OldIsConfigured
      <4>3. \/ a = "generate-identity"
            \/ a \in {"disable", "boot-on", "boot-off", "boot"} /\ config.profile = None
        BY <1>1, <2>2, PlanSets, JobFields
      <4>4. job.cand.profile = config.profile
        BY <1>4, <4>3 DEF Assist!Aims, Assist!Registering
      <4>5. a = "generate-identity" =>
              job.cand.enabled = config.enabled /\ job.cand.autostart = config.autostart
        BY <1>4 DEF Assist!Aims
      <4> QED
        BY <4>2, <4>3, <4>4, <4>5 DEF Assist!KeyfileOf
    <3> QED
      BY <3>1
  <2> QED
    BY <2>1, <2>2
<1>8. "recovery" \notin disturbed' => recovery = job.cand.profile
  <2>1. CASE "recovery" \in P
    BY <1>4, <1>5, <2>1 DEF Assist!Doing, Assist!Planned
  <2>2. CASE "recovery" \notin P
    <3>1. "recovery" \notin disturbed' => Assist!Sound("recovery")
      BY <1>2, <1>6, <2>2 DEF Assist!Sound
    <3>2. Assist!Sound("recovery") => recovery = config.profile
      BY <1>4, <2>2 DEF Assist!Doing, Assist!Planned, Assist!OldIsConfigured
    <3>3. a \notin Assist!Registering \cup {"auto-register", "save", "delete-profile"}
      BY <1>1, <2>2, PlanSets, JobFields
    <3> QED
      BY <1>4, <3>1, <3>2, <3>3 DEF Assist!Aims
  <2> QED
    BY <2>1, <2>2
<1>9. "tunnel" \notin disturbed' => Assist!RunsAs(tunnel, job.cand)
  <2>1. CASE P \cap {"up", "down"} # {}
    BY <1>4, <1>5, <2>1 DEF Assist!Doing, Assist!Planned
  <2>2. CASE P \cap {"up", "down"} = {}
    <3> SUFFICES ASSUME "tunnel" \notin disturbed', tunnel # None
                 PROVE  job.cand.enabled /\ tunnel = job.cand.profile
      BY DEF Assist!RunsAs
    <3>1. Assist!Sound("tunnel") /\ a # "boot"
      BY <1>2, <1>6, <2>2 DEF Assist!Sound, Assist!LeftUp
    <3>2. config.enabled /\ tunnel = config.profile
      BY <1>4, <2>2, <3>1 DEF Assist!Doing, Assist!Planned, Assist!RunsAs
    <3>3. /\ a \notin {"enable", "restart", "register-connect", "delete-profile"}
          /\ a = "disable" => config.profile = None
          /\ a = "save" => ~config.enabled
      BY <1>1, <2>2, PlanSets, JobFields
    <3>4. a \notin Assist!Registering \cup {"auto-register"}
      BY <1>4, <3>2 DEF Assist!Aims, Assist!Permitted
    <3>5. a \in {"generate-identity", "boot-on", "boot-off"}
      BY <1>1, <3>1, <3>2, <3>3, <3>4, JobFields DEF Assist!Request, Assist!Action,
         Assist!Registering
    <3> QED
      BY <1>4, <3>2, <3>5 DEF Assist!Aims, Assist!Registering
  <2> QED
    BY <2>1, <2>2
<1>10. Assist!Resting'
  BY <1>2, <1>7, <1>8, <1>9 DEF Assist!Resting, Assist!Sound, Assist!RunsAs
<1>11. "keyfile" \in disturbed' => "tunnel" \in disturbed'
  <2> SUFFICES ASSUME "keyfile" \in disturbed' PROVE "tunnel" \in disturbed'
    OBVIOUS
  <2>1. "keyfile" \in disturbed /\ "keyfile" \notin Assist!Settled
    BY <1>2 DEF Assist!LeftUp
  <2>2. P \cap {"up", "down"} = {}
    BY <1>1, <1>6, <2>1, PlanSets, JobFields
  <2> QED
    BY <1>2, <1>6, <2>1, <2>2 DEF Assist!IInv
<1>12. Assist!TypeOK'
  BY <1>1, <1>2, <1>3, <1>6, JobFields DEF Assist!IInv, Assist!TypeOK, Assist!outside,
     Assist!LeftUp, Assist!Copy
<1> QED
  BY <1>1, <1>2, <1>3, <1>10, <1>11, <1>12 DEF Assist!IInv, Assist!outside, Assist!WellFormed

LEMMA UndoneStep == ASSUME Assist!IInv, Assist!Undone PROVE Assist!IInv'
<1>1. /\ job # None /\ job \in Assist!Job /\ job.phase = "undoing" /\ job.todo = <<>>
  BY DEF Assist!Undone, Assist!IInv, Assist!TypeOK
<1>2. UNCHANGED <<config, keyfile, recovery, reply, tunnel, disturbed, Assist!outside>>
  BY DEF Assist!Undone, Assist!files
<1>3. \/ job' = None
      \/ /\ job' \in Assist!Job /\ job'.phase = "answer" /\ job'.request = job.request
         /\ job'.todo = <<>> /\ job' # None
  <2>1. CASE job' = [job EXCEPT !.phase = "answer"]
    <3>1. job' \in Assist!Job /\ job'.phase = "answer" /\ job'.request = job.request
            /\ job'.todo = <<>>
      BY <1>1, <2>1 DEF Assist!Job
    <3> QED
      BY <3>1, JobFields
  <2> QED
    BY <2>1 DEF Assist!Undone
<1>4. Assist!Left = {}
  BY <1>1, Sets DEF Assist!Left
<1>5. Assist!Resting
  BY <1>1, <1>4 DEF Assist!IInv, Assist!Undoing, Assist!Resting
<1>6. Assist!Resting'
  BY <1>2, <1>5 DEF Assist!Resting, Assist!Sound, Assist!RunsAs
<1>7. Assist!TypeOK'
  BY <1>2, <1>3 DEF Assist!IInv, Assist!TypeOK, Assist!outside
<1> QED
  BY <1>1, <1>2, <1>3, <1>6, <1>7 DEF Assist!IInv, Assist!outside, Assist!WellFormed

LEMMA AnswerStep == ASSUME Assist!IInv, Assist!Answer PROVE Assist!IInv'
<1>1. /\ job # None /\ job \in Assist!Job /\ job.phase = "answer" /\ job.todo = <<>>
  BY DEF Assist!Answer, Assist!IInv, Assist!TypeOK
<1>2. /\ mailbox' = None /\ job' = [job EXCEPT !.phase = "publish"]
      /\ UNCHANGED <<config, keyfile, recovery, reply, identity, authorized, tunnel, shown,
                     setup, booting, disturbed, kills>>
  BY DEF Assist!Answer, Assist!files
<1>3. job' \in Assist!Job /\ job'.phase = "publish" /\ job'.request = job.request
        /\ job'.todo = <<>>
  BY <1>1, <1>2 DEF Assist!Job
<1>4. job' # None
  BY <1>3, JobFields
<1>5. Assist!Resting'
  BY <1>1, <1>2 DEF Assist!IInv, Assist!Resting, Assist!Sound, Assist!RunsAs
<1>6. Assist!TypeOK'
  BY <1>2, <1>3 DEF Assist!IInv, Assist!TypeOK
<1> QED
  BY <1>1, <1>2, <1>3, <1>4, <1>5, <1>6 DEF Assist!IInv, Assist!WellFormed

-----------------------------------------------------------------------------
(* Runs that start, requests, kills.                                       *)

\* A run that starts from an orderly state.
LEMMA BeginStep ==
    ASSUME Assist!IInv, job = None, NEW q \in Assist!Request, Assist!WellFormed(q),
           q.action = "boot" => ~config.autostart \/ config.profile = None,
           NEW by \in {"mailbox", "cli", "boot"}, Assist!Begin(q, by),
           UNCHANGED <<config, keyfile, recovery, reply, tunnel, disturbed, mailbox>>,
           {identity', authorized', setup', booting'} \subseteq BOOLEAN,
           shown' \subseteq Assist!Fact, kills' \in Nat
    PROVE  Assist!IInv'
<1> DEFINE P == Assist!ToSet(Assist!Plan(config, q))
<1>1. Assist!TypeOK /\ Assist!Resting /\ config \in Assist!Config
  BY DEF Assist!IInv, Assist!TypeOK
<1>2. Assist!Candidate(q) \in Assist!Config
  BY <1>1, CandidateType
<1>3. Assist!Saved \in Assist!Copies /\ Assist!Saved.keyfile = keyfile
        /\ Assist!Saved.recovery = recovery
      /\ Assist!Saved.tunnel = tunnel
  BY <1>1 DEF Assist!Saved, Assist!Copies, Assist!TypeOK
<1>4. Assist!Plan(config, q) \in Seq(Assist!Step)
        /\ Assist!Plan(config, q) \in Assist!Rests(config, q)
  <2>1. Assist!Plan(config, q) \in Assist!Rests(config, q)
    BY <1>1, PlanFirst
  <2> QED
    BY <1>1, <2>1, RestShapes DEF Shape
<1>5. Assist!Undo \in Seq(Assist!Step) /\ Assist!Undo \in Assist!Unwound
  BY DEF Assist!Undo, Assist!Step, Assist!Unwound
<1>6. /\ job' \in Assist!Job /\ job'.request = q /\ job'.cand = Assist!Candidate(q)
           /\ job'.old = Assist!Saved
      /\ job'.phase = IF Assist!Refused(q) THEN "undoing" ELSE "doing"
      /\ job'.todo = IF Assist!Refused(q) THEN Assist!Undo ELSE Assist!Plan(config, q)
  <2> DEFINE ph == IF Assist!Refused(q) THEN "undoing" ELSE "doing"
             td == IF Assist!Refused(q) THEN Assist!Undo ELSE Assist!Plan(config, q)
  <2>1. ph \in {"doing", "undoing", "answer", "publish"} /\ td \in Seq(Assist!Step)
    BY <1>4, <1>5
  <2>2. job' = [request |-> q, by |-> by, cand |-> Assist!Candidate(q), old |-> Assist!Saved,
                touched |-> FALSE, phase |-> ph, todo |-> td]
    BY DEF Assist!Begin
  <2> HIDE DEF ph, td
  <2>3. /\ job' \in Assist!Job /\ job'.request = q /\ job'.cand = Assist!Candidate(q)
             /\ job'.old = Assist!Saved
        /\ job'.phase = ph /\ job'.todo = td
    BY <1>2, <1>3, <2>1, <2>2 DEF Assist!Job
  <2> QED
    BY <2>3 DEF ph, td
<1>7. Assist!TypeOK'
  BY <1>6 DEF Assist!IInv, Assist!TypeOK
<1>8. Assist!KeyfileKnown'
  BY <1>3, <1>6 DEF Assist!KeyfileKnown
<1>9. Assist!OldIsConfigured'
  BY <1>1, <1>3, <1>6 DEF Assist!OldIsConfigured, Assist!Resting, Assist!Sound, Assist!RunsAs
<1>10. CASE ~Assist!Refused(q)
  <2>1. Assist!Permitted(config, q)
    BY <1>10 DEF Assist!Permitted, Assist!Refused, Assist!Registering
  <2>2. Assist!Aims'
    BY <1>1, <1>6, <2>1, AimsOfCandidate
  <2>3. "enable" \in P <=> q.action = "register-connect"
    BY <1>1, PlanSets
  <2>4. q.action = "register-connect" => ~job'.cand.enabled
    BY <1>1, <1>6, CandidateType DEF Assist!Registering
  <2>5. q.action = "register-connect" => job'.cand.enabled = ("enable" \notin P)
    <3>1. job'.cand.enabled \in BOOLEAN
      BY <1>6, JobFields
    <3> QED
      BY <2>3, <2>4, <3>1
  <2>6. job'.phase = "doing" /\ job'.todo = Assist!Plan(config, q)
    BY <1>6, <1>10
  <2>7. Assist!Sound("tunnel") => Assist!RunsAs(tunnel, config)
    BY <1>1 DEF Assist!Resting
  <2>8. Assist!Doing'
    BY <1>3, <1>4, <1>6, <2>2, <2>3, <2>4, <2>5, <2>6, <2>7 DEF Assist!Doing, Assist!Left,
       Assist!Planned, Assist!Sound, Assist!RunsAs
  <2> QED
    BY <1>6, <1>7, <1>8, <1>9, <2>6, <2>8, OnDoing DEF Assist!WellFormed
<1>11. CASE Assist!Refused(q)
  <2>1. job'.phase = "undoing" /\ job'.todo = Assist!Undo
    BY <1>6, <1>11
  <2>2. {"old-keyfile", "old-recovery"} \subseteq Assist!ToSet(Assist!Undo)
    BY Sets DEF Assist!Undo
  <2>3. Assist!Undoing'
    BY <1>1, <1>5, <2>1, <2>2 DEF Assist!Undoing, Assist!Left, Assist!Resting, Assist!Sound,
       Assist!RunsAs
  <2> QED
    BY <1>6, <1>7, <1>8, <1>9, <2>1, <2>3, OnUndoing DEF Assist!IInv, Assist!WellFormed
<1> QED
  BY <1>10, <1>11

LEMMA StartStep == ASSUME Assist!IInv, Assist!Start PROVE Assist!IInv'
<1>1. /\ job = None /\ mailbox # None /\ mailbox \in Assist!Request
           /\ Assist!WellFormed(mailbox)
      /\ mailbox.action # "boot" /\ Assist!Begin(mailbox, "mailbox")
  BY DEF Assist!Start, Assist!IInv, Assist!TypeOK
<1>2. UNCHANGED <<config, Assist!files, tunnel, disturbed, Assist!outside>>
  BY DEF Assist!Start
<1> QED
  BY <1>1, <1>2, BeginStep DEF Assist!files, Assist!outside, Assist!IInv, Assist!TypeOK

LEMMA PlainType ==
    ASSUME NEW a \in Assist!Action \cup {"boot"}
    PROVE  Assist!Plain(a) \in Assist!Request /\ Assist!WellFormed(Assist!Plain(a))
             /\ Assist!Plain(a).action = a
  BY DEF Assist!Plain, Assist!Request, Assist!WellFormed

LEMMA CliStep == ASSUME Assist!IInv, Assist!Cli PROVE Assist!IInv'
<1>1. job = None /\ UNCHANGED <<config, Assist!files, tunnel, disturbed, Assist!outside>>
  BY DEF Assist!Cli
<1>2. PICK q \in Assist!Request : Assist!Begin(q, "cli") /\ Assist!WellFormed(q)
             /\ q.action # "boot"
  <2>1. CASE \E a \in Assist!Action \ (Assist!Registering \cup {"save", "delete-profile"}) :
               Assist!Begin(Assist!Plain(a), "cli")
    <3>1. PICK a \in Assist!Action : Assist!Begin(Assist!Plain(a), "cli")
      BY <2>1
    <3>2. a # "boot"
      BY DEF Assist!Action, Assist!Registering
    <3> QED
      BY <3>1, <3>2, PlainType
  <2>2. CASE \E p \in Assist!Approved :
               Assist!Begin([action |-> "register", profile |-> p], "cli")
    <3>1. PICK p \in Profiles : Assist!Begin([action |-> "register", profile |-> p], "cli")
      BY <2>2 DEF Assist!Approved
    <3>2. [action |-> "register", profile |-> p] \in Assist!Request
      BY DEF Assist!Request, Assist!Action, Assist!Registering
    <3> QED
      BY <3>1, <3>2 DEF Assist!WellFormed
  <2> QED
    BY <2>1, <2>2 DEF Assist!Cli
<1> QED
  BY <1>1, <1>2, BeginStep DEF Assist!files, Assist!outside, Assist!IInv, Assist!TypeOK

LEMMA BootStep == ASSUME Assist!IInv, Assist!Boot PROVE Assist!IInv'
<1> DEFINE a == IF config.autostart /\ config.profile # None THEN "enable" ELSE "boot"
<1>1. /\ job = None /\ booting' = FALSE /\ Assist!Begin(Assist!Plain(a), "boot")
      /\ UNCHANGED <<config, Assist!files, identity, authorized, tunnel, mailbox, shown, setup,
                     disturbed, kills>>
  BY DEF Assist!Boot
<1>2. a \in Assist!Action \cup {"boot"}
  BY DEF Assist!Action
<1>3. /\ Assist!Plain(a) \in Assist!Request /\ Assist!WellFormed(Assist!Plain(a))
           /\ Assist!Plain(a).action = a
  BY <1>2, PlainType
<1>4. a = "boot" => ~config.autostart \/ config.profile = None
  OBVIOUS
<1> HIDE DEF a
<1> QED
  BY <1>1, <1>3, <1>4, BeginStep DEF Assist!files, Assist!IInv, Assist!TypeOK

\* Steps that touch neither the profile nor the tunnel nor the request that is waiting.
LEMMA AsideStep ==
    ASSUME Assist!IInv, UNCHANGED <<config, keyfile, recovery, reply, tunnel, disturbed>>,
           job' = job \/ (job' = None /\ (job = None \/ job.phase = "publish")),
           mailbox' = mailbox \/ (mailbox' \in Assist!Request /\ Assist!WellFormed(mailbox')
                                  /\ mailbox'.action # "boot"),
           {identity', authorized', setup', booting'} \subseteq BOOLEAN,
           shown' \subseteq Assist!Fact, kills' \in Nat
    PROVE  Assist!IInv'
<1>1. Assist!TypeOK'
  BY DEF Assist!IInv, Assist!TypeOK
<1>2. mailbox' # None => Assist!WellFormed(mailbox') /\ mailbox'.action # "boot"
  BY DEF Assist!IInv
<1>3. CASE job' = job
  <2>1. Assist!Aims' <=> Assist!Aims
    BY <1>3 DEF Assist!Aims
  <2>2. (Assist!Doing => Assist!Doing') /\ (Assist!Undoing => Assist!Undoing')
          /\ (Assist!KeyfileKnown => Assist!KeyfileKnown')
        /\ (Assist!OldIsConfigured => Assist!OldIsConfigured')
             /\ (Assist!Resting => Assist!Resting')
    BY <1>3, <2>1 DEF Assist!Doing, Assist!Undoing, Assist!KeyfileKnown, Assist!OldIsConfigured,
       Assist!Resting, Assist!Left, Assist!Planned,
                      Assist!Sound, Assist!RunsAs, Assist!Reconnects
  <2> QED
    BY <1>1, <1>2, <1>3, <2>2 DEF Assist!IInv, Assist!WellFormed
<1>4. CASE job' = None /\ (job = None \/ job.phase = "publish")
  <2>1. Assist!Resting
    BY <1>4 DEF Assist!IInv
  <2>2. Assist!Resting'
    BY <2>1 DEF Assist!Resting, Assist!Sound, Assist!RunsAs
  <2> QED
    BY <1>1, <1>2, <1>4, <2>2 DEF Assist!IInv, Assist!WellFormed
<1> QED
  BY <1>3, <1>4

LEMMA QueueStep ==
    ASSUME Assist!IInv, NEW q \in Assist!Request, Assist!WellFormed(q), q.action # "boot",
             Assist!Queue(q), setup' \in BOOLEAN
    PROVE  Assist!IInv'
<1>1. /\ mailbox' = q
      /\ UNCHANGED <<config, Assist!files, identity, authorized, tunnel, job, shown, booting,
                     disturbed, kills>>
  BY DEF Assist!Queue
<1> QED
  BY <1>1, AsideStep DEF Assist!files, Assist!IInv, Assist!TypeOK

LEMMA RequestStep ==
    ASSUME Assist!IInv, Assist!Control \/ Assist!Restart \/ Assist!AutoRegister
             \/ Assist!SaveProfile \/ Assist!ImportRegistration \/ Assist!QuickQueue
    PROVE  Assist!IInv'
<1>1. CASE Assist!Control
  <2>1. PICK a \in Assist!Controls : Assist!Queue(Assist!Plain(a)) /\ UNCHANGED setup
    BY <1>1 DEF Assist!Control
  <2>2. a \in Assist!Action /\ a # "boot"
    BY DEF Assist!Controls, Assist!Action, Assist!Registering
  <2> QED
    BY <2>1, <2>2, PlainType, QueueStep DEF Assist!IInv, Assist!TypeOK
<1>2. CASE Assist!Restart
  <2>1. "restart" \in Assist!Action /\ Assist!Queue(Assist!Plain("restart")) /\ UNCHANGED setup
    BY <1>2 DEF Assist!Restart, Assist!Action
  <2> QED
    BY <2>1, PlainType, QueueStep DEF Assist!IInv, Assist!TypeOK
<1>3. CASE Assist!AutoRegister
  <2>1. "auto-register" \in Assist!Action /\ Assist!Queue(Assist!Plain("auto-register"))
          /\ UNCHANGED setup
    BY <1>3 DEF Assist!AutoRegister, Assist!Action
  <2> QED
    BY <2>1, PlainType, QueueStep DEF Assist!IInv, Assist!TypeOK
<1>4. CASE Assist!SaveProfile
  <2>1. PICK p \in Profiles : Assist!Queue([action |-> "save", profile |-> p])
               /\ UNCHANGED setup
    BY <1>4 DEF Assist!SaveProfile, Assist!Submitted
  <2>2. [action |-> "save", profile |-> p] \in Assist!Request
    BY DEF Assist!Request, Assist!Action
  <2> QED
    BY <2>1, <2>2, QueueStep DEF Assist!IInv, Assist!TypeOK, Assist!WellFormed
<1>5. CASE Assist!ImportRegistration
  <2>1. PICK p \in Profiles : Assist!Queue([action |-> "register", profile |-> p])
               /\ UNCHANGED setup
    BY <1>5 DEF Assist!ImportRegistration, Assist!Approved
  <2>2. [action |-> "register", profile |-> p] \in Assist!Request
    BY DEF Assist!Request, Assist!Action, Assist!Registering
  <2> QED
    BY <2>1, <2>2, QueueStep DEF Assist!IInv, Assist!TypeOK, Assist!WellFormed
<1>6. CASE Assist!QuickQueue
  <2>1. PICK p \in Profiles : Assist!Queue([action |-> "register-connect", profile |-> p])
    BY <1>6 DEF Assist!QuickQueue, Assist!Approved
  <2>2. [action |-> "register-connect", profile |-> p] \in Assist!Request /\ setup' \in BOOLEAN
    BY <1>6 DEF Assist!Request, Assist!Action, Assist!Registering, Assist!QuickQueue
  <2> QED
    BY <2>1, <2>2, QueueStep DEF Assist!WellFormed
<1> QED
  BY <1>1, <1>2, <1>3, <1>4, <1>5, <1>6

LEMMA AroundStep ==
    ASSUME Assist!IInv, Assist!QuickStart \/ Assist!QuickFails \/ Assist!Publish \/ Assist!Grant
             \/ UNCHANGED Assist!vars
    PROVE  Assist!IInv'
<1>1. CASE Assist!QuickStart
  BY <1>1, AsideStep DEF Assist!QuickStart, Assist!files, Assist!IInv, Assist!TypeOK
<1>2. CASE Assist!QuickFails
  BY <1>2, AsideStep DEF Assist!QuickFails, Assist!files, Assist!IInv, Assist!TypeOK
<1>3. CASE Assist!Publish
  <2>1. shown' \subseteq Assist!Fact
    BY <1>3 DEF Assist!Publish, Assist!Status
  <2> QED
    BY <1>3, <2>1, AsideStep DEF Assist!Publish, Assist!files, Assist!IInv, Assist!TypeOK
<1>4. CASE Assist!Grant
  BY <1>4, AsideStep DEF Assist!Grant, Assist!files, Assist!IInv, Assist!TypeOK
<1>5. CASE UNCHANGED Assist!vars
  BY <1>5, AsideStep DEF Assist!vars, Assist!files, Assist!IInv, Assist!TypeOK
<1> QED
  BY <1>1, <1>2, <1>3, <1>4, <1>5

LEMMA KillStep == ASSUME Assist!IInv, Assist!Kill PROVE Assist!IInv'
<1>1. /\ job # None /\ job' = None /\ disturbed' = disturbed \cup Assist!Broken
           /\ kills' = kills + 1
      /\ UNCHANGED <<config, keyfile, recovery, reply, identity, authorized, tunnel, mailbox,
                     shown, setup, booting>>
  BY DEF Assist!Kill, Assist!files
<1>2. Assist!Broken = {} \/ Assist!Broken = Assist!Copy
  BY DEF Assist!Broken
<1>3. Assist!TypeOK'
  BY <1>1, <1>2 DEF Assist!IInv, Assist!TypeOK
<1>4. CASE Assist!Broken = Assist!Copy
  <2>1. Assist!Copy \subseteq disturbed'
    BY <1>1, <1>4
  <2> QED
    BY <1>1, <1>3, <2>1 DEF Assist!IInv, Assist!Resting, Assist!Sound, Assist!Copy,
       Assist!WellFormed
<1>5. CASE Assist!Broken # Assist!Copy
  <2>1. job.phase \in {"answer", "publish"} /\ disturbed' = disturbed
    BY <1>1, <1>2, <1>5, JobFields DEF Assist!Broken, Assist!IInv, Assist!TypeOK
  <2>2. Assist!Resting'
    BY <1>1, <2>1 DEF Assist!IInv, Assist!Resting, Assist!Sound, Assist!RunsAs
  <2> QED
    BY <1>1, <1>3, <2>1, <2>2 DEF Assist!IInv, Assist!WellFormed
<1> QED
  BY <1>4, <1>5

LEMMA RebootStep == ASSUME Assist!IInv, Assist!Reboot PROVE Assist!IInv'
<1>1. /\ job' = None /\ disturbed' = disturbed \cup Assist!Broken /\ kills' = kills + 1
      /\ setup' = FALSE /\ booting' = TRUE
      /\ tunnel' = None \/ (keyfile # None /\ keyfile.auto /\ tunnel' = keyfile.profile)
      /\ UNCHANGED <<config, keyfile, recovery, reply, identity, authorized, mailbox, shown>>
  BY DEF Assist!Reboot, Assist!files
<1>2. Assist!Broken = {} \/ Assist!Broken = Assist!Copy
  BY DEF Assist!Broken
<1>3. Assist!TypeOK'
  <2>1. tunnel' \in Profiles \cup {None}
    BY <1>1 DEF Assist!IInv, Assist!TypeOK, Assist!Keyfile
  <2>2. disturbed' \subseteq Assist!Copy
    BY <1>1, <1>2 DEF Assist!IInv, Assist!TypeOK
  <2>3. {identity', authorized', setup', booting'} \subseteq BOOLEAN
    BY <1>1 DEF Assist!IInv, Assist!TypeOK
  <2>4. kills' \in Nat /\ {recovery', reply', tunnel'} \subseteq Profiles \cup {None}
    BY <1>1, <2>1 DEF Assist!IInv, Assist!TypeOK
  <2> QED
    BY <1>1, <2>2, <2>3, <2>4 DEF Assist!IInv, Assist!TypeOK
<1>4. CASE Assist!Broken = Assist!Copy
  <2>1. Assist!Copy \subseteq disturbed'
    BY <1>1, <1>4
  <2> QED
    BY <1>1, <1>3, <2>1 DEF Assist!IInv, Assist!Resting, Assist!Sound, Assist!Copy,
       Assist!WellFormed
<1>5. CASE Assist!Broken # Assist!Copy
  <2>1. (job = None \/ job.phase \in {"answer", "publish"}) /\ disturbed' = disturbed
    BY <1>1, <1>2, <1>5, JobFields DEF Assist!Broken, Assist!IInv, Assist!TypeOK
  <2>2. Assist!Resting /\ config \in Assist!Config
    BY <2>1 DEF Assist!IInv, Assist!TypeOK
  <2>3. Assist!Sound("tunnel") => Assist!RunsAs(tunnel', config)
    BY <1>1, <2>2, KeyfileOfType DEF Assist!Resting, Assist!RunsAs, Assist!Sound, Assist!IInv
  <2>4. Assist!Resting'
    BY <1>1, <2>1, <2>2, <2>3 DEF Assist!Resting, Assist!Sound, Assist!RunsAs
  <2> QED
    BY <1>1, <1>3, <2>1, <2>4 DEF Assist!IInv, Assist!WellFormed
<1> QED
  BY <1>4, <1>5

LEMMA NextStep == ASSUME Assist!IInv, [Assist!Next]_(Assist!vars) PROVE Assist!IInv'
<1>1. CASE Assist!Steps
  BY <1>1, InstallProfileStep, InstallRecoveryStep, SaveReplyStep, EnableNextStep,
     EnsureIdentityStep, AskServerStep, TunnelUpStep, TunnelDownStep, ForgetProfileStep,
     StepFailsStep, RestoreFilesStep, RestoreTunnelStep, CommitStep, UndoneStep, AnswerStep
     DEF Assist!Steps
<1> QED
  BY <1>1, RequestStep, AroundStep, StartStep, CliStep, BootStep, KillStep, RebootStep
     DEF Assist!Next

LEMMA InitHolds == ASSUME Assist!Init PROVE Assist!IInv
<1>1. Assist!TypeOK
  BY DEF Assist!Init, Assist!TypeOK, Assist!Config
<1> QED
  BY <1>1 DEF Assist!Init, Assist!IInv, Assist!Resting, Assist!KeyfileOf, Assist!RunsAs,
     Assist!Sound

-----------------------------------------------------------------------------
(* The profile of a running tunnel.                                        *)

\* With nothing disturbed a keyfile that brings itself up is the one of the tunnel that runs.
LEMMA RebootKeeps ==
    ASSUME Assist!IInv, disturbed = {}, tunnel # None, keyfile # None, keyfile.auto
    PROVE  keyfile.profile = tunnel
<1> DEFINE a == job.request.action
<1>1. /\ config \in Assist!Config /\ keyfile \in Assist!Keyfile
           /\ job \in Assist!Job \cup {None}
      /\ Assist!Sound("keyfile") /\ Assist!Sound("tunnel")
  BY DEF Assist!IInv, Assist!TypeOK, Assist!Sound
<1>2. CASE job = None \/ job.phase \in {"answer", "publish"}
  <2>1. keyfile = Assist!KeyfileOf(config) /\ tunnel = config.profile
    BY <1>1, <1>2 DEF Assist!IInv, Assist!Resting, Assist!RunsAs
  <2> QED
    BY <1>1, <2>1, KeyfileOfType
\* A job is under way, and the tunnel runs the configured profile.
<1>3. ASSUME job # None, job.phase \in {"doing", "undoing"}, Assist!RunsAs(tunnel, config)
      PROVE  keyfile.profile = tunnel
  <2>1. config.enabled /\ tunnel = config.profile /\ config.profile # None
    BY <1>3 DEF Assist!RunsAs
  <2>2. CASE keyfile = job.old.keyfile
    <3>1. keyfile = Assist!KeyfileOf(config)
      BY <1>1, <1>3, <2>2 DEF Assist!IInv, Assist!OldIsConfigured
    <3> QED
      BY <1>1, <2>1, <3>1, KeyfileOfType
  <2>3. CASE Assist!Aims /\ job.cand.enabled
               /\ (a # "auto-register" => keyfile.profile = job.cand.profile)
    <3>1. a \notin Assist!Registering \cup {"auto-register", "save"}
      BY <2>1, <2>3 DEF Assist!Aims, Assist!Permitted
    <3>2. a # "delete-profile"
      BY <2>3 DEF Assist!Aims
    <3>3. job.cand.profile = config.profile
      BY <2>3, <3>1, <3>2 DEF Assist!Aims
    <3> QED
      BY <2>1, <2>3, <3>1, <3>3
  <2> QED
    BY <1>3, <2>2, <2>3 DEF Assist!IInv, Assist!KeyfileKnown
<1>4. CASE job # None /\ job.phase = "doing"
  <2> DEFINE P == Assist!ToSet(Assist!Plan(config, job.request))
  <2>1. Assist!Doing /\ job \in Assist!Job /\ Assist!Aims
    BY <1>1, <1>4 DEF Assist!IInv, Assist!Doing
  <2>2. CASE P \cap {"up", "down"} # {} /\ Assist!Left \cap {"up", "down"} = {}
    <3>1. tunnel = job.cand.profile /\ job.cand.enabled
      BY <2>1, <2>2 DEF Assist!Doing, Assist!Planned, Assist!RunsAs
    <3>2. a # "delete-profile"
      BY <2>1, <3>1 DEF Assist!Aims
    <3>3. job.todo = <<>>
      <4>1. Shape(config, job.request, job.todo)
        BY <1>1, <2>1, JobFields, RestShapes DEF Assist!Doing
      <4> QED
        BY <2>2, <3>2, <4>1 DEF Shape, Assist!Left
    <3>4. Assist!Left = {} /\ P \cap {"keyfile", "forget"} # {}
      BY <1>1, <2>1, <2>2, <3>3, Sets, PlanSets, JobFields DEF Assist!Left
    <3>5. keyfile = Assist!KeyfileOf(job.cand)
      BY <2>1, <3>4 DEF Assist!Doing, Assist!Planned
    <3> QED
      BY <1>1, <2>1, <3>1, <3>5, KeyfileOfType, JobFields
  <2>3. CASE ~(P \cap {"up", "down"} # {} /\ Assist!Left \cap {"up", "down"} = {})
    <3>1. Assist!RunsAs(tunnel, config)
      BY <1>1, <2>1, <2>3 DEF Assist!Doing, Assist!Planned
    <3> QED
      BY <1>3, <1>4, <3>1
  <2> QED
    BY <2>2, <2>3
<1>5. CASE job # None /\ job.phase = "undoing"
  <2>1. Assist!Undoing /\ job \in Assist!Job /\ Assist!KeyfileKnown /\ Assist!OldIsConfigured
    BY <1>1, <1>5 DEF Assist!IInv
  <2>2. CASE Assist!RunsAs(tunnel, config)
    BY <1>3, <1>5, <2>2
  <2>3. CASE Assist!Aims /\ tunnel = job.cand.profile /\ a \in Assist!Activating
    <3>1. CASE keyfile = job.old.keyfile
      <4>1. keyfile = Assist!KeyfileOf(config) /\ config.enabled
              /\ keyfile.profile = config.profile
            /\ config.profile # None
        BY <1>1, <2>1, <3>1, KeyfileOfType DEF Assist!OldIsConfigured
      <4>2. a \notin Assist!Registering \cup {"save"}
        BY <2>3, <4>1 DEF Assist!Aims, Assist!Permitted
      <4>3. job.cand.profile = config.profile
        BY <2>3, <4>2 DEF Assist!Aims, Assist!Activating
      <4> QED
        BY <2>3, <4>1, <4>3
    <3>2. CASE keyfile.profile = job.cand.profile
      BY <2>3, <3>2
    <3> QED
      BY <2>1, <2>3, <3>1, <3>2 DEF Assist!KeyfileKnown, Assist!Activating
  <2> QED
    BY <1>1, <2>1, <2>2, <2>3 DEF Assist!Undoing
<1> QED
  BY <1>1, <1>2, <1>4, <1>5, JobFields

\* "up" brings up the profile that runs already.
LEMMA UpKeeps ==
    ASSUME Assist!IInv, Assist!At("up"), disturbed = {}, tunnel # None, keyfile # None
    PROVE  keyfile.profile = tunnel
<1> DEFINE a == job.request.action
<1>1. Assist!Aims
  BY AtPhase DEF Assist!IInv, Assist!Doing, Assist!Step
<1>2. /\ a \in Assist!Activating /\ (a = "save" => config.enabled)
           /\ Assist!RunsAs(tunnel, config)
      /\ keyfile.profile = job.cand.profile
  BY UpKeyfile DEF Assist!Sound
<1>3. config.enabled /\ tunnel = config.profile /\ config.profile # None
  BY <1>2 DEF Assist!RunsAs
<1>4. a \notin Assist!Registering \cup {"auto-register", "save"} /\ a # "delete-profile"
  BY <1>1, <1>2, <1>3 DEF Assist!Aims, Assist!Permitted, Assist!Activating
<1> QED
  BY <1>1, <1>2, <1>3, <1>4 DEF Assist!Aims

LEMMA RestoreKeeps ==
    ASSUME Assist!IInv, Assist!RestoreTunnel, disturbed = {}, tunnel # None, tunnel' # None
    PROVE  tunnel' = tunnel
<1> DEFINE a == job.request.action
<1>1. job # None /\ job \in Assist!Job /\ job.phase = "undoing" /\ config \in Assist!Config
  BY AtPhase DEF Assist!RestoreTunnel, Assist!Step, Assist!IInv, Assist!TypeOK
<1>2. Assist!Undoing /\ Assist!OldIsConfigured /\ Assist!Sound("tunnel")
        /\ Assist!Sound("keyfile")
  BY <1>1 DEF Assist!IInv, Assist!Sound
<1> SUFFICES ASSUME tunnel' # tunnel PROVE FALSE
  OBVIOUS
<1>3. job.old.keyfile # None /\ job.old.tunnel # None /\ tunnel' = job.old.keyfile.profile
  BY DEF Assist!RestoreTunnel
<1>4. /\ job.old.keyfile = Assist!KeyfileOf(config) /\ config.enabled
      /\ tunnel' = config.profile /\ config.profile # None
  BY <1>1, <1>2, <1>3, KeyfileOfType DEF Assist!OldIsConfigured, Assist!RunsAs
<1>5. ~Assist!RunsAs(tunnel, config)
  BY <1>4 DEF Assist!RunsAs
<1>6. Assist!Aims /\ tunnel = job.cand.profile /\ a \in Assist!Activating
  BY <1>2, <1>5 DEF Assist!Undoing
<1>7. a \notin Assist!Registering \cup {"auto-register", "save"} /\ a # "delete-profile"
  BY <1>4, <1>6 DEF Assist!Aims, Assist!Permitted, Assist!Activating
<1> QED
  BY <1>4, <1>6, <1>7 DEF Assist!Aims

LEMMA ActiveKept ==
    ASSUME Assist!IInv, [Assist!Next]_(Assist!vars), disturbed = {}, tunnel # None,
             tunnel' # None
    PROVE  tunnel' = tunnel
<1>1. \/ tunnel' = tunnel
      \/ Assist!TunnelUp \/ Assist!TunnelDown \/ Assist!StepFails \/ Assist!RestoreTunnel
           \/ Assist!Reboot
  BY DEF Assist!Next, Assist!Steps, Assist!vars, Assist!files, Assist!outside, Assist!Control,
     Assist!Restart, Assist!AutoRegister, Assist!SaveProfile,
         Assist!ImportRegistration, Assist!QuickStart, Assist!QuickQueue, Assist!QuickFails,
         Assist!Queue, Assist!Start, Assist!Cli, Assist!Boot,
         Assist!InstallProfile, Assist!InstallRecovery, Assist!SaveReply, Assist!EnableNext,
         Assist!EnsureIdentity, Assist!AskServer,
         Assist!ForgetProfile, Assist!RestoreKeyfile, Assist!RestoreRecovery,
         Assist!RestoreReply, Assist!Commit, Assist!Undone, Assist!Answer,
         Assist!Publish, Assist!Grant, Assist!Kill
<1>2. CASE Assist!TunnelUp
  BY <1>2, UpKeeps DEF Assist!TunnelUp
<1>3. CASE Assist!TunnelDown
  BY <1>3 DEF Assist!TunnelDown
<1>4. CASE Assist!StepFails
  BY <1>4, UpKeeps DEF Assist!StepFails
<1>5. CASE Assist!RestoreTunnel
  BY <1>5, RestoreKeeps
<1>6. CASE Assist!Reboot
  BY <1>6, RebootKeeps DEF Assist!Reboot
<1> QED
  BY <1>1, <1>2, <1>3, <1>4, <1>5, <1>6

-----------------------------------------------------------------------------
(* The two ends together.                                                  *)

\* Each behaviour of the two ends is one of the server and one of the appliance.
LEMMA EndsSteps == EndsSpec => Spec /\ Assist!Spec
<1>1. EndsInit => Init /\ Assist!Init
  BY DEF EndsInit
<1>2. [EndsNext]_<<end, vars, appliance>> => [Next]_vars /\ [Assist!Next]_(Assist!vars)
  BY DEF EndsNext, appliance, Assist!vars
<1> QED
  BY <1>1, <1>2, PTL DEF EndsSpec, Spec, Assist!Spec

\* The invariant of the appliance.
LEMMA AssistInductive == Assist!Spec => []Assist!IInv
<1>1. Assist!IInv /\ [Assist!Next]_(Assist!vars) => Assist!IInv'
  BY NextStep
<1>2. Assist!Init => Assist!IInv
  BY InitHolds
<1> QED
  BY <1>1, <1>2, PTL DEF Assist!Spec

\* Each variable of both ends keeps its type.
THEOREM EndsTypes == EndsSpec => []EndsTypeOK
<1>1. Assist!IInv => Assist!TypeOK
  BY DEF Assist!IInv
<1>2. Assist!TypeOK /\ TypeOK <=> EndsTypeOK
  BY DEF EndsTypeOK
<1> QED
  BY <1>1, <1>2, EndsSteps, AssistInductive, TypeCorrect, PTL

\* At rest the three copies of a peer agree, and so do the profile's copies on the
\* appliance and the tunnel that runs, whatever failed, was rolled back or killed.
THEOREM EndsAlwaysAgree == EndsSpec => []EndsAgree
<1>1. Assist!IInv => Assist!FilesAgree /\ Assist!TunnelAsConfigured
  BY DEF Assist!IInv, Assist!FilesAgree, Assist!TunnelAsConfigured, Assist!Resting,
         Assist!Sound, Assist!RunsAs
<1>2. CopiesAgree /\ Assist!FilesAgree /\ Assist!TunnelAsConfigured <=> EndsAgree
  BY DEF EndsAgree
<1> QED
  BY <1>1, <1>2, EndsSteps, AssistInductive, CopiesAlwaysAgree, PTL

\* No step of the helper, of a rollback or of a reboot gives a running tunnel another
\* profile while nothing is left out of order.
THEOREM ProfileNeverReplaced == EndsSpec => ActiveProfileStays
<1>1. Assist!IInv /\ [Assist!Next]_(Assist!vars) =>
        [tunnel # None /\ tunnel' # None /\ disturbed = {} => tunnel' = tunnel]_(Assist!vars)
  BY ActiveKept
<1> QED
  BY <1>1, EndsSteps, AssistInductive, PTL DEF Assist!Spec, ActiveProfileStays,
     Assist!ActiveProfileStays
====
