--------------------------- MODULE MCCheckCommand ---------------------------
(* CheckCommand over Pod templates that name a few objects each.           *)
EXTENDS CheckCommand

LOCAL CM == <<"ConfigMap", "settings">>
LOCAL Secret == <<"Secret", "token">>
LOCAL Ref(object, key, optional) == [object |-> object, key |-> key, optional |-> optional]
LOCAL Plain == [serviceAccount |-> "", priorityClass |-> "", refs |-> <<>>, claims |-> <<>>,
                templates |-> <<>>, private |-> 0, pullSecrets |-> <<>>]

MCWorkloads ==
    { [Plain EXCEPT !.refs = <<Ref(CM, "k", FALSE), Ref(Secret, "", FALSE), Ref(CM, "j", FALSE)>>],
      [Plain EXCEPT !.refs = <<Ref(CM, "k", TRUE), Ref(CM, "k", FALSE), Ref(CM, "", FALSE)>>,
                    !.priorityClass = "gold"],
      [Plain EXCEPT !.private = 2, !.serviceAccount = "robot", !.pullSecrets = <<"token">>],
      [Plain EXCEPT !.private = 1, !.refs = <<Ref(Secret, "p", FALSE)>>],
      [Plain EXCEPT !.claims = <<"data", "data">>, !.templates = <<"fast", "", "fast">>,
                    !.priorityClass = "system-node-critical"] }

MCVersions ==
    LET one == {{}, {""}}
    IN  (<<"ServiceAccount", "default">> :> {{}, {""}, {"", "token"}, {"", "reg"}}) @@
        (<<"ServiceAccount", "robot">> :> {{}, {""}, {"", "reg"}}) @@
        (<<"PriorityClass", "gold">> :> one) @@
        (<<"PriorityClass", "system-node-critical">> :> {{}}) @@
        (CM :> {{}, {""}, {"", "k"}, {"", "j"}, {"", "k", "j"}}) @@
        (Secret :> {{}, {""}, {"", "p"}}) @@
        (<<"Secret", "reg">> :> one) @@
        (<<"PersistentVolumeClaim", "data">> :> one) @@
        (<<"StorageClass", "fast">> :> one)

MCClusters ==
    FoldSet(LAMBDA o, made : {[w EXCEPT ![o] = v] : w \in made, v \in MCVersions[o]},
            {[o \in DOMAIN MCVersions |-> {}]}, DOMAIN MCVersions)
=============================================================================
