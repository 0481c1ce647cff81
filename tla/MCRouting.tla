------------------------------ MODULE MCRouting ------------------------------
(* Routing with two Services, one Ingress and one or two policies.          *)
EXTENDS Routing

LOCAL Port(name, number, target) == [name |-> name, number |-> number, target |-> target]
LOCAL Both == {"old", "new"}
LOCAL Web == [selects |-> Both, ports |-> {Port("http", 80, "web"), Port("admin", 81, "")}]
LOCAL Ingress(backends, tls, class) == [backends |-> backends, tls |-> tls, class |-> class]
LOCAL Backend(service, port, number) == [service |-> service, port |-> port, number |-> number]
LOCAL Policy(selects, ingress, rules) == [selects |-> selects, ingress |-> ingress, rules |-> rules]

LOCAL Good ==
    [services |-> [web |-> Web, side |-> [selects |-> {"new"}, ports |-> {Port("", 90, "")}]],
     ingresses |-> [edge |-> Ingress({Backend("web", "http", 0), Backend("side", "", 90)}, {"cert"}, "nginx")],
     secrets |-> {"cert"}, classes |-> {"nginx"},
     policies |-> {Policy(TRUE, TRUE, 0), Policy(TRUE, TRUE, 1), Policy(FALSE, TRUE, 0)}]

\* The good objects, and those with one or two things wrong.
MCClusters ==
    { Good,
      [Good EXCEPT !.services.web.ports = {Port("http", 80, "metrics"), Port("admin", 81, "")}],
      [Good EXCEPT !.services.web.ports = {Port("web", 80, "web"), Port("admin", 81, "")}],
      [Good EXCEPT !.services.side.ports = {Port("", 91, "")}, !.secrets = {}],
      [Good EXCEPT !.services.web.selects = {"old"}, !.ingresses.edge.class = ""],
      [Good EXCEPT !.services.side.selects = {}, !.services.web.selects = {"old"}],
      [Good EXCEPT !.services.web.selects = {"new"}],
      [Good EXCEPT !.services = [web |-> Web]],
      [Good EXCEPT !.classes = {}, !.ingresses.edge.tls = {}],
      [Good EXCEPT !.policies = {Policy(TRUE, TRUE, 0), Policy(FALSE, TRUE, 1)}],
      [Good EXCEPT !.policies = {Policy(TRUE, FALSE, 0)}] }

\* Something is broken, or mended, while the command runs.
MCEdits == {e \in MCClusters \X MCClusters : (e[1] = Good) # (e[2] = Good)}

\* Before the rollout, with the old Pods ready or not, and at its end.
MCInitialPods ==
    {[old |-> "ready", new |-> "none"], [old |-> "starting", new |-> "none"],
     [old |-> "terminating", new |-> "ready"]}
=============================================================================
