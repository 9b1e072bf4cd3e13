\* The console with two services; every view, two commands in flight.
SPECIFICATION Spec
CONSTANTS
    s1 = s1  s2 = s2
    None = None
    Editors = {"prom", "elastic"}
    Plain = {"help", "incidents", "cluster", "drilldown", "logs"}
    Selectors = {"services"}
    Services = {s1, s2}
    Fleets <- MCFleets
    Lists = {1, 2}
    Lines <- MCLines
    Height = 1
    Window = 1
    MaxScroll = 2
    MaxAsked = 2
CHECK_DEADLOCK FALSE
INVARIANTS TypeOK OneView DetailIsOfSelected
PROPERTIES KeepsRefreshing
