-------------------------- MODULE MCSidecarDispatch --------------------------
\* A plan with a required reader, a pinned optional reader and a writer.
EXTENDS SidecarDispatch

CONSTANTS reader, pinned, writer, m1, m2

PlanOrder == <<pinned, reader, writer>>
PlanRequired == {reader}
PlanWritable == {writer}
PlanPinned == {pinned}

PolicyModels == <<m1, m2>>
=============================================================================
