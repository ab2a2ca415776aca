CONSTANTS
  shader = shader
  view = view
  model = model
  fog = fog
  light = light
  States = {shader, view, model, fog, light}
  Values = {v1, v2}
  CameraStates = {view, model, fog, light}
  FogStates = {fog}
  LightStates = {light}
  QuadStates = {model}
  TextureIds = {t1, t2}
  NoTexture = NoTexture
SPECIFICATION Spec
INVARIANTS
  DrawUsesLastValues
  DirtyIsExact
  WrongTextureOnlyAfterUpload
